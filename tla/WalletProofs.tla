----------------------------- MODULE WalletProofs ------------------------------
(***************************************************************************)
(* The wallet session, for any number of wallets, accounts and calls under *)
(* way: it changes as a whole, and its account is one of its wallet.       *)
(*                                                                         *)
(* SessionWhole is inductive.  AccountOfWallet is not: a session takes its *)
(* account from the account picker, so the accounts offered must be those  *)
(* of the wallet they are for, and the lists still being asked for must be *)
(* asked for the wallet of the session (PickerRight).                      *)
(***************************************************************************)
EXTENDS WalletSession, FiniteSetTheorems, TLAPS

(* Accounts are offered for the wallet that waits for the choice, or else  *)
(* for the wallet of the session; a list of accounts is asked for the      *)
(* wallet of the session.                                                  *)
PickerRight ==
  /\ pending # Nobody => \A a \in offered : WalletOf[a] = pending
  /\ ~crossed =>
       /\ pending = Nobody => \A a \in offered : WalletOf[a] = wallet
       /\ \A w \in asking : w = wallet

SessionInv == SessionWhole /\ AccountOfWallet /\ PickerRight

LEMMA SessionInvInit == Init => SessionInv
  BY DEF Init, SessionInv, SessionWhole, AccountOfWallet, PickerRight

(* No answer of a wallet, and no click, breaks the three. *)
LEMMA SessionInvStep == SessionInv /\ [Next]_vars => SessionInv'
<1> SUFFICES ASSUME SessionInv, [Next]_vars PROVE SessionInv'
  OBVIOUS
<1> USE DEF SessionInv, SessionWhole, AccountOfWallet, PickerRight
<1>1. CASE Reload
  BY <1>1 DEF Reload, Exit
<1>2. CASE Restore
  <2>1. CASE \E s \in restoring : \E accounts \in SUBSET AccountsOf(s.wallet), a \in Accounts :
               /\ Restored(s, accounts, a)
               /\ Enter(s.wallet, a) /\ Crosses
    <3>1. PICK s \in restoring, a \in Accounts :
                 /\ a \in AccountsOf(s.wallet)
                 /\ Enter(s.wallet, a) /\ Crosses
      BY <2>1 DEF Restored
    <3>2. WalletOf[a] = s.wallet /\ s.wallet # Nobody /\ a # Nobody
      BY <3>1, AccountAssumption DEF AccountsOf
    <3>3. UNCHANGED <<pending, offered, asking>>
      BY <1>2 DEF Restore, pickers
    <3>. QED
      BY <3>1, <3>2, <3>3 DEF Enter, Crosses
  <2>2. CASE UNCHANGED <<session, crossed>>
    BY <1>2, <2>2 DEF Restore, session, pickers
  <2>. QED
    BY <1>2, <2>1, <2>2 DEF Restore
<1>3. CASE \/ RestoreFails \/ OpenWalletPicker \/ WalletsDetected \/ CloseWalletPicker
           \/ ToggleMenu \/ Disconnect \/ OtherTab
           \/ \E w \in Wallets : ConnectWith(w) \/ ConnectionRefused(w) \/ AccountsUseless(w)
  BY <1>3 DEF RestoreFails, OpenWalletPicker, WalletsDetected, CloseWalletPicker, ToggleMenu,
              Disconnect, OtherTab, ConnectWith, ConnectionRefused, AccountsUseless,
              session, pickers, calls, histories
<1>4. CASE OpenAccountPicker
  BY <1>4 DEF OpenAccountPicker, session, histories
<1>5. CASE CloseAccountPicker
  BY <1>5 DEF CloseAccountPicker, session, calls, histories
<1>6. ASSUME NEW w \in Wallets, Disconnected(w) PROVE SessionInv'
  BY <1>6 DEF Disconnected, Exit, Crosses, pickers
<1>7. ASSUME NEW w \in Wallets, NEW a \in Accounts, ConnectedToOnly(w, a) PROVE SessionInv'
  <2>1. WalletOf[a] = w /\ w # Nobody /\ a # Nobody
    BY <1>7, AccountAssumption DEF ConnectedToOnly, AccountsOf
  <2>. QED
    BY <1>7, <2>1 DEF ConnectedToOnly, Enter, Crosses
<1>8. ASSUME NEW w \in Wallets, NEW accounts \in SUBSET AccountsOf(w),
             ConnectedToSome(w, accounts)
      PROVE  SessionInv'
  <2>1. w # Nobody /\ \A a \in accounts : WalletOf[a] = w
    BY <1>8, AccountAssumption DEF AccountsOf
  <2>. QED
    BY <1>8, <2>1 DEF ConnectedToSome, session, histories
<1>9. ASSUME NEW w \in Wallets, NEW accounts \in SUBSET AccountsOf(w),
             AccountsListed(w, accounts)
      PROVE  SessionInv'
  <2>1. \A a \in accounts : WalletOf[a] = w
    BY <1>9 DEF AccountsOf
  <2>. QED
    BY <1>9, <2>1 DEF AccountsListed, session
<1>10. ASSUME NEW a \in Accounts, SelectAccount(a) PROVE SessionInv'
  <2>1. a \in offered /\ a # Nobody
    BY <1>10, AccountAssumption DEF SelectAccount
  <2>2. CASE pending # Nobody
    BY <1>10, <2>1, <2>2 DEF SelectAccount, SelectOfPending, Enter, calls
  <2>3. CASE pending = Nobody /\ wallet # Nobody
    BY <1>10, <2>1, <2>3 DEF SelectAccount, calls
  <2>4. CASE pending = Nobody /\ wallet = Nobody
    BY <1>10, <2>4 DEF SelectAccount, session, calls, histories
  <2>. QED
    BY <2>2, <2>3, <2>4
<1>11. CASE UNCHANGED vars
  BY <1>11 DEF vars, session, pickers, calls, histories
<1>. QED
  BY <1>1, <1>2, <1>3, <1>4, <1>5, <1>6, <1>7, <1>8, <1>9, <1>10, <1>11 DEF Next

LEMMA SessionInvCorrect == Spec => []SessionInv
  BY SessionInvInit, SessionInvStep, PTL DEF Spec

(* Whatever answers cross, the four values of the session change together. *)
THEOREM SessionWholeCorrect == Spec => []SessionWhole
<1>1. SessionInv => SessionWhole
  BY DEF SessionInv
<1>. QED
  BY <1>1, SessionInvCorrect, PTL

(* The session's account is in its wallet, unless an account list met      *)
(* another session than it was asked for.                                  *)
THEOREM AccountOfWalletCorrect == Spec => []AccountOfWallet
<1>1. SessionInv => AccountOfWallet
  BY DEF SessionInv
<1>. QED
  BY <1>1, SessionInvCorrect, PTL
-----------------------------------------------------------------------------
(* What is stored, leaving, and the buttons that connect *)

(* Who wants to be left alone waits for no wallet; as long as neither      *)
(* another tab nor the browser interfered, nothing is stored that a reload *)
(* would bring up, and nothing is being restored.                          *)
NothingBringsBack ==
  /\ left => joining = {}
  /\ left /\ ~apart => stored = {} /\ restoring = {}
  /\ left /\ leaving = {} /\ ~apart => ~connected

(* `connecting` waits for a wallet, or for a choice that is being offered. *)
SomebodyIsAsked ==
  /\ pending # Nobody => offered # {}
  /\ connecting /\ ~crossed => joining # {} \/ pending # Nobody

WishInv == StoredIsSession /\ NothingBringsBack /\ SomebodyIsAsked

LEMMA WishInvInit == Init => WishInv
  BY DEF Init, WishInv, StoredIsSession, NothingBringsBack, SomebodyIsAsked

(* Two accounts are some. *)
LEMMA ManyIsSome == \A S : Cardinality(S) > 1 => S # {}
  BY FS_EmptySet

LEMMA WishInvStep == WishInv /\ [Next]_vars => WishInv'
<1> SUFFICES ASSUME WishInv, [Next]_vars PROVE WishInv'
  OBVIOUS
<1> USE DEF WishInv, StoredIsSession, NothingBringsBack, SomebodyIsAsked
<1>1. CASE Reload
  BY <1>1 DEF Reload, Exit
<1>2. CASE Restore
  <2>1. CASE \E s \in restoring : \E a \in Accounts :
               /\ Enter(s.wallet, a) /\ Crosses
               /\ overtaken' = (stored # Saved(s.wallet, AddressOf[a]))
    <3>1. restoring # {} /\ UNCHANGED <<stored, pending, offered, connecting, joining, leaving, left, apart>>
      BY <1>2 DEF Restore, pickers
    <3>2. crossed => crossed'
      BY <2>1 DEF Crosses
    <3>3. ~overtaken' => stored' = Saved(wallet', address')
      BY <2>1, <3>1 DEF Enter
    <3>. QED
      BY <3>1, <3>2, <3>3
  <2>2. CASE UNCHANGED <<session, crossed, overtaken>>
    BY <1>2, <2>2 DEF Restore, session, pickers
  <2>. QED
    BY <1>2, <2>1, <2>2 DEF Restore
<1>3. CASE OpenWalletPicker \/ WalletsDetected \/ CloseWalletPicker \/ ToggleMenu
           \/ OpenAccountPicker \/ CloseAccountPicker \/ RestoreFails \/ Disconnect
           \/ OtherTab
  <2>1. CASE OpenWalletPicker \/ WalletsDetected
    BY <2>1 DEF OpenWalletPicker, WalletsDetected, session, histories
  <2>2. CASE CloseWalletPicker \/ ToggleMenu \/ OpenAccountPicker
    BY <2>2 DEF CloseWalletPicker, ToggleMenu, OpenAccountPicker, session, calls, histories
  <2>3. CASE CloseAccountPicker
    BY <2>3 DEF CloseAccountPicker, NoLongerConnecting, session, calls, histories
  <2>4. CASE RestoreFails
    BY <2>4 DEF RestoreFails, session, pickers
  <2>5. CASE Disconnect
    BY <2>5 DEF Disconnect, Store, ClearStored, session
  <2>6. CASE OtherTab
    BY <2>6 DEF OtherTab, session, pickers, calls
  <2>. QED
    BY <1>3, <2>1, <2>2, <2>3, <2>4, <2>5, <2>6
<1>4. ASSUME NEW w \in Wallets,
             ConnectWith(w) \/ ConnectionRefused(w) \/ AccountsUseless(w)
      PROVE  WishInv'
  BY <1>4 DEF ConnectWith, ConnectionRefused, AccountsUseless, session, pickers, histories
<1>5. ASSUME NEW w \in Wallets, Disconnected(w) PROVE WishInv'
  BY <1>5 DEF Disconnected, Exit, Crosses, pickers
<1>6. ASSUME NEW w \in Wallets, NEW a \in Accounts, ConnectedToOnly(w, a) PROVE WishInv'
  BY <1>6 DEF ConnectedToOnly, Store, Enter, Crosses
<1>7. ASSUME NEW w \in Wallets, NEW accounts \in SUBSET AccountsOf(w),
             ConnectedToSome(w, accounts)
      PROVE  WishInv'
  <2>1. pending' # Nobody /\ offered' # {}
    BY <1>7, ManyIsSome, AccountAssumption DEF ConnectedToSome
  <2>2. UNCHANGED <<session, stored, connecting, restoring, leaving, histories>>
    BY <1>7 DEF ConnectedToSome
  <2>3. joining = {} => joining' = {}
    BY <1>7 DEF ConnectedToSome
  <2>. QED
    BY <2>1, <2>2, <2>3 DEF session, histories
<1>8. ASSUME NEW w \in Wallets, NEW accounts \in SUBSET AccountsOf(w),
             AccountsListed(w, accounts)
      PROVE  WishInv'
  BY <1>8, ManyIsSome DEF AccountsListed, session
<1>9. ASSUME NEW a \in Accounts, SelectAccount(a) PROVE WishInv'
  <2>1. CASE pending # Nobody
    BY <1>9, <2>1 DEF SelectAccount, SelectOfPending, Store, Chosen, Enter, calls
  <2>2. CASE pending = Nobody /\ wallet # Nobody
    BY <1>9, <2>2 DEF SelectAccount, Store, Chosen, calls
  <2>3. CASE pending = Nobody /\ wallet = Nobody
    BY <1>9, <2>3 DEF SelectAccount, session, calls, histories
  <2>. QED
    BY <2>1, <2>2, <2>3
<1>10. CASE UNCHANGED vars
  BY <1>10 DEF vars, session, pickers, calls, histories
<1>. QED
  BY <1>1, <1>2, <1>3, <1>4, <1>5, <1>6, <1>7, <1>8, <1>9, <1>10 DEF Next

LEMMA WishInvCorrect == Spec => []WishInv
  BY WishInvInit, WishInvStep, PTL DEF Spec

(* What localStorage holds is the session of now, however this tab's own   *)
(* answers, clicks and reloads cross; the exceptions are those of          *)
(* StoredIsSession: leaving, a slow restore, another tab, and a browser    *)
(* that refuses to store.                                                  *)
THEOREM StoredCorrect == Spec => []StoredIsSession
<1>1. WishInv => StoredIsSession
  BY DEF WishInv
<1>. QED
  BY <1>1, WishInvCorrect, PTL

(* Who left stays so, through any number of reloads and late answers, as   *)
(* long as no other tab stored a session since and the browser removed     *)
(* what was stored (LeftStaysLeft).                                        *)
THEOREM LeftCorrect == Spec => []LeftStaysLeft
<1>1. WishInv => LeftStaysLeft
  BY DEF WishInv, NothingBringsBack, LeftStaysLeft
<1>. QED
  BY <1>1, WishInvCorrect, PTL

(* The buttons that connect are disabled only while somebody is waited for.*)
THEOREM ConnectCorrect == Spec => []ConnectPossible
<1>1. WishInv => ConnectPossible
  BY DEF WishInv, SomebodyIsAsked, ConnectPossible
<1>. QED
  BY <1>1, WishInvCorrect, PTL
=============================================================================
