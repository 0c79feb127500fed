----------------------------- MODULE WalletSession -----------------------------
(***************************************************************************)
(* The wallet session of the web client (context/WalletContext.jsx and the *)
(* buttons of components/Layout.jsx).                                      *)
(*                                                                         *)
(* Everything the session does is a call of a wallet that answers later:   *)
(* restoring the session a former visit stored, detecting wallets,         *)
(* connecting, listing accounts, disconnecting.  Nothing cancels such a    *)
(* call but a reload, so an answer meets whatever session there is by      *)
(* then.  A call reads no state between its own awaits, so one step stands *)
(* for its beginning and one for its end.                                  *)
(*                                                                         *)
(* localStorage belongs to every tab of the site: another tab may write or *)
(* remove what is stored at any moment, and nothing here listens.  It may  *)
(* also refuse a write or a removal, which the code takes no notice of.    *)
(***************************************************************************)
EXTENDS Integers, FiniteSets

CONSTANTS
  Wallets, Accounts, Addresses,
  WalletOf,    \* the wallet an account is in
  AddressOf,   \* its address; two wallets may hold the same one
  Nobody,      \* null
  MaxDetections  \* bound: calls of getWallets under way at once

ASSUME AccountAssumption ==
  /\ WalletOf \in [Accounts -> Wallets] /\ AddressOf \in [Accounts -> Addresses]
  /\ Nobody \notin Wallets \cup Accounts \cup Addresses
  /\ MaxDetections \in Nat

VARIABLES
  wallet, account, address, connected,  \* the session every page sees
  stored,        \* localStorage: {} or one [wallet, address]
  connecting,    \* disables the buttons that connect
  menu,          \* walletMenuOpen
  walletPicker,  \* "closed", "detecting" or "open"
  offered,       \* accounts in the account picker, {} when it is closed
  pending,       \* pendingWallet
  restoring,     \* the stored session being restored: {} or one
  detecting,     \* calls of openWalletPicker that wait for getWallets
  joining, asking, leaving, \* wallets connectWith, openAccountPicker, disconnect wait for
  left,          \* history: Disconnect was the last thing the user wanted
  crossed,       \* history: an account list met another session than it was asked for
  overtaken,     \* history: a restored session took the place of a newer one
  apart          \* history: what is stored is another tab's doing, or the browser
                 \* refused to change it, since this tab last changed it

session   == <<wallet, account, address, connected>>
pickers   == <<menu, walletPicker, offered, pending, connecting>>
calls     == <<restoring, detecting, joining, asking, leaving>>
histories == <<left, crossed, overtaken, apart>>
vars      == <<session, stored, pickers, calls, histories>>

AccountsOf(w) == {a \in Accounts : WalletOf[a] = w}
Saved(w, ad)  == {[wallet |-> w, address |-> ad]}

(* First visit, or one after a session of any account was stored *)
Init ==
  /\ wallet = Nobody /\ account = Nobody /\ address = Nobody /\ connected = FALSE
  /\ connecting = FALSE /\ menu = FALSE
  /\ walletPicker = "closed" /\ offered = {} /\ pending = Nobody
  /\ detecting = 0 /\ joining = {} /\ asking = {} /\ leaving = {}
  /\ left = FALSE /\ crossed = FALSE /\ overtaken = FALSE /\ apart = FALSE
  /\ stored \in {{}} \cup {Saved(WalletOf[a], AddressOf[a]) : a \in Accounts}
  /\ restoring = stored

(* The layer on top takes the clicks: the menu covers everything, the      *)
(* wallet picker covers the account picker, both cover the header.  The    *)
(* menu is shown to a connected user only.                                 *)
MenuOnTop          == menu /\ connected
WalletPickerOnTop  == ~MenuOnTop /\ walletPicker # "closed"
AccountPickerOnTop == ~MenuOnTop /\ walletPicker = "closed" /\ offered # {}
HeaderOnTop        == ~MenuOnTop /\ walletPicker = "closed" /\ offered = {}

-----------------------------------------------------------------------------
(* setStoredWallet and clearStoredWallet swallow every exception: what was *)
(* stored may stay.                                                        *)
Store(value) ==
  \/ stored' = value /\ apart' = FALSE
  \/ stored' = stored /\ apart' = TRUE

(* Another tab connects, chooses another account, or disconnects. *)
OtherTab ==
  /\ stored' \in {{}} \cup {Saved(WalletOf[a], AddressOf[a]) : a \in Accounts}
  /\ stored' # stored /\ apart' = TRUE
  /\ UNCHANGED <<session, pickers, calls, left, crossed, overtaken>>

-----------------------------------------------------------------------------
Enter(w, a) ==
  wallet' = w /\ account' = a /\ address' = AddressOf[a] /\ connected' = TRUE

(* mutant: the account stays *)
ExitButAccount ==
  wallet' = Nobody /\ address' = Nobody /\ connected' = FALSE /\ UNCHANGED account

Exit ==
  wallet' = Nobody /\ account' = Nobody /\ address' = Nobody /\ connected' = FALSE

(* The history of a change of the session's wallet *)
Crosses == crossed' = (crossed \/ asking # {} \/ (offered # {} /\ pending = Nobody))

(* The page is loaded again: everything but localStorage starts anew. *)
Reload ==
  /\ Exit /\ restoring' = stored
  /\ connecting' = FALSE /\ menu' = FALSE
  /\ walletPicker' = "closed" /\ offered' = {} /\ pending' = Nobody
  /\ detecting' = 0 /\ joining' = {} /\ asking' = {} /\ leaving' = {}
  /\ crossed' = FALSE /\ overtaken' = FALSE
  /\ UNCHANGED <<stored, left, apart>>

(* restore(): the stored wallet's account with the stored address, or else *)
(* its first one.  It looks at no state but `cancelled`.                   *)
Restored(s, accounts, a) ==
  /\ a \in accounts
  /\ AddressOf[a] = s.address \/ \A b \in accounts : AddressOf[b] # s.address

Restore ==
  /\ restoring # {} /\ restoring' = {}
  /\ \/ \E s \in restoring : \E accounts \in SUBSET AccountsOf(s.wallet), a \in Accounts :
          /\ Restored(s, accounts, a)
          /\ Enter(s.wallet, a) /\ Crosses
          /\ overtaken' = (stored # Saved(s.wallet, AddressOf[a]))
     \/ UNCHANGED <<session, crossed, overtaken>>   \* no such wallet, refused, no account
  /\ UNCHANGED <<stored, pickers, detecting, joining, asking, leaving, left, apart>>

(* An error on the way: what is stored by now is removed, if it can be. *)
RestoreFails ==
  /\ restoring # {} /\ restoring' = {} /\ stored' \in {{}, stored}
  /\ overtaken' = (overtaken \/ connected)
  /\ UNCHANGED <<session, pickers, detecting, joining, asking, leaving, left, crossed, apart>>

-----------------------------------------------------------------------------
(* The picker can be closed and opened again while getWallets is pending. *)
OpenWalletPicker ==
  /\ HeaderOnTop /\ ~connected /\ ~connecting /\ detecting < MaxDetections
  /\ walletPicker' = "detecting" /\ detecting' = detecting + 1
  /\ UNCHANGED <<session, stored, menu, offered, pending, connecting,
                 restoring, joining, asking, leaving, histories>>

WalletsDetected ==
  /\ detecting > 0 /\ detecting' = detecting - 1
  /\ walletPicker' \in {"closed", IF walletPicker = "closed" THEN "closed" ELSE "open"}
  /\ UNCHANGED <<session, stored, menu, offered, pending, connecting,
                 restoring, joining, asking, leaving, histories>>

CloseWalletPicker ==
  /\ WalletPickerOnTop /\ walletPicker' = "closed"
  /\ UNCHANGED <<session, stored, menu, offered, pending, connecting, calls, histories>>

ConnectWith(w) ==
  /\ WalletPickerOnTop /\ walletPicker = "open" /\ ~connecting
  /\ connecting' = TRUE /\ joining' = joining \cup {w} /\ left' = FALSE
  /\ UNCHANGED <<session, stored, menu, walletPicker, offered, pending,
                 restoring, detecting, asking, leaving, crossed, overtaken, apart>>

(* Refused, an error, or a wallet without accounts *)
ConnectionRefused(w) ==
  /\ w \in joining /\ joining' = joining \ {w}
  /\ connecting' = FALSE
  /\ UNCHANGED <<session, stored, menu, walletPicker, offered, pending,
                 restoring, detecting, asking, leaving, histories>>

ConnectedToOnly(w, a) ==
  /\ w \in joining /\ joining' = joining \ {w} /\ a \in AccountsOf(w)
  /\ Store(Saved(w, AddressOf[a])) /\ Enter(w, a)
  /\ walletPicker' = "closed" /\ connecting' = FALSE
  /\ Crosses /\ overtaken' = FALSE
  /\ UNCHANGED <<menu, offered, pending, restoring, detecting, asking, leaving, left>>

(* Several accounts: the user is asked, and `connecting` stays. *)
ConnectedToSome(w, accounts) ==
  /\ w \in joining /\ joining' = joining \ {w}
  /\ accounts \subseteq AccountsOf(w) /\ Cardinality(accounts) > 1
  /\ walletPicker' = "closed" /\ pending' = w /\ offered' = accounts
  /\ UNCHANGED <<session, stored, menu, connecting, restoring, detecting, asking, leaving, histories>>

-----------------------------------------------------------------------------
ToggleMenu ==
  /\ connected /\ (HeaderOnTop \/ MenuOnTop) /\ menu' = ~menu
  /\ UNCHANGED <<session, stored, walletPicker, offered, pending, connecting, calls, histories>>

(* `Changer de compte` *)
OpenAccountPicker ==
  /\ MenuOnTop /\ menu' = FALSE
  /\ asking' = IF wallet = Nobody THEN asking ELSE asking \cup {wallet}
  /\ UNCHANGED <<session, stored, walletPicker, offered, pending, connecting,
                 restoring, detecting, joining, leaving, histories>>

(* No choice to be made, or an error *)
AccountsUseless(w) ==
  /\ w \in asking /\ asking' = asking \ {w}
  /\ UNCHANGED <<session, stored, pickers, restoring, detecting, joining, leaving, histories>>

AccountsListed(w, accounts) ==
  /\ w \in asking /\ asking' = asking \ {w}
  /\ accounts \subseteq AccountsOf(w) /\ Cardinality(accounts) > 1
  /\ pending' = Nobody /\ offered' = accounts
  /\ crossed' = (crossed \/ pending # Nobody)
  /\ UNCHANGED <<session, stored, menu, walletPicker, connecting,
                 restoring, detecting, joining, leaving, left, overtaken, apart>>

(* mutant: the new account is not stored *)
Unchosen(w, a) == stored

Chosen(w, a) == Saved(w, AddressOf[a])

(* mutant: the wallet of the session is kept *)
SelectOfSession(a) ==
  /\ Store(Chosen(pending, a))
  /\ Enter(IF wallet = Nobody THEN pending ELSE wallet, a)
  /\ pending' = Nobody /\ connecting' = FALSE

SelectOfPending(a) ==
  /\ Store(Chosen(pending, a)) /\ Enter(pending, a)
  /\ pending' = Nobody /\ connecting' = FALSE

SelectAccount(a) ==
  /\ AccountPickerOnTop /\ a \in offered
  /\ \/ /\ pending # Nobody
        /\ SelectOfPending(a)
        /\ offered' = {}
        /\ overtaken' = FALSE /\ left' = FALSE
        /\ crossed' = (crossed \/ asking # {})
     \/ /\ pending = Nobody /\ wallet # Nobody
        /\ Store(Chosen(wallet, a)) /\ offered' = {}
        /\ account' = a /\ address' = AddressOf[a]
        /\ overtaken' = FALSE /\ left' = FALSE
        /\ UNCHANGED <<wallet, connected, pending, connecting, crossed>>
     \/ /\ pending = Nobody /\ wallet = Nobody
        /\ UNCHANGED <<session, stored, offered, pending, connecting, histories>>
  /\ UNCHANGED <<menu, walletPicker, calls>>

(* mutant: `connecting` stays *)
StillConnecting == connecting

NoLongerConnecting == FALSE

CloseAccountPicker ==
  /\ AccountPickerOnTop
  /\ offered' = {} /\ pending' = Nobody /\ connecting' = NoLongerConnecting
  /\ UNCHANGED <<session, stored, menu, walletPicker, calls, histories>>

-----------------------------------------------------------------------------
(* mutant: what is stored stays *)
KeepStored == stored

ClearStored == {}

(* `Déconnexion`: what is stored is removed at once, the session when the  *)
(* wallet has answered, or failed to.                                      *)
Disconnect ==
  /\ MenuOnTop /\ menu' = FALSE
  /\ Store(ClearStored) /\ leaving' = leaving \cup {wallet}
  /\ left' = (restoring = {} /\ joining = {})
  /\ UNCHANGED <<session, walletPicker, offered, pending, connecting,
                 restoring, detecting, joining, asking, crossed, overtaken>>

Disconnected(w) ==
  /\ w \in leaving /\ leaving' = leaving \ {w}
  /\ Exit /\ Crosses
  /\ UNCHANGED <<stored, pickers, restoring, detecting, joining, asking, left, overtaken, apart>>

-----------------------------------------------------------------------------
Next ==
  \/ Reload \/ Restore \/ RestoreFails \/ OtherTab
  \/ OpenWalletPicker \/ WalletsDetected \/ CloseWalletPicker
  \/ ToggleMenu \/ OpenAccountPicker \/ CloseAccountPicker \/ Disconnect
  \/ \E w \in Wallets :
       \/ ConnectWith(w) \/ ConnectionRefused(w) \/ AccountsUseless(w) \/ Disconnected(w)
       \/ \E a \in Accounts : ConnectedToOnly(w, a)
       \/ \E accounts \in SUBSET AccountsOf(w) :
            ConnectedToSome(w, accounts) \/ AccountsListed(w, accounts)
  \/ \E a \in Accounts : SelectAccount(a)

Spec == Init /\ [][Next]_vars

-----------------------------------------------------------------------------
TypeOK ==
  /\ wallet \in Wallets \cup {Nobody} /\ account \in Accounts \cup {Nobody}
  /\ address \in Addresses \cup {Nobody} /\ connected \in BOOLEAN
  /\ stored \in {{}} \cup {Saved(w, ad) : w \in Wallets, ad \in Addresses}
  /\ restoring \in {{}} \cup {Saved(w, ad) : w \in Wallets, ad \in Addresses}
  /\ connecting \in BOOLEAN /\ menu \in BOOLEAN /\ detecting \in 0 .. MaxDetections
  /\ walletPicker \in {"closed", "detecting", "open"}
  /\ offered \subseteq Accounts /\ pending \in Wallets \cup {Nobody}
  /\ joining \subseteq Wallets /\ asking \subseteq Wallets /\ leaving \subseteq Wallets
  /\ left \in BOOLEAN /\ crossed \in BOOLEAN /\ overtaken \in BOOLEAN /\ apart \in BOOLEAN

(* The pages test `connected`, pay with `account` and file under `address`:*)
(* the three and the wallet always change together, whatever answers of    *)
(* restore, connectWith, selectAccount and disconnect cross.               *)
SessionWhole ==
  /\ connected <=> wallet # Nobody
  /\ connected <=> account # Nobody
  /\ connected => address = AddressOf[account]

(* The session's account is an account of its wallet, unless a list of     *)
(* accounts arrived for a session that had been replaced meanwhile         *)
(* (openAccountPicker awaits, selectAccount takes the wallet of now).      *)
AccountOfWallet == connected /\ ~crossed => WalletOf[account] = wallet

(* A visitor who comes back finds the session he left.  What is stored is  *)
(* the session of now, except                                              *)
(*  - while a wallet is being disconnected,                                *)
(*  - when a slow restore, or its failure, came after a newer session      *)
(*    (WalletContext.jsx:92-99),                                           *)
(*  - when another tab changed it, or the browser refused to store it      *)
(*    (lines 20-24), since this tab last stored a session;                 *)
(* no crossing of this tab's own answers, clicks and reloads is one.       *)
StoredIsSession ==
  connected /\ leaving = {} /\ ~overtaken /\ ~apart => stored = Saved(wallet, address)

(* Who disconnects stays so, reloads included: nothing is stored and no    *)
(* session comes up until he connects again, except when a call to connect *)
(* or to restore was still under way, another tab stored a session since,  *)
(* or the browser refused the removal (lines 26-30).                       *)
LeftStaysLeft == left /\ leaving = {} /\ ~apart => ~connected /\ stored = {}

(* The buttons that connect are not disabled for ever: a wallet is being   *)
(* waited for, or the user is being asked, unless an account list took the *)
(* place of the question.                                                  *)
ConnectPossible == connecting /\ ~crossed => joining # {} \/ offered # {}
=============================================================================
