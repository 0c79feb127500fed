------------------------------ MODULE HostedFiles ------------------------------
(***************************************************************************)
(* The page My Files of the web client (pages/MyFiles.jsx) and the list of *)
(* hosted files in localStorage (lib/myFilesStorage.js): selecting,        *)
(* removing, and paying for more months.                                   *)
(*                                                                         *)
(* A payment is a call of the wallet and then the wait for an operation;   *)
(* in between the user goes on working, the session changes under the page *)
(* and another tab writes the same localStorage.  WalletSession shows that *)
(* the session changes as a whole (SessionWhole): here it is one value.    *)
(***************************************************************************)
EXTENDS Integers, FiniteSets

CONSTANTS
  Users, Nobody,
  Files, OwnerOf,  \* identifiers are random UUIDs: an entry is in one list only
  Hosted,          \* the entries with providers, which cost something to extend
  Slots, NoPayment, NoDialog

ASSUME FilesAssumption ==
  /\ OwnerOf \in [Files -> Users] /\ Nobody \notin Users
  /\ Hosted \subseteq Files

VARIABLES
  user,       \* address and account of the session
  there,      \* localStorage: the entries of all lists
  onPage,     \* the page is mounted
  list,       \* its copy of the list
  selected,   \* selectedIds
  dialog,     \* extendConfirm
  opPending,  \* isOpPending of useHandleOperation
  payment,    \* handleExtendConfirm under way
  added, removed,  \* history: entries stored, entries somebody removed
  unpaid,          \* history: entries that got months without a payment
  owed,            \* history: entries paid for that got no months,
  doubted,         \* history: and those of which the user knows: an error was shown,
                   \* or the page was reloaded while it paid
  misled,          \* history: the list on the page is another account's (PaymentSettled)
  strayed          \* history: a dialog asked one account about another's list

pageVars == <<onPage, list, selected, dialog, opPending>>
shelfVars == <<there, added, removed>>
moneyVars == <<unpaid, owed, doubted>>
vars == <<user, shelfVars, pageVars, payment, moneyVars, misled, strayed>>

(* getStoredFiles: without an address there is nothing. *)
EntriesIn(entries, u) == {f \in entries : OwnerOf[f] = u}
StoredFiles(u)        == EntriesIn(there, u)

Init ==
  /\ user \in Users \cup {Nobody}
  /\ there = {} /\ added = {} /\ removed = {}
  /\ onPage = FALSE /\ list = {} /\ selected = {} /\ dialog = NoDialog /\ opPending = FALSE
  /\ payment = [s \in Slots |-> NoPayment]
  /\ unpaid = {} /\ owed = {} /\ doubted = {}
  /\ misled = FALSE /\ strayed = FALSE

-----------------------------------------------------------------------------
(* localStorage *)

(* addStoredFiles, extendStoredFiles, removeStoredFiles: the stored list is *)
(* read, changed and written in one go.                                    *)
Write(u, entries) == there' = (there \ StoredFiles(u)) \cup entries

(* mutant: the page's copy is changed and written *)
ExtendedCopy(u) == list

ExtendedEntries(u) == StoredFiles(u)

(* `ids` are extended; of those that cost something, `priced` were paid for. *)
ExtendStored(u, priced, ids) ==
  /\ Write(u, ExtendedEntries(u))
  /\ unpaid' = unpaid \cup ((ids \cap Hosted \cap StoredFiles(u)) \ priced)
  /\ owed' = owed \cup (priced \ (ids \cap StoredFiles(u)))

(* The money of these payments is gone, or will be, and no month is added: *)
(* the user is told of an error, or of nothing because the page is gone.   *)
PaidInVain(paid) ==
  /\ owed' = owed \cup UNION {payment[s].priced : s \in paid}
  /\ doubted' = doubted \cup UNION {payment[s].priced : s \in paid}
  /\ UNCHANGED unpaid

RemoveStored(u, ids) ==
  /\ Write(u, StoredFiles(u) \ ids) /\ removed' = removed \cup (ids \cap StoredFiles(u))

(* StoreFiles.jsx files an upload, from this tab or another. *)
Upload(f) ==
  /\ f \notin added /\ added' = added \cup {f}
  /\ Write(OwnerOf[f], StoredFiles(OwnerOf[f]) \cup {f})
  /\ UNCHANGED <<user, removed, pageVars, payment, moneyVars, misled, strayed>>

(* The page is open in another tab, and an entry is removed there. *)
RemovedElsewhere(f) ==
  /\ f \in there /\ RemoveStored(OwnerOf[f], {f})
  /\ UNCHANGED <<user, added, pageVars, payment, moneyVars, misled, strayed>>

-----------------------------------------------------------------------------
(* Coming, going and the session *)

Load(u) == list' = StoredFiles(u)

EnterPage ==
  /\ ~onPage /\ onPage' = TRUE /\ Load(user)
  /\ selected' = {} /\ dialog' = NoDialog /\ opPending' = FALSE
  /\ UNCHANGED <<user, shelfVars, payment, moneyVars, misled, strayed>>

Gone ==
  /\ onPage' = FALSE /\ list' = {} /\ selected' = {} /\ dialog' = NoDialog /\ opPending' = FALSE
  /\ misled' = FALSE

(* By a link, or with the browser's buttons, which the dialog does not     *)
(* cover.  A payment goes on without its page.                             *)
LeavePage ==
  /\ onPage /\ Gone
  /\ payment' = [s \in Slots |-> IF payment[s] = NoPayment THEN NoPayment
                                 ELSE [payment[s] EXCEPT !.here = FALSE]]
  /\ UNCHANGED <<user, shelfVars, moneyVars, strayed>>

(* The tab is loaded again or closed: a payment loses who waits for it,    *)
(* and its transfer may be executed all the same.                          *)
Reload ==
  /\ Gone /\ payment' = [s \in Slots |-> NoPayment]
  /\ \E paid \in SUBSET {s \in Slots : payment[s] # NoPayment} : PaidInVain(paid)
  /\ UNCHANGED <<user, shelfVars, strayed>>

LoadAgain(u) == IF onPage THEN Load(u) ELSE UNCHANGED list

(* Another account, another wallet, or none; `load` depends on address. *)
SwitchUser(u) ==
  /\ user' = u /\ u # user
  /\ LoadAgain(u) /\ misled' = FALSE
  /\ strayed' = (strayed \/ dialog # NoDialog)
  /\ UNCHANGED <<shelfVars, onPage, selected, dialog, opPending, payment, moneyVars>>

-----------------------------------------------------------------------------
(* The list *)

OnList == onPage /\ dialog = NoDialog

Untouched == UNCHANGED <<user, added, onPage, opPending, payment>>

ToggleSelect(f) ==
  /\ OnList /\ f \in list
  /\ selected' = IF f \in selected THEN selected \ {f} ELSE selected \cup {f}
  /\ Untouched /\ UNCHANGED <<there, removed, list, dialog, moneyVars, misled, strayed>>

(* By their numbers: what is selected may be somebody else's list. *)
ToggleSelectAll ==
  /\ OnList /\ list # {}
  /\ selected' = IF Cardinality(selected) = Cardinality(list) THEN {} ELSE list
  /\ Untouched /\ UNCHANGED <<there, removed, list, dialog, moneyVars, misled, strayed>>

ClearSelection ==
  /\ OnList /\ list # {} /\ selected # {} /\ selected' = {}
  /\ Untouched /\ UNCHANGED <<there, removed, list, dialog, moneyVars, misled, strayed>>

DeleteOne(f) ==
  /\ OnList /\ f \in list
  /\ IF user = Nobody THEN UNCHANGED <<there, removed>> ELSE RemoveStored(user, {f})
  /\ selected' = selected \ {f} /\ list' = EntriesIn(there', user)
  /\ misled' = FALSE
  /\ Untouched /\ UNCHANGED <<dialog, moneyVars, strayed>>

DeleteSelected ==
  /\ OnList /\ list # {} /\ selected # {}
  /\ IF user = Nobody THEN UNCHANGED <<there, removed>> ELSE RemoveStored(user, selected)
  /\ selected' = {} /\ list' = EntriesIn(there', user)
  /\ misled' = FALSE
  /\ Untouched /\ UNCHANGED <<dialog, moneyVars, strayed>>

-----------------------------------------------------------------------------
(* Paying for more months *)

(* mutant: whatever is selected is paid for *)
AllSelected(ids) == ids

EntriesToExtend(ids) == ids \cap list

(* Something to pay: the user is asked.  Nothing: the entries are extended *)
(* at once.  Without a session one is told to connect.                     *)
Extend(ids, cleared) ==
  LET priced == EntriesToExtend(ids) \cap Hosted
  IN  /\ OnList /\ ~opPending
      /\ \/ /\ priced # {} /\ user # Nobody
            /\ dialog' = [ids |-> ids, priced |-> priced]
            /\ strayed' = (strayed \/ misled)
            /\ UNCHANGED <<there, list, selected, unpaid, owed, misled>>
         \/ /\ priced = {}
            /\ IF user = Nobody THEN UNCHANGED <<there, unpaid, owed>>
               ELSE ExtendStored(user, {}, ids)
            /\ selected' = cleared /\ list' = EntriesIn(there', user)
            /\ misled' = FALSE
            /\ UNCHANGED <<dialog, strayed>>
      /\ Untouched /\ UNCHANGED <<removed, doubted>>

ExtendSelected == list # {} /\ selected # {} /\ Extend(selected, {})

ExtendOne(f) == f \in list /\ Extend({f}, selected)

(* `Annuler`, or a click beside the dialog, which nothing disables *)
ExtendCancel ==
  /\ dialog # NoDialog /\ dialog' = NoDialog
  /\ Untouched /\ UNCHANGED <<there, removed, list, selected, moneyVars, misled, strayed>>

(* account.transfer: until the wallet answers, isOpPending is FALSE and    *)
(* the button can be pressed again.                                        *)
ExtendConfirm(s) ==
  /\ dialog # NoDialog /\ user # Nobody /\ ~opPending
  /\ payment[s] = NoPayment
  /\ payment' = [payment EXCEPT ![s] =
       [user |-> user, ids |-> dialog.ids, priced |-> dialog.priced,
        sent |-> FALSE, here |-> TRUE]]
  /\ UNCHANGED <<user, shelfVars, pageVars, moneyVars, misled, strayed>>

TransferSent(s) ==
  /\ payment[s] # NoPayment /\ ~payment[s].sent
  /\ payment' = [payment EXCEPT ![s].sent = TRUE]
  /\ opPending' = (opPending \/ payment[s].here)
  /\ UNCHANGED <<user, shelfVars, onPage, list, selected, dialog, moneyVars, misled, strayed>>

OpDone(s) == opPending' = (opPending /\ ~(payment[s].here /\ payment[s].sent))

(* Refused by the wallet, or the operation failed: nothing is paid.  Or    *)
(* the wait for it failed and it is executed all the same, or it succeeded *)
(* and extendStoredFiles could not write: paid, and an error is shown.     *)
PaymentFails(s) ==
  /\ payment[s] # NoPayment /\ payment' = [payment EXCEPT ![s] = NoPayment]
  /\ \E paid \in SUBSET {s} : PaidInVain(paid)
  /\ OpDone(s)
  /\ UNCHANGED <<user, shelfVars, onPage, list, selected, dialog, misled, strayed>>

(* mutant: the months are added when the payment fails, too *)
WhateverHappened(s) == payment[s] # NoPayment

(* mutant: what is selected by now is extended *)
IdsSelected(p) == selected

(* The ids of the dialog that was confirmed *)
IdsOf(p) == p.ids

(* The operation succeeded *)
HasSucceeded(s) == payment[s] # NoPayment /\ payment[s].sent

(* Paid: the entries of the account that paid are extended, and the page   *)
(* shows the list of that account.                                         *)
PaymentSettled(s) ==
  /\ HasSucceeded(s)
  /\ LET p == payment[s]
     IN  /\ ExtendStored(p.user, IF p.sent THEN p.priced ELSE {}, IdsOf(p))
         /\ IF p.here THEN /\ dialog' = NoDialog /\ selected' = {}
                           /\ list' = EntriesIn(there', p.user)
                           /\ misled' = (p.user # user)
            ELSE UNCHANGED <<dialog, selected, list, misled>>
  /\ OpDone(s) /\ payment' = [payment EXCEPT ![s] = NoPayment]
  /\ UNCHANGED <<user, added, removed, onPage, doubted, strayed>>

-----------------------------------------------------------------------------
Next ==
  \/ EnterPage \/ LeavePage \/ Reload
  \/ \E u \in Users \cup {Nobody} : SwitchUser(u)
  \/ ToggleSelectAll \/ ClearSelection \/ DeleteSelected \/ ExtendSelected \/ ExtendCancel
  \/ \E f \in Files :
       Upload(f) \/ RemovedElsewhere(f) \/ ToggleSelect(f) \/ DeleteOne(f) \/ ExtendOne(f)
  \/ \E s \in Slots :
       ExtendConfirm(s) \/ TransferSent(s) \/ PaymentFails(s) \/ PaymentSettled(s)

Spec == Init /\ [][Next]_vars

-----------------------------------------------------------------------------
(* An entry is in the list until somebody removes it, and then it is never *)
(* back, although a payment that lasts extends entries of a list that was  *)
(* read before it began (extendStoredFiles, handleDeleteOne).              *)
NothingLostNorRevived == there = added \ removed

(* No month is added that was not paid for, whatever fails, is confirmed   *)
(* twice, closed or left while it pays, and although the selection outlives*)
(* a change of the account; except when the session changed under an open  *)
(* dialog, whose ids were priced for another list (entriesToExtend).       *)
MonthsArePaid == ~strayed => unpaid = {}

(* Who paid, was shown no error and did not reload meanwhile has his       *)
(* months, for every entry that is still stored; except when the dialog    *)
(* asked one account about another's list, because the session changed     *)
(* under it or that list was shown after a payment (handleExtendConfirm).  *)
PaidIsExtended == ~strayed => owed \cap there \subseteq doubted

(* What an account is shown are its own files, and what it is asked to pay *)
(* and pays for, too.  The first fails from the moment a payment settles   *)
(* on the page of the next account, whose list it replaces by the payer's  *)
(* (load at MyFiles.jsx:249), until that page loads its list again; the    *)
(* second when a dialog was opened on such a list, or outlived its session.*)
OwnFilesOnly ==
  /\ ~misled => \A f \in list : OwnerOf[f] = user
  /\ ~strayed => \A s \in Slots : payment[s] # NoPayment =>
       \A f \in payment[s].priced : OwnerOf[f] = payment[s].user
=============================================================================
