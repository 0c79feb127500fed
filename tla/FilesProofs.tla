------------------------------ MODULE FilesProofs ------------------------------
(***************************************************************************)
(* The page My Files, for any users, entries and payments at once: no      *)
(* entry is lost or comes back, no month is added that was not paid for,   *)
(* none that was paid for is missing without an error shown, and an        *)
(* account pays for its own entries only.                                  *)
(***************************************************************************)
EXTENDS HostedFiles, TLAPS

Payments == [user : Users, ids : SUBSET Files, priced : SUBSET Files,
             sent : BOOLEAN, here : BOOLEAN]

FilesType ==
  /\ user \in Users \cup {Nobody}
  /\ there \subseteq Files /\ added \subseteq Files
  /\ onPage \in BOOLEAN /\ opPending \in BOOLEAN /\ strayed \in BOOLEAN /\ misled \in BOOLEAN
  /\ list \subseteq Files /\ selected \subseteq Files
  /\ dialog \in [ids : SUBSET Files, priced : SUBSET Files] \cup {NoDialog}
  /\ payment \in [Slots -> Payments \cup {NoPayment}]

(* What the page or a payment knows of was stored once. *)
KnownInv ==
  /\ removed \subseteq added /\ list \subseteq added /\ selected \subseteq added
  /\ dialog # NoDialog => dialog.ids \subseteq added
  /\ \A s \in Slots : payment[s] # NoPayment => payment[s].ids \subseteq added

(* Who is not on the page has no list, no selection and no dialog, and no  *)
(* payment that would come back to it.                                     *)
PageInv ==
  /\ ~onPage => list = {} /\ selected = {} /\ dialog = NoDialog
  /\ \A s \in Slots : payment[s] # NoPayment /\ payment[s].here => onPage

(* Of what is asked for, and stored in u's list, u is told the price. *)
Priced(u, ids, priced) ==
  /\ priced \subseteq ids \cap Hosted
  /\ \A f \in priced : OwnerOf[f] = u
  /\ ids \cap Hosted \cap StoredFiles(u) \subseteq priced

(* The page shows one list, up to entries stored or removed in other tabs: *)
(* none of the user's that are stored is selected without being shown.     *)
ListRight ==
  /\ ~misled => \A f \in list : OwnerOf[f] = user
  /\ selected \cap StoredFiles(user) \subseteq list

DialogRight == dialog # NoDialog => Priced(user, dialog.ids, dialog.priced)

PaymentRight(s) ==
  payment[s] # NoPayment => Priced(payment[s].user, payment[s].ids, payment[s].priced)

MoneyRight ==
  /\ unpaid = {} /\ owed \subseteq added
  /\ owed \cap there \subseteq doubted

(* As long as no dialog asked one account about another's list, what is    *)
(* asked and paid is the price, and the money is accounted for.            *)
PriceInv ==
  ~strayed => DialogRight /\ (\A s \in Slots : PaymentRight(s)) /\ MoneyRight

FilesInv ==
  /\ FilesType /\ NothingLostNorRevived /\ KnownInv /\ PageInv /\ ListRight /\ PriceInv

LEMMA InitFiles == Init => FilesInv
BY FilesAssumption
   DEF Init, FilesInv, FilesType, NothingLostNorRevived, KnownInv, PageInv, ListRight,
       PriceInv, DialogRight, PaymentRight, MoneyRight

-----------------------------------------------------------------------------
(* The shelf *)

LEMMA ExtendKeeps ==
  ASSUME NEW u, NEW priced, NEW ids, ExtendStored(u, priced, ids)
  PROVE  there' = there
BY DEF ExtendStored, Write, ExtendedEntries, StoredFiles, EntriesIn

LEMMA RemoveTakes ==
  ASSUME NEW u, NEW ids, RemoveStored(u, ids)
  PROVE  /\ there' = there \ (ids \cap StoredFiles(u))
         /\ removed' = removed \cup (ids \cap StoredFiles(u))
BY DEF RemoveStored, Write, StoredFiles, EntriesIn

LEMMA UploadAdds ==
  ASSUME NEW f \in Files, Upload(f)
  PROVE  there' = there \cup {f}
BY DEF Upload, Write, StoredFiles, EntriesIn

(* Of the stored entries some may go, and a new one may come. *)
ShelfStep ==
  /\ there' = added' \ removed' /\ removed' \subseteq added'
  /\ added \subseteq added' /\ added' \subseteq Files /\ there' \cap added \subseteq there

LEMMA StepShelf ==
  ASSUME FilesInv, [Next]_vars
  PROVE  ShelfStep
<1> USE DEF FilesInv, FilesType, NothingLostNorRevived, KnownInv, ShelfStep
<1>1. ASSUME NEW u, NEW ids, RemoveStored(u, ids), UNCHANGED added
      PROVE  ShelfStep
  <2>1. StoredFiles(u) \subseteq there
    BY DEF StoredFiles, EntriesIn
  <2>2. QED
    BY <1>1, <2>1, RemoveTakes
<1>2. ASSUME NEW f \in Files, Upload(f) PROVE ShelfStep
  <2>1. added' = added \cup {f} /\ f \notin added /\ removed' = removed
    BY <1>2 DEF Upload
  <2>2. QED
    BY <1>2, <2>1, UploadAdds
<1>3. ASSUME UNCHANGED shelfVars PROVE ShelfStep
  BY <1>3 DEF shelfVars
<1>4. ASSUME NEW ids, NEW cleared, Extend(ids, cleared) PROVE ShelfStep
  <2>1. UNCHANGED <<added, removed>> /\ there' = there
    BY <1>4, ExtendKeeps DEF Extend, Untouched
  <2>2. QED
    BY <2>1
<1>5. ASSUME NEW s \in Slots, PaymentSettled(s) PROVE ShelfStep
  <2>1. UNCHANGED <<added, removed>> /\ there' = there
    BY <1>5, ExtendKeeps DEF PaymentSettled
  <2>2. QED
    BY <2>1
<1>6. CASE EnterPage \/ LeavePage \/ Reload \/ \E u \in Users \cup {Nobody} : SwitchUser(u)
  BY <1>3, <1>6 DEF EnterPage, LeavePage, Reload, SwitchUser
<1>7. CASE ToggleSelectAll \/ ClearSelection \/ ExtendCancel \/ \E f \in Files : ToggleSelect(f)
  BY <1>3, <1>7 DEF ToggleSelectAll, ClearSelection, ExtendCancel, ToggleSelect, Untouched, shelfVars
<1>8. CASE DeleteSelected \/ \E f \in Files : DeleteOne(f) \/ RemovedElsewhere(f)
  BY <1>1, <1>3, <1>8 DEF DeleteSelected, DeleteOne, RemovedElsewhere, Untouched, shelfVars
<1>9. CASE ExtendSelected \/ \E f \in Files : ExtendOne(f)
  BY <1>4, <1>9 DEF ExtendSelected, ExtendOne
<1>10. CASE \E s \in Slots : ExtendConfirm(s) \/ TransferSent(s) \/ PaymentFails(s)
  BY <1>3, <1>10 DEF ExtendConfirm, TransferSent, PaymentFails
<1>11. CASE UNCHANGED vars
  BY <1>3, <1>11 DEF vars
<1>12. QED
  BY <1>2, <1>5, <1>6, <1>7, <1>8, <1>9, <1>10, <1>11 DEF Next

LEMMA StoredAre ==
  ASSUME FilesInv, NEW u
  PROVE  /\ StoredFiles(u) \subseteq there /\ there \subseteq added /\ there \subseteq Files
         /\ \A f \in StoredFiles(u) : OwnerOf[f] = u
BY DEF StoredFiles, EntriesIn, FilesInv, FilesType, NothingLostNorRevived

(* The new list is what is stored, of whoever it is. *)
LEMMA Listed ==
  ASSUME FilesInv, ShelfStep, NEW u, list' = EntriesIn(there', u)
  PROVE  /\ list' \subseteq there' /\ list' \subseteq added' /\ list' \subseteq Files
         /\ list' = StoredFiles(u)'
         /\ \A f \in list' : OwnerOf[f] = u
BY DEF EntriesIn, StoredFiles, ShelfStep

-----------------------------------------------------------------------------
(* The page *)

PageOK == FilesType /\ KnownInv /\ PageInv

LEMMA StepPage ==
  ASSUME FilesInv, ShelfStep, [Next]_vars
  PROVE  PageOK'
<1> USE DEF FilesInv
<1>1. /\ there' \subseteq Files /\ added' \subseteq Files
      /\ added \subseteq added' /\ removed' \subseteq added'
  BY DEF ShelfStep
<1>2. ASSUME NEW f \in Files, Upload(f) \/ RemovedElsewhere(f) PROVE PageOK'
  <2>1. UNCHANGED <<user, pageVars, payment, misled, strayed>>
    BY <1>2 DEF Upload, RemovedElsewhere
  <2>2. QED
    BY <1>1, <2>1 DEF PageOK, FilesType, KnownInv, PageInv, pageVars
<1>3. CASE EnterPage
  <2>1. list' \subseteq there' /\ list' \subseteq added' /\ there' = there
    BY <1>3, StoredAre, <1>1 DEF EnterPage, Load, shelfVars
  <2>2. QED
    BY <1>1, <1>3, <2>1 DEF EnterPage, PageOK, FilesType, KnownInv, PageInv, shelfVars
<1>4. CASE LeavePage \/ Reload
  <2>1. /\ onPage' = FALSE /\ list' = {} /\ selected' = {} /\ dialog' = NoDialog
        /\ opPending' = FALSE /\ user' = user /\ strayed' \in BOOLEAN /\ misled' \in BOOLEAN
    BY <1>4 DEF LeavePage, Reload, Gone, FilesType
  <2>2. \A s \in Slots : \/ payment'[s] = NoPayment
                         \/ /\ payment[s] # NoPayment
                            /\ payment'[s] = [payment[s] EXCEPT !.here = FALSE]
    BY <1>4 DEF LeavePage, Reload
  <2>3. \A s \in Slots : /\ payment'[s] \in Payments \cup {NoPayment}
                         /\ payment'[s] # NoPayment =>
                              payment'[s].ids \subseteq added /\ ~payment'[s].here
    BY <2>2 DEF FilesType, KnownInv, Payments
  <2>4. payment' \in [Slots -> Payments \cup {NoPayment}]
    <3>1. payment' = [s \in Slots |-> payment'[s]]
      BY <1>4 DEF LeavePage, Reload
    <3>2. QED
      BY <2>3, <3>1
  <2>5. QED
    BY <1>1, <2>1, <2>3, <2>4 DEF PageOK, FilesType, KnownInv, PageInv
<1>5. ASSUME NEW u \in Users \cup {Nobody}, SwitchUser(u) PROVE PageOK'
  <2>1. /\ \/ list' = list
           \/ onPage /\ list' = StoredFiles(u)
        /\ ~onPage => list' = {}
    BY <1>5 DEF SwitchUser, LoadAgain, Load, PageInv
  <2>2. strayed' \in BOOLEAN /\ misled' \in BOOLEAN
    BY <1>5 DEF SwitchUser, FilesType
  <2>3. list' \subseteq Files /\ list' \subseteq added
    BY <2>1, StoredAre DEF FilesType, KnownInv
  <2>4. QED
    BY <1>1, <1>5, <2>1, <2>2, <2>3 DEF SwitchUser, PageOK, FilesType, KnownInv, PageInv
<1>6. ASSUME onPage, Untouched, selected' \subseteq selected \cup list,
             list' \subseteq Files /\ list' \subseteq added',
             dialog' = NoDialog \/ dialog' = dialog, {strayed', misled'} \subseteq BOOLEAN
      PROVE  PageOK'
  BY <1>1, <1>6 DEF Untouched, PageOK, FilesType, KnownInv, PageInv
<1>7. ASSUME NEW f \in Files, ToggleSelect(f) PROVE PageOK'
  BY <1>1, <1>6, <1>7 DEF ToggleSelect, OnList, FilesType, KnownInv
<1>8. CASE ToggleSelectAll \/ ClearSelection
  BY <1>1, <1>6, <1>8 DEF ToggleSelectAll, ClearSelection, OnList, FilesType, KnownInv
<1>9. CASE ExtendCancel
  BY <1>1, <1>6, <1>9 DEF ExtendCancel, FilesType, KnownInv, PageInv
<1>10. CASE DeleteSelected \/ \E f \in Files : DeleteOne(f)
  <2>1. onPage /\ Untouched /\ UNCHANGED dialog
    BY <1>10 DEF DeleteSelected, DeleteOne, OnList
  <2>2. selected' \subseteq selected
    BY <1>10 DEF DeleteSelected, DeleteOne
  <2>3. list' \subseteq Files /\ list' \subseteq added'
    BY <1>10, Listed DEF DeleteSelected, DeleteOne
  <2>4. {strayed', misled'} \subseteq BOOLEAN
    BY <1>10 DEF DeleteSelected, DeleteOne, FilesType
  <2>5. QED
    BY <1>6, <2>1, <2>2, <2>3, <2>4
<1>11. ASSUME NEW ids \in SUBSET Files, ids \subseteq added, NEW cleared \in SUBSET selected,
              Extend(ids, cleared)
       PROVE  PageOK'
  <2>1. onPage /\ Untouched /\ {strayed', misled'} \subseteq BOOLEAN
    BY <1>11 DEF Extend, OnList, FilesType
  <2> DEFINE priced == EntriesToExtend(ids) \cap Hosted
  <2>2. CASE dialog' = [ids |-> ids, priced |-> priced] /\ UNCHANGED <<there, list, selected>>
    <3>1. priced \subseteq ids
      BY DEF EntriesToExtend
    <3>2. QED
      BY <1>1, <1>11, <2>1, <2>2, <3>1 DEF Untouched, PageOK, FilesType, KnownInv, PageInv
  <2>3. CASE selected' = cleared /\ list' = EntriesIn(there', user) /\ UNCHANGED dialog
    BY <1>6, <1>11, <2>1, <2>3, Listed
  <2>4. QED
    BY <1>11, <2>2, <2>3 DEF Extend
<1>12. CASE ExtendSelected \/ \E f \in Files : ExtendOne(f)
  BY <1>11, <1>12 DEF ExtendSelected, ExtendOne, FilesType, KnownInv
<1>13. ASSUME NEW s \in Slots, ExtendConfirm(s) PROVE PageOK'
  <2>1. payment'[s] = [user |-> user, ids |-> dialog.ids, priced |-> dialog.priced,
                       sent |-> FALSE, here |-> TRUE]
    BY <1>13 DEF ExtendConfirm, FilesType
  <2>2. dialog \in [ids : SUBSET Files, priced : SUBSET Files] /\ user \in Users /\ onPage
    BY <1>13 DEF ExtendConfirm, FilesType, PageInv
  <2>3. payment'[s] \in Payments /\ payment'[s].ids \subseteq added
    <3>1. dialog.ids \in SUBSET Files /\ dialog.priced \in SUBSET Files
      BY <2>2
    <3>2. dialog.ids \subseteq added
      BY <1>13 DEF ExtendConfirm, KnownInv
    <3>3. payment'[s].ids = dialog.ids
      BY <2>1
    <3>4. payment'[s] \in Payments
      BY <2>1, <2>2, <3>1 DEF Payments
    <3>5. QED
      BY <3>2, <3>3, <3>4
  <2>4. \A r \in Slots \ {s} : payment'[r] = payment[r]
    BY <1>13 DEF ExtendConfirm, FilesType
  <2>5. payment' \in [Slots -> Payments \cup {NoPayment}]
    BY <1>13, <2>1, <2>3 DEF ExtendConfirm, FilesType
  <2>6. UNCHANGED <<user, shelfVars, pageVars, misled, strayed>>
    BY <1>13 DEF ExtendConfirm
  <2>7. QED
    BY <1>1, <2>2, <2>3, <2>4, <2>5, <2>6
       DEF PageOK, FilesType, KnownInv, PageInv, pageVars, shelfVars
<1>14. ASSUME NEW s \in Slots, TransferSent(s) PROVE PageOK'
  <2>1. payment[s] \in Payments
    BY <1>14 DEF TransferSent, FilesType
  <2>2. /\ payment'[s] = [payment[s] EXCEPT !.sent = TRUE]
        /\ \A r \in Slots \ {s} : payment'[r] = payment[r]
    BY <1>14 DEF TransferSent, FilesType
  <2>3. /\ payment'[s] \in Payments /\ payment'[s].ids = payment[s].ids
        /\ payment'[s].here = payment[s].here
    BY <2>1, <2>2 DEF Payments
  <2>4. payment' \in [Slots -> Payments \cup {NoPayment}]
    BY <1>14, <2>1 DEF TransferSent, FilesType, Payments
  <2>5. opPending' \in BOOLEAN
    BY <1>14, <2>1 DEF TransferSent, FilesType, Payments
  <2>6. UNCHANGED <<user, shelfVars, onPage, list, selected, dialog, misled, strayed>>
    BY <1>14 DEF TransferSent
  <2>7. payment[s] # NoPayment
    BY <1>14 DEF TransferSent
  <2>8. QED
    BY <1>1, <2>2, <2>3, <2>4, <2>5, <2>6, <2>7
       DEF PageOK, FilesType, KnownInv, PageInv, shelfVars
<1>15. ASSUME NEW s \in Slots, PaymentFails(s) \/ PaymentSettled(s) PROVE PageOK'
  <2>1. /\ payment' \in [Slots -> Payments \cup {NoPayment}]
        /\ \A r \in Slots : payment'[r] # NoPayment => payment'[r] = payment[r]
    BY <1>15 DEF PaymentFails, PaymentSettled, FilesType
  <2>2. opPending' \in BOOLEAN /\ UNCHANGED <<user, onPage>>
    BY <1>15 DEF PaymentFails, PaymentSettled, OpDone, FilesType
  <2>3. CASE PaymentFails(s)
    BY <1>1, <2>1, <2>2, <2>3 DEF PaymentFails, PageOK, FilesType, KnownInv, PageInv, shelfVars
  <2>4. CASE PaymentSettled(s)
    <3>1. payment[s] \in Payments /\ payment[s] # NoPayment
      BY <2>4 DEF PaymentSettled, HasSucceeded, FilesType
    <3>2. CASE payment[s].here
      <4>1. /\ onPage /\ dialog' = NoDialog /\ selected' = {}
            /\ list' = EntriesIn(there', payment[s].user)
        BY <2>4, <3>1, <3>2 DEF PaymentSettled, PageInv
      <4>2. list' \subseteq Files /\ list' \subseteq added'
        BY <4>1, Listed
      <4>3. strayed' \in BOOLEAN /\ misled' \in BOOLEAN
        BY <2>4, <3>1 DEF PaymentSettled, FilesType, Payments
      <4>4. QED
        BY <1>1, <2>1, <2>2, <4>1, <4>2, <4>3 DEF PageOK, FilesType, KnownInv, PageInv
    <3>3. CASE ~payment[s].here
      <4>1. UNCHANGED <<dialog, selected, list>>
        BY <2>4, <3>3 DEF PaymentSettled
      <4>2. strayed' \in BOOLEAN /\ misled' \in BOOLEAN
        BY <2>4, <3>1 DEF PaymentSettled, FilesType, Payments
      <4>3. QED
        BY <1>1, <2>1, <2>2, <4>1, <4>2 DEF PageOK, FilesType, KnownInv, PageInv
    <3>4. QED
      BY <3>2, <3>3
  <2>5. QED
    BY <1>15, <2>3, <2>4
<1>16. CASE UNCHANGED vars
  BY <1>1, <1>16 DEF vars, pageVars, PageOK, FilesType, KnownInv, PageInv
<1>17. QED
  BY <1>2, <1>3, <1>4, <1>5, <1>7, <1>8, <1>9, <1>10, <1>12, <1>13, <1>14, <1>15, <1>16 DEF Next

-----------------------------------------------------------------------------
(* What is shown and what it costs *)

(* A price stays right: of what was asked for nothing new is stored. *)
LEMMA PricedKept ==
  ASSUME ShelfStep, NEW u, NEW ids, ids \subseteq added, NEW priced, Priced(u, ids, priced)
  PROVE  /\ priced \subseteq ids \cap Hosted
         /\ \A f \in priced : OwnerOf[f] = u
         /\ ids \cap Hosted \cap StoredFiles(u)' \subseteq priced
BY DEF Priced, StoredFiles, EntriesIn, ShelfStep

LEMMA DialogKept ==
  ASSUME KnownInv, ShelfStep, DialogRight,
         dialog' = NoDialog \/ (dialog' = dialog /\ user' = user)
  PROVE  DialogRight'
<1>1. CASE dialog' = NoDialog
  BY <1>1 DEF DialogRight
<1>2. CASE dialog' = dialog /\ user' = user /\ dialog # NoDialog
  <2>1. Priced(user, dialog.ids, dialog.priced) /\ dialog.ids \subseteq added
    BY <1>2 DEF DialogRight, KnownInv
  <2>2. /\ dialog.priced \subseteq dialog.ids \cap Hosted
        /\ \A f \in dialog.priced : OwnerOf[f] = user
        /\ dialog.ids \cap Hosted \cap {f \in there' : OwnerOf[f] = user} \subseteq dialog.priced
    BY <2>1, PricedKept DEF StoredFiles, EntriesIn
  <2>3. QED
    BY <1>2, <2>2 DEF DialogRight, Priced, StoredFiles, EntriesIn
<1>3. QED
  BY <1>1, <1>2

LEMMA PaymentKept ==
  ASSUME KnownInv, ShelfStep, NEW s \in Slots, PaymentRight(s),
         \/ payment'[s] = NoPayment
         \/ /\ payment[s] # NoPayment
            /\ payment'[s].user = payment[s].user /\ payment'[s].ids = payment[s].ids
            /\ payment'[s].priced = payment[s].priced
  PROVE  PaymentRight(s)'
<1>1. CASE payment'[s] = NoPayment
  BY <1>1 DEF PaymentRight
<1>2. CASE payment'[s] # NoPayment
  <2> DEFINE p == payment[s]
  <2>1. Priced(p.user, p.ids, p.priced) /\ p.ids \subseteq added
    BY <1>2 DEF PaymentRight, KnownInv
  <2>2. /\ p.priced \subseteq p.ids \cap Hosted
        /\ \A f \in p.priced : OwnerOf[f] = p.user
        /\ p.ids \cap Hosted \cap {f \in there' : OwnerOf[f] = p.user} \subseteq p.priced
    BY <2>1, PricedKept DEF StoredFiles, EntriesIn
  <2>3. QED
    BY <1>2, <2>2 DEF PaymentRight, Priced, StoredFiles, EntriesIn
<1>3. QED
  BY <1>1, <1>2

(* No entry that is paid for, or owed months, is stored anew. *)
LEMMA MoneyKept ==
  ASSUME ShelfStep, MoneyRight, UNCHANGED moneyVars
  PROVE  MoneyRight'
BY DEF MoneyRight, ShelfStep, moneyVars

(* The months that are added are those that were paid for. *)
LEMMA MoneyExtended ==
  ASSUME NEW u, NEW ids, NEW priced, Priced(u, ids, priced), ids \subseteq added,
         MoneyRight, ExtendStored(u, priced, ids), UNCHANGED <<added, doubted>>
  PROVE  MoneyRight'
<1>1. there' = there
  BY ExtendKeeps
<1>2. unpaid' = unpaid
  BY DEF Priced, ExtendStored
<1>3. owed' = owed \cup (priced \ (ids \cap StoredFiles(u))) /\ priced \subseteq added
  BY DEF Priced, ExtendStored
<1>4. \A f \in priced : f \in ids /\ (f \in there => f \in StoredFiles(u))
  BY DEF Priced, StoredFiles, EntriesIn
<1>5. QED
  BY <1>1, <1>2, <1>3, <1>4 DEF MoneyRight

(* What is paid in vain is doubted. *)
LEMMA MoneyInVain ==
  ASSUME NEW paid, \A s \in paid : payment[s].priced \subseteq added,
         MoneyRight, PaidInVain(paid), UNCHANGED <<there, added>>
  PROVE  MoneyRight'
BY DEF PaidInVain, MoneyRight

LEMMA ListKept ==
  ASSUME FilesInv, ShelfStep, user' = user,
         \/ /\ list' = list /\ misled' = misled
            /\ selected' \subseteq selected \cup list
         \/ /\ list' = EntriesIn(there', user)
            /\ selected' \subseteq added
  PROVE  ListRight'
<1>1. \A f \in StoredFiles(user)' : OwnerOf[f] = user /\ f \in there' /\ f \in added'
  BY DEF StoredFiles, EntriesIn, ShelfStep
<1>2. \A f \in StoredFiles(user)' \cap added : f \in StoredFiles(user)
  BY <1>1 DEF StoredFiles, EntriesIn, ShelfStep
<1>3. selected \subseteq added /\ ListRight
  BY DEF FilesInv, KnownInv
<1>4. CASE list' = list /\ misled' = misled /\ selected' \subseteq selected \cup list
  BY <1>2, <1>3, <1>4 DEF ListRight
<1>5. CASE list' = EntriesIn(there', user) /\ selected' \subseteq added
  BY <1>5, Listed DEF ListRight
<1>6. QED
  BY <1>4, <1>5

(* The list of the page *)
LEMMA StepListed ==
  ASSUME FilesInv, ShelfStep, [Next]_vars
  PROVE  ListRight'
<1>1. selected \subseteq added /\ list \subseteq added /\ there' \cap added \subseteq there
  BY DEF FilesInv, KnownInv, ShelfStep
<1>2. ASSUME list' = {}, selected' = {} PROVE ListRight'
  BY <1>2 DEF ListRight
<1>3. CASE UNCHANGED <<user, list, selected, misled>>
  BY <1>3, ListKept
<1>4. CASE EnterPage
  <2>1. list' = EntriesIn(there', user) /\ selected' = {} /\ user' = user
    BY <1>4 DEF EnterPage, Load, StoredFiles, shelfVars
  <2>2. QED
    BY <2>1, ListKept
<1>5. CASE LeavePage \/ Reload
  BY <1>2, <1>5 DEF LeavePage, Reload, Gone
<1>6. ASSUME NEW u \in Users \cup {Nobody}, SwitchUser(u) PROVE ListRight'
  <2>1. user' = u /\ there' = there /\ selected' = selected
    BY <1>6 DEF SwitchUser, shelfVars
  <2>2. CASE onPage
    <3>1. list' = StoredFiles(u)
      BY <1>6, <2>2 DEF SwitchUser, LoadAgain, Load
    <3>2. QED
      BY <2>1, <3>1, StoredAre DEF ListRight, StoredFiles, EntriesIn
  <2>3. CASE ~onPage
    BY <1>2, <1>6, <2>1, <2>3 DEF SwitchUser, LoadAgain, FilesInv, PageInv
  <2>4. QED
    BY <2>2, <2>3
<1>7. CASE ToggleSelectAll \/ ClearSelection \/ \E f \in Files : ToggleSelect(f)
  <2>1. user' = user /\ list' = list /\ misled' = misled /\ selected' \subseteq selected \cup list
    BY <1>7 DEF ToggleSelectAll, ClearSelection, ToggleSelect, Untouched
  <2>2. QED
    BY <2>1, ListKept
<1>8. CASE DeleteSelected \/ \E f \in Files : DeleteOne(f)
  <2>1. user' = user /\ list' = EntriesIn(there', user) /\ selected' \subseteq selected
    BY <1>8 DEF DeleteSelected, DeleteOne, Untouched
  <2>2. QED
    BY <1>1, <2>1, ListKept DEF ShelfStep
<1>9. ASSUME NEW ids, NEW cleared \in SUBSET selected, Extend(ids, cleared) PROVE ListRight'
  <2>1. /\ user' = user
        /\ \/ UNCHANGED <<list, selected, misled>>
           \/ list' = EntriesIn(there', user) /\ selected' = cleared
    BY <1>9 DEF Extend, Untouched
  <2>2. QED
    BY <1>1, <2>1, ListKept DEF ShelfStep
<1>10. CASE ExtendSelected \/ \E f \in Files : ExtendOne(f)
  BY <1>9, <1>10 DEF ExtendSelected, ExtendOne
<1>11. ASSUME NEW s \in Slots, PaymentSettled(s) PROVE ListRight'
  <2> DEFINE p == payment[s]
  <2>1. CASE p.here
    <3>1. /\ user' = user /\ selected' = {} /\ list' = EntriesIn(there', p.user)
          /\ misled' = (p.user # user)
      BY <1>11, <2>1 DEF PaymentSettled
    <3>2. QED
      BY <3>1, Listed DEF ListRight
  <2>2. CASE ~p.here
    BY <1>3, <1>11, <2>2 DEF PaymentSettled
  <2>3. QED
    BY <2>1, <2>2
<1>12. CASE ExtendCancel \/ UNCHANGED vars \/ \E f \in Files : Upload(f) \/ RemovedElsewhere(f)
  BY <1>3, <1>12 DEF ExtendCancel, Untouched, Upload, RemovedElsewhere, vars, pageVars
<1>13. CASE \E s \in Slots : ExtendConfirm(s) \/ TransferSent(s) \/ PaymentFails(s)
  BY <1>3, <1>13 DEF ExtendConfirm, TransferSent, PaymentFails, pageVars
<1>14. QED
  BY <1>4, <1>5, <1>6, <1>7, <1>8, <1>10, <1>11, <1>12, <1>13 DEF Next

-----------------------------------------------------------------------------
(* What is asked and paid *)

PricesRight == DialogRight /\ (\A s \in Slots : PaymentRight(s)) /\ MoneyRight

LEMMA StepPriced ==
  ASSUME FilesInv, ShelfStep, [Next]_vars
  PROVE  PriceInv'
<1> SUFFICES ASSUME ~strayed'
             PROVE  PricesRight'
  BY DEF PriceInv, PricesRight
<1>1. ASSUME ~strayed
      PROVE  DialogRight /\ (\A s \in Slots : PaymentRight(s)) /\ MoneyRight /\ KnownInv /\ ListRight
  BY <1>1 DEF FilesInv, PriceInv
<1>2. selected \subseteq added /\ list \subseteq added
  BY DEF FilesInv, KnownInv
<1>3. ASSUME strayed' = strayed, UNCHANGED <<payment, moneyVars>>,
             dialog' = NoDialog \/ (dialog' = dialog /\ user' = user)
      PROVE  PricesRight'
  <2>1. DialogRight /\ (\A s \in Slots : PaymentRight(s)) /\ MoneyRight /\ KnownInv
    BY <1>1, <1>3
  <2>2. \A s \in Slots : PaymentRight(s)'
    BY <1>3, <2>1, PaymentKept
  <2>3. DialogRight'
    BY <1>3, <2>1, DialogKept
  <2>4. MoneyRight'
    BY <1>3, <2>1, MoneyKept
  <2>5. QED
    BY <2>2, <2>3, <2>4 DEF PricesRight
<1>4. CASE EnterPage \/ UNCHANGED vars \/ \E f \in Files : Upload(f) \/ RemovedElsewhere(f)
  BY <1>3, <1>4 DEF EnterPage, Upload, RemovedElsewhere, vars, pageVars
<1>5. ASSUME \A s \in Slots : payment[s] # NoPayment => payment[s].priced \subseteq added,
             UNCHANGED <<there, added>>,
             NEW paid \in SUBSET {s \in Slots : payment[s] # NoPayment}, PaidInVain(paid), ~strayed
      PROVE  MoneyRight'
  BY <1>1, <1>5, MoneyInVain
<1>6. ASSUME ~strayed PROVE \A s \in Slots : payment[s] # NoPayment => payment[s].priced \subseteq added
  BY <1>1, <1>6 DEF PaymentRight, Priced, KnownInv
<1>7. CASE LeavePage
  <2>1. ~strayed /\ UNCHANGED moneyVars /\ dialog' = NoDialog
    BY <1>7 DEF LeavePage, Gone
  <2>2. \A s \in Slots :
          \/ payment'[s] = NoPayment
          \/ payment[s] # NoPayment /\ payment'[s] = [payment[s] EXCEPT !.here = FALSE]
    BY <1>7 DEF LeavePage
  <2>3. ASSUME NEW s \in Slots PROVE PaymentRight(s)'
    <3>1. payment[s] \in Payments \cup {NoPayment}
      BY DEF FilesInv, FilesType
    <3>2. \/ payment'[s] = NoPayment
          \/ /\ payment[s] # NoPayment
             /\ payment'[s].user = payment[s].user /\ payment'[s].ids = payment[s].ids
             /\ payment'[s].priced = payment[s].priced
      BY <2>2, <3>1 DEF Payments
    <3>3. QED
      BY <1>1, <2>1, <3>2, PaymentKept
  <2>4. QED
    BY <1>1, <2>1, <2>3, DialogKept, MoneyKept DEF PricesRight
<1>8. CASE Reload
  <2>1. ~strayed /\ dialog' = NoDialog /\ UNCHANGED <<there, added>>
        /\ \A s \in Slots : payment'[s] = NoPayment
    BY <1>8 DEF Reload, Gone, shelfVars
  <2>2. MoneyRight'
    BY <1>5, <1>6, <1>8, <2>1 DEF Reload
  <2>3. QED
    BY <2>1, <2>2 DEF PricesRight, DialogRight, PaymentRight
<1>9. ASSUME NEW u \in Users \cup {Nobody}, SwitchUser(u) PROVE PricesRight'
  <2>1. ~strayed /\ dialog = NoDialog /\ UNCHANGED <<shelfVars, dialog, payment, moneyVars>>
    BY <1>9 DEF SwitchUser
  <2>2. \A s \in Slots : PaymentRight(s)'
    BY <1>1, <2>1, PaymentKept DEF shelfVars
  <2>3. MoneyRight'
    BY <1>1, <2>1, MoneyKept DEF shelfVars
  <2>4. DialogRight'
    BY <2>1 DEF DialogRight
  <2>5. QED
    BY <2>2, <2>3, <2>4 DEF PricesRight
<1>10. CASE \/ ToggleSelectAll \/ ClearSelection \/ ExtendCancel \/ DeleteSelected
            \/ \E f \in Files : ToggleSelect(f) \/ DeleteOne(f)
  BY <1>3, <1>10 DEF ToggleSelectAll, ClearSelection, ExtendCancel, DeleteSelected, ToggleSelect,
                     DeleteOne, Untouched
<1>11. ASSUME NEW ids, ids \subseteq added, ids \cap StoredFiles(user) \subseteq list,
              NEW cleared, Extend(ids, cleared)
       PROVE  PricesRight'
  <2>0. strayed' = (strayed \/ misled) \/ UNCHANGED strayed
    BY <1>11 DEF Extend
  <2>1a. ~strayed
    BY <2>0
  <2>1b. UNCHANGED <<payment, user, added, doubted>>
    BY <1>11 DEF Extend, Untouched
  <2>1. ~strayed /\ UNCHANGED <<payment, user, added, doubted>>
    BY <2>1a, <2>1b
  <2> DEFINE priced == EntriesToExtend(ids) \cap Hosted
  <2>2. \A s \in Slots : PaymentRight(s)'
    BY <1>1, <2>1, PaymentKept
  <2>3. CASE /\ dialog' = [ids |-> ids, priced |-> priced] /\ strayed' = (strayed \/ misled)
             /\ UNCHANGED <<there, unpaid, owed>>
    <3>1. Priced(user, ids, priced)
      BY <1>1, <1>11, <2>1, <2>3 DEF Priced, EntriesToExtend, ListRight
    <3>2. dialog'.ids = ids /\ dialog'.priced = priced
      BY <2>3
    <3> HIDE DEF priced
    <3>3. Priced(user', dialog'.ids, dialog'.priced)
      BY <2>1, <3>1, <3>2
    <3>4. DialogRight'
      BY <2>3, <3>3 DEF DialogRight, Priced, StoredFiles, EntriesIn
    <3>5. MoneyRight'
      BY <1>1, <2>1, <2>3, MoneyKept DEF moneyVars
    <3>6. QED
      BY <2>2, <3>4, <3>5 DEF PricesRight
  <2>4. CASE /\ priced = {} /\ UNCHANGED dialog
             /\ UNCHANGED <<unpaid, owed>> \/ ExtendStored(user, {}, ids)
    <3>1. Priced(user, ids, {})
      BY <1>11, <2>4 DEF Priced, EntriesToExtend
    <3>2. MoneyRight'
      BY <1>1, <1>11, <2>1, <2>4, <3>1, MoneyKept, MoneyExtended DEF moneyVars
    <3>3. QED
      BY <1>1, <2>1, <2>2, <2>4, <3>2, DialogKept DEF PricesRight
  <2>5. QED
    BY <1>11, <2>3, <2>4 DEF Extend
<1>12. CASE ExtendSelected \/ \E f \in Files : ExtendOne(f)
  <2>1. selected \cap StoredFiles(user) \subseteq list
    BY DEF FilesInv, ListRight
  <2>2. QED
    BY <1>2, <1>11, <1>12, <2>1 DEF ExtendSelected, ExtendOne
<1>13. ASSUME NEW s \in Slots, ExtendConfirm(s) PROVE PricesRight'
  <2>1. ~strayed /\ UNCHANGED <<user, shelfVars, pageVars, moneyVars>> /\ dialog # NoDialog
    BY <1>13 DEF ExtendConfirm
  <2>2. /\ payment'[s] = [user |-> user, ids |-> dialog.ids, priced |-> dialog.priced,
                           sent |-> FALSE, here |-> TRUE]
        /\ \A r \in Slots \ {s} : payment'[r] = payment[r]
    BY <1>13 DEF ExtendConfirm, FilesInv, FilesType
  <2>3. /\ payment'[s].user = user /\ payment'[s].ids = dialog.ids
        /\ payment'[s].priced = dialog.priced
    BY <2>2
  <2>4. Priced(user, dialog.ids, dialog.priced)
    BY <1>1, <2>1 DEF DialogRight
  <2>5. PaymentRight(s)'
    BY <2>1, <2>3, <2>4 DEF PaymentRight, Priced, StoredFiles, EntriesIn, shelfVars
  <2>6. \A r \in Slots \ {s} : PaymentRight(r)'
    BY <1>1, <2>1, <2>2, PaymentKept
  <2>7. DialogRight' /\ MoneyRight'
    BY <1>1, <2>1, MoneyKept DEF DialogRight, Priced, StoredFiles, EntriesIn, shelfVars, pageVars
  <2>8. QED
    BY <2>5, <2>6, <2>7 DEF PricesRight
<1>14. ASSUME NEW s \in Slots, TransferSent(s) \/ PaymentFails(s) PROVE PricesRight'
  <2>1. ~strayed /\ UNCHANGED <<user, shelfVars, dialog>>
    BY <1>14 DEF TransferSent, PaymentFails
  <2>2. ASSUME NEW r \in Slots PROVE PaymentRight(r)'
    <3>1. payment[r] \in Payments \cup {NoPayment}
      BY DEF FilesInv, FilesType
    <3>2. \/ payment'[r] = NoPayment \/ payment'[r] = payment[r]
          \/ payment[r] # NoPayment /\ payment'[r] = [payment[r] EXCEPT !.sent = TRUE]
      BY <1>14 DEF TransferSent, PaymentFails, FilesInv, FilesType
    <3>3. \/ payment'[r] = NoPayment
          \/ /\ payment[r] # NoPayment
             /\ payment'[r].user = payment[r].user /\ payment'[r].ids = payment[r].ids
             /\ payment'[r].priced = payment[r].priced
      BY <3>1, <3>2 DEF Payments
    <3>4. QED
      BY <1>1, <2>1, <3>3, PaymentKept
  <2>3. DialogRight'
    BY <1>1, <2>1 DEF DialogRight, Priced, StoredFiles, EntriesIn, shelfVars
  <2>4. MoneyRight'
    <3>1. CASE TransferSent(s)
      BY <1>1, <2>1, <3>1, MoneyKept DEF TransferSent
    <3>2. CASE PaymentFails(s)
      <4>1. PICK paid \in SUBSET {s} : PaidInVain(paid) /\ payment[s] # NoPayment
        BY <3>2 DEF PaymentFails
      <4>2. paid \in SUBSET {r \in Slots : payment[r] # NoPayment}
        BY <4>1
      <4>3. QED
        BY <1>5, <1>6, <2>1, <4>1, <4>2 DEF shelfVars
    <3>3. QED
      BY <1>14, <3>1, <3>2
  <2>5. QED
    BY <2>2, <2>3, <2>4 DEF PricesRight
<1>15. ASSUME NEW s \in Slots, PaymentSettled(s) PROVE PricesRight'
  <2> DEFINE p == payment[s]
  <2>1. /\ p # NoPayment /\ p.sent /\ ExtendStored(p.user, p.priced, p.ids)
        /\ ~strayed /\ UNCHANGED <<user, added, doubted>>
    BY <1>15 DEF PaymentSettled, HasSucceeded, IdsOf
  <2>2. Priced(p.user, p.ids, p.priced) /\ p.ids \subseteq added
    BY <1>1, <2>1 DEF PaymentRight, KnownInv
  <2>3. MoneyRight'
    BY <1>1, <2>1, <2>2, MoneyExtended
  <2>4. \A r \in Slots : payment'[r] = NoPayment \/ payment'[r] = payment[r]
    BY <1>15 DEF PaymentSettled, FilesInv, FilesType
  <2>5. \A r \in Slots : PaymentRight(r)'
    BY <1>1, <2>1, <2>4, PaymentKept
  <2>6. dialog' \in {dialog, NoDialog}
    BY <1>15 DEF PaymentSettled
  <2>7. DialogRight'
    BY <1>1, <2>1, <2>6, DialogKept
  <2>8. QED
    BY <2>3, <2>5, <2>7 DEF PricesRight
<1>16. QED
  BY <1>4, <1>7, <1>8, <1>9, <1>10, <1>12, <1>13, <1>14, <1>15 DEF Next

-----------------------------------------------------------------------------
LEMMA FilesInvHolds == Spec => []FilesInv
<1>1. FilesInv /\ [Next]_vars => FilesInv'
  <2>1. ASSUME FilesInv, [Next]_vars PROVE FilesInv'
    <3>1. ShelfStep
      BY <2>1, StepShelf
    <3>2. PageOK' /\ ListRight' /\ PriceInv'
      BY <2>1, <3>1, StepPage, StepListed, StepPriced
    <3>3. NothingLostNorRevived'
      BY <3>1 DEF ShelfStep, NothingLostNorRevived
    <3>4. QED
      BY <3>2, <3>3 DEF FilesInv, PageOK
  <2>2. QED
    BY <2>1
<1>2. QED
  BY InitFiles, <1>1, PTL DEF Spec

(* THEOREM: an entry is stored until it is removed, and then stays away,   *)
(* though lists are changed from several tabs and by payments that last    *)
(* (addStoredFiles, extendStoredFiles, removeStoredFiles).                 *)
THEOREM NothingLostNorRevivedCorrect == Spec => []NothingLostNorRevived
<1>1. FilesInv => NothingLostNorRevived
  BY DEF FilesInv
<1>2. QED
  BY FilesInvHolds, <1>1, PTL

(* THEOREM: no month is added that was not paid for, whatever fails and    *)
(* however many dialogs are confirmed, unless the session changed under    *)
(* one (entriesToExtend, extendStoredFiles).                               *)
THEOREM MonthsArePaidCorrect == Spec => []MonthsArePaid
<1>1. FilesInv => MonthsArePaid
  BY DEF FilesInv, PriceInv, MoneyRight, MonthsArePaid
<1>2. QED
  BY FilesInvHolds, <1>1, PTL

(* THEOREM: whoever paid, was shown no error and did not reload has his    *)
(* months, for any number of payments under way at once, unless a dialog   *)
(* asked one account about another's list (handleExtendConfirm).           *)
THEOREM PaidIsExtendedCorrect == Spec => []PaidIsExtended
<1>1. FilesInv => PaidIsExtended
  BY DEF FilesInv, PriceInv, MoneyRight, PaidIsExtended
<1>2. QED
  BY FilesInvHolds, <1>1, PTL

(* THEOREM: the page shows an account its own entries, until a payment of  *)
(* another account settles on it and as long as that list is shown; it     *)
(* asks and pays for its own, unless a dialog was opened on such a list or *)
(* outlived its session (load, entriesToExtend).                           *)
THEOREM OwnFilesOnlyCorrect == Spec => []OwnFilesOnly
<1>1. FilesInv => OwnFilesOnly
  BY DEF FilesInv, ListRight, PriceInv, PaymentRight, Priced, OwnFilesOnly
<1>2. QED
  BY FilesInvHolds, <1>1, PTL
=============================================================================
