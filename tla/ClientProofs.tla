----------------------------- MODULE ClientProofs -----------------------------
(***************************************************************************)
(* A list of providers names nobody twice, however many providers come and *)
(* go between the calls it is made of.  The reason is that an entry of the *)
(* dense list only ever moves to a LOWER position: what the walk has       *)
(* passed never shows up again in front of it.                             *)
(*                                                                         *)
(* The page shows only providers it saw active, and a script forgets none. *)
(* The page misses at most one provider for each that left while it walked *)
(* the dense list: a departure takes one entry past the reader, no more.   *)
(* Of those it lists it chooses the right ones.                            *)
(*                                                                         *)
(* An upload leaves the page, the servers and the contract agreed: who is  *)
(* listed for a file has it, what is charged was stored, and who stores    *)
(* has a booking, whatever is lost, late, repeated or stopped.             *)
(***************************************************************************)
EXTENDS ProviderListing, UploadPipeline, StorageRegistryProofs

Steps == {"idle", "index", "counting", "walking", "visiting", "describing", "done", "failed"}

(* Before the first visit nothing is listed, and before the walk nothing   *)
(* is known.                                                               *)
Progress ==
  /\ step \in Steps
  /\ at \in Nat /\ next \in Nat \ {0}
  /\ step \in {"index", "counting", "walking"} => rows = <<>> /\ next = 1
  /\ step \in {"index", "counting"} => todo = <<>>
  /\ step = "describing" => next \in DOMAIN todo

(* The addresses to visit are distinct and have a record, so that none of  *)
(* them registers again; the walk has passed all of them.                  *)
TodoDistinct ==
  /\ todo \in Seq(Providers)
  /\ \A i \in DOMAIN todo : todo[i] \in Registered
  /\ \A i, j \in DOMAIN todo : todo[i] = todo[j] => i = j
  /\ step = "walking" =>
       \A i \in DOMAIN todo, s \in Slots : nodeAt[s] = todo[i] => s < at

(* What is listed was visited. *)
RowsVisited ==
  /\ rows \in Seq([address : Providers, gb : U64, meta : Metadata \cup {NoMetadata}])
  /\ gb \in U64
  /\ \A i \in DOMAIN rows : \E k \in DOMAIN todo : k < next /\ todo[k] = rows[i].address

ListingInv == Progress /\ TodoDistinct /\ RowsVisited /\ ListedOnce

-----------------------------------------------------------------------------
(* The contract moves under the reader *)

(* An entry of the dense list stays, or the last one takes a lower place.  *)
LEMMA EntriesMoveDown ==
  ASSUME TypeOK, NodeListExact, NEW caller \in Providers, UnregisterStorageNode(caller)
  PROVE  /\ totalNodes - 1 \in Slots
         /\ \A s \in Slots' :
              /\ s \in Slots /\ s < totalNodes - 1
              /\ nodeAt'[s] \in {nodeAt[s], nodeAt[totalNodes - 1]}
<1>1. PICK s \in Slots : nodeAt[s] = caller
  BY UnregisterShrinks DEF NodeListExact
<1>2. totalNodes \in U64 /\ 1 <= totalNodes
  BY <1>1 DEF TypeOK, Slots, U64
<1>3. /\ Minus(totalNodes, 1) = totalNodes - 1 /\ totalNodes' = totalNodes - 1
      /\ totalNodes - 1 \in Slots
  BY <1>2, MinusExact, ModAssumption DEF UnregisterStorageNode, RemoveFromList, Slots, U64
<1>4. \A i \in Slots' : i \in Slots /\ i < totalNodes - 1
  BY <1>2, <1>3 DEF Slots, U64
<1>5. AddressAt(totalNodes - 1) = nodeAt[totalNodes - 1]
  BY <1>2 DEF AddressAt, U64
<1>6. QED
  BY <1>3, <1>4, <1>5 DEF UnregisterStorageNode, RemoveFromList, Slots

LEMMA ContractKeepsTodo ==
  ASSUME TypeOK, NodeListExact, TodoDistinct, at \in Nat, [Next]_vars, UNCHANGED scanVars
  PROVE  TodoDistinct'
<1> USE DEF scanVars
<1>1. ASSUME NEW caller \in Providers, NEW size \in Allocations,
             NEW meta \in Metadata \cup {NoMetadata},
             RegisterStorageNode(caller, size, meta)
      PROVE  TodoDistinct'
  <2>1. Registered' = Registered \cup {caller} /\ caller \notin Registered
    BY <1>1, RegisterGrows
  <2>2. \A s \in Slots' : (s \in Slots /\ nodeAt'[s] = nodeAt[s]) \/ nodeAt'[s] = caller
    <3>0. totalNodes \in U64 /\ totalNodes' = Plus(totalNodes, 1)
      BY <1>1 DEF TypeOK, RegisterStorageNode
    <3>1. totalNodes' \in {totalNodes + 1, 0}
      BY <3>0, ModAssumption DEF Plus, U64
    <3>2. \A s \in Slots' : s \in Slots \/ s = totalNodes
      BY <3>0, <3>1, ModAssumption DEF Slots, U64
    <3>3. nodeAt' = [nodeAt EXCEPT ![totalNodes] = caller] /\ DOMAIN nodeAt = U64
      BY <1>1 DEF TypeOK, RegisterStorageNode
    <3>4. QED
      BY <3>0, <3>2, <3>3 DEF Slots
  <2>3. QED
    BY <2>1, <2>2 DEF TodoDistinct
<1>2. ASSUME NEW caller \in Providers, UnregisterStorageNode(caller)
      PROVE  TodoDistinct'
  <2>1. Registered' = Registered
    BY <1>2, UnregisterShrinks
  <2>2. ASSUME step = "walking", NEW i \in DOMAIN todo, NEW s \in Slots', nodeAt'[s] = todo[i]
        PROVE  s < at
    <3>1. CASE nodeAt'[s] = nodeAt[s]
      BY <1>2, <2>2, <3>1, EntriesMoveDown DEF TodoDistinct
    <3>2. CASE nodeAt'[s] = nodeAt[totalNodes - 1]
      <4>1. totalNodes - 1 \in Slots /\ totalNodes - 1 < at
        BY <1>2, <2>2, <3>2, EntriesMoveDown DEF TodoDistinct
      <4>2. s < totalNodes - 1 /\ s \in Nat
        BY <1>2, EntriesMoveDown, ModAssumption DEF Slots, U64
      <4>3. totalNodes \in Nat
        BY ModAssumption DEF TypeOK, U64
      <4>4. PICK k \in DOMAIN todo : nodeAt[totalNodes - 1] = todo[k]
        BY <2>2, <3>2
      <4>5. QED
        BY <4>1, <4>2, <4>3
    <3>3. QED
      BY <1>2, <3>1, <3>2, EntriesMoveDown
  <2>3. QED
    BY <2>1, <2>2 DEF TodoDistinct
<1>3. CASE Registered' = Registered /\ Active' = Active /\ UNCHANGED listVars
  BY <1>3 DEF TodoDistinct, Slots, listVars
<1>4. QED
  BY <1>1, <1>2, <1>3, ListFrame

-----------------------------------------------------------------------------
(* The reader's own steps *)

LEMMA ReadIndexKeeps ==
  ASSUME TypeOK, NodeIndexExact, ListingInv, ReadIndex
  PROVE  ListingInv'
<1>1. todo' \in {nodeIndex, <<>>} /\ rows' = <<>> /\ next' = 1 /\ at' = at
  BY DEF ReadIndex, ListingInv, Progress
<1>2. step' \in {"visiting", "counting", "done"} /\ (step' = "counting" => todo' = <<>>)
  BY DEF ReadIndex, StepAfterIndex
<1>3. /\ todo' \in Seq(Providers)
      /\ Registered' = Registered
  <2>1. nodeIndex \in Seq(Providers) /\ <<>> \in Seq(Providers)
    BY DEF TypeOK
  <2>2. node' = node
    BY DEF ReadIndex, vars
  <2>3. QED
    BY <1>1, <2>1, <2>2 DEF Registered
<1>4. \A i \in DOMAIN todo' : todo'[i] \in Registered
  BY <1>1 DEF NodeIndexExact
<1>5. \A i, j \in DOMAIN todo' : todo'[i] = todo'[j] => i = j
  BY <1>1 DEF NodeIndexExact
<1>6. TodoDistinct'
  BY <1>2, <1>3, <1>4, <1>5 DEF TodoDistinct
<1>7. Progress'
  BY <1>1, <1>2 DEF ListingInv, Progress, Steps
<1>8. gb' = gb /\ rows' = <<>> /\ DOMAIN rows' = {}
  BY <1>1 DEF ReadIndex
<1>9. RowsVisited' /\ ListedOnce'
  BY <1>8 DEF ListingInv, RowsVisited, ListedOnce
<1>10. QED
  BY <1>6, <1>7, <1>9 DEF ListingInv

LEMMA WalkKeeps ==
  ASSUME TypeOK, NodeListExact, ListingInv, Walk
  PROVE  ListingInv'
<1>1. /\ step = "walking" /\ step' = step /\ at' = at + 1 /\ at \in Nat
      /\ rows = <<>> /\ rows' = <<>> /\ next' = next /\ next = 1 /\ gb' = gb
      /\ UNCHANGED <<node, nodeAt, totalNodes>>
  BY DEF Walk, ListingInv, Progress, vars, listVars
<1>2. Registered' = Registered /\ Slots' = Slots
  BY <1>1 DEF Registered, Slots
<1>3. CASE todo' = todo
  <2>1. \A i \in DOMAIN todo, s \in Slots : nodeAt[s] = todo[i] => s < at + 1
    BY <1>1, ModAssumption DEF ListingInv, TodoDistinct, Slots, U64
  <2>2. QED
    BY <1>1, <1>2, <1>3, <2>1 DEF ListingInv, Progress, TodoDistinct, RowsVisited, ListedOnce
<1>4. CASE AddressAt(at) # NoAddr /\ todo' = Append(todo, AddressAt(at))
  <2>1. at \in Slots /\ AddressAt(at) = nodeAt[at]
    BY <1>1, <1>4, ModAssumption DEF AddressAt, Slots, TypeOK, U64
  <2>2. nodeAt[at] \in Registered /\ nodeAt[at] \in Providers
    BY <2>1 DEF NodeListExact, Active, Registered
  <2>3. \A s \in Slots : nodeAt[s] = nodeAt[at] => s = at
    BY <2>1 DEF NodeListExact
  <2>4. todo \in Seq(Providers) /\ \A i \in DOMAIN todo : todo[i] # nodeAt[at]
    BY <1>1, <2>1 DEF ListingInv, TodoDistinct
  <2>5. /\ todo' \in Seq(Providers) /\ DOMAIN todo' = DOMAIN todo \cup {Len(todo) + 1}
        /\ todo'[Len(todo) + 1] = nodeAt[at]
        /\ \A i \in DOMAIN todo : todo'[i] = todo[i]
    BY <1>4, <2>1, <2>2, <2>4
  <2>6. \A i, j \in DOMAIN todo' : todo'[i] = todo'[j] => i = j
    BY <2>4, <2>5 DEF ListingInv, TodoDistinct
  <2>7. \A i \in DOMAIN todo', s \in Slots : nodeAt[s] = todo'[i] => s < at + 1
    BY <1>1, <2>3, <2>5, ModAssumption DEF ListingInv, TodoDistinct, Slots, U64
  <2>8. QED
    BY <1>1, <1>2, <2>2, <2>5, <2>6, <2>7
    DEF ListingInv, Progress, TodoDistinct, RowsVisited, ListedOnce
<1>5. QED
  BY <1>3, <1>4 DEF Walk, WalkPosition

LEMMA VisitKeeps ==
  ASSUME TypeOK, ListingInv, Visit
  PROVE  ListingInv'
<1>1. /\ step = "visiting" /\ next \in DOMAIN todo /\ next \in Nat
      /\ todo' = todo /\ rows' = rows /\ at' = at
      /\ Registered' = Registered
  BY DEF Visit, ListingInv, Progress, TodoDistinct, vars, Registered
<1>2. \/ step' = "describing" /\ next' = next
      \/ step' = "visiting" /\ next' = next + 1
  BY <1>1 DEF Visit
<1>3. gb' \in U64
  <2>1. todo[next] \in Providers
    BY <1>1 DEF ListingInv, TodoDistinct
  <2>2. \A record \in {node[todo[next]], NoNode} : Size(record) \in U64
    BY <2>1, StepType DEF TypeOK, NodeRecord, Size
  <2>3. QED
    BY <2>2 DEF Visit, ListingInv, RowsVisited
<1>4. RowsVisited'
  <2>1. \A k \in DOMAIN todo : k < next => k < next'
    BY <1>1, <1>2 DEF ListingInv, TodoDistinct
  <2>2. QED
    BY <1>1, <1>3, <2>1 DEF ListingInv, RowsVisited
<1>5. Progress'
  BY <1>1, <1>2 DEF ListingInv, Progress, Steps
<1>6. TodoDistinct' /\ ListedOnce'
  BY <1>1, <1>2 DEF ListingInv, TodoDistinct, ListedOnce
<1>7. QED
  BY <1>4, <1>5, <1>6 DEF ListingInv

LEMMA DescribeKeeps ==
  ASSUME TypeOK, ListingInv, Describe
  PROVE  ListingInv'
<1>1. /\ step = "describing" /\ next \in DOMAIN todo /\ next \in Nat
      /\ step' = "visiting" /\ next' = next + 1 /\ todo' = todo /\ at' = at /\ gb' = 0
      /\ Registered' = Registered
  BY DEF Describe, ListingInv, Progress, vars, Registered
<1>2. PICK meta \in {metadata[todo[next]], NoMetadata} :
        rows' = Append(rows, [address |-> todo[next], gb |-> gb, meta |-> meta])
  BY DEF Describe
<1>3. todo[next] \in Providers /\ meta \in Metadata \cup {NoMetadata} /\ gb \in U64
  BY <1>1 DEF ListingInv, TodoDistinct, RowsVisited, TypeOK
<1>4. \A i \in DOMAIN rows : rows[i].address # todo[next]
  BY <1>1 DEF ListingInv, TodoDistinct, RowsVisited
<1>5. /\ rows' \in Seq([address : Providers, gb : U64, meta : Metadata \cup {NoMetadata}])
      /\ DOMAIN rows' = DOMAIN rows \cup {Len(rows) + 1}
      /\ rows'[Len(rows) + 1] = [address |-> todo[next], gb |-> gb, meta |-> meta]
      /\ \A i \in DOMAIN rows : rows'[i] = rows[i]
  BY <1>2, <1>3 DEF ListingInv, RowsVisited
<1>6. ListedOnce'
  BY <1>4, <1>5 DEF ListingInv, ListedOnce
<1>7. RowsVisited'
  <2>1. ASSUME NEW i \in DOMAIN rows'
        PROVE  \E k \in DOMAIN todo : k < next + 1 /\ todo[k] = rows'[i].address
    <3>1. CASE i \in DOMAIN rows
      <4>1. PICK k \in DOMAIN todo : k < next /\ todo[k] = rows[i].address
        BY <3>1 DEF ListingInv, RowsVisited
      <4>2. k < next + 1
        BY <1>1, <4>1 DEF ListingInv, TodoDistinct
      <4>3. QED
        BY <1>5, <3>1, <4>1, <4>2
    <3>2. CASE i = Len(rows) + 1
      BY <1>1, <1>5, <3>2
    <3>3. QED
      BY <1>5, <2>1, <3>1, <3>2
  <2>2. QED
    BY <1>1, <1>5, <2>1, StepType DEF RowsVisited
<1>8. QED
  BY <1>1, <1>6, <1>7 DEF ListingInv, Progress, Steps, TodoDistinct

(* The remaining steps read nothing, or start anew. *)
LEMMA QuietStepsKeep ==
  ASSUME TypeOK, ListingInv,
         \/ \E who \in Readers : Open(who)
         \/ Close \/ ReadTotal \/ WalkEnds \/ Finish \/ Reject
  PROVE  ListingInv'
<1>1. ASSUME Cleared, step' \in {"idle", "index", "failed"}, UNCHANGED vars
      PROVE  ListingInv'
  BY <1>1, StepType
  DEF Cleared, ListingInv, Progress, Steps, TodoDistinct, RowsVisited, ListedOnce
<1>2. ASSUME ReadTotal PROVE ListingInv'
  BY <1>2, ModAssumption DEF ReadTotal, ListingInv, Progress, Steps, TodoDistinct, RowsVisited,
     ListedOnce, vars, Registered
<1>3. ASSUME WalkEnds \/ Finish PROVE ListingInv'
  BY <1>3 DEF WalkEnds, Finish, ListingInv, Progress, Steps, TodoDistinct, RowsVisited,
     ListedOnce, vars, Registered
<1>4. QED
  BY <1>1, <1>2, <1>3 DEF Open, Close, Reject

-----------------------------------------------------------------------------
RegistryInv == TypeOK /\ NodeListExact /\ NodeIndexExact

LEMMA StepRegistry == RegistryInv /\ [Next]_vars => RegistryInv'
<1> SUFFICES ASSUME RegistryInv, [Next]_vars PROVE RegistryInv'
  OBVIOUS
<1>1. TypeOK' /\ NodeIndexExact'
  BY NextType, StepIndex DEF RegistryInv
<1>2. NodeListExact'
  <2>1. CASE Registered' = Registered /\ Active' = Active /\ UNCHANGED listVars
    BY <2>1 DEF RegistryInv, NodeListExact, Slots, listVars
  <2>2. QED
    BY <2>1, ListFrame, RegisterKeepsList, UnregisterKeepsList DEF RegistryInv
<1>3. QED
  BY <1>1, <1>2 DEF RegistryInv

(* A step of the listing is a step of the contract, or none. *)
LEMMA ListingStepsContract == [ListingNext]_allVars => [Next]_vars
BY DEF ListingNext, allVars, Open, Close, ReadIndex, ReadTotal, Walk, WalkEnds, Visit, Describe,
   Finish, Reject, ContractStep

LEMMA StepListing ==
  ASSUME RegistryInv, ListingInv, [ListingNext]_allVars
  PROVE  ListingInv'
<1>1. ASSUME UNCHANGED scanVars PROVE ListingInv'
  <2>1. TodoDistinct'
    BY <1>1, ListingStepsContract, ContractKeepsTodo DEF RegistryInv, ListingInv, Progress
  <2>2. QED
    BY <1>1, <2>1 DEF scanVars, ListingInv, Progress, RowsVisited, ListedOnce
<1>2. QED
  BY <1>1, ReadIndexKeeps, WalkKeeps, VisitKeeps, DescribeKeeps, QuietStepsKeep
  DEF RegistryInv, ListingNext, ContractStep, allVars, listingVars

LEMMA InitListing == ListingInit => RegistryInv /\ ListingInv
<1> SUFFICES ASSUME ListingInit PROVE RegistryInv /\ ListingInv
  OBVIOUS
<1>1. RegistryInv
  BY InitType, InitList, InitIndex DEF ListingInit, RegistryInv
<1>2. ListingInv
  BY StepType DEF ListingInit, ListingInv, Progress, Steps, TodoDistinct, RowsVisited, ListedOnce
<1>3. QED
  BY <1>1, <1>2

(* Nobody is listed twice, neither by the page nor by a script, for every  *)
(* number of providers and of calls in between.                            *)
THEOREM ListedOnceCorrect == ListingSpec => []ListedOnce
<1>1. RegistryInv /\ ListingInv /\ [ListingNext]_allVars => RegistryInv' /\ ListingInv'
  BY StepListing, StepRegistry, ListingStepsContract
<1>2. ListingInv => ListedOnce
  BY DEF ListingInv
<1>3. QED
  BY <1>1, <1>2, InitListing, PTL DEF ListingSpec
-----------------------------------------------------------------------------
(* Who is shown, and who is not left out *)

(* The page lists nobody who was not active at a moment of the listing.    *)
Sighted ==
  /\ step = "idle" => rows = <<>>
  /\ step # "idle" => Active \subseteq seen
  /\ reader = "page" =>
       /\ \A i \in DOMAIN rows : rows[i].address \in seen
       /\ step = "describing" => todo[next] \in seen

IsListed(a)   == \E i \in DOMAIN rows : rows[i].address = a
IsWaiting(a)  == \E k \in DOMAIN todo : k >= next /\ todo[k] = a

(* Those a script knew of are listed already or still to be visited.       *)
Remembered ==
  /\ step = "index" => known \subseteq Registered
  /\ reader = "script" =>
       /\ step \notin {"counting", "walking"}
       /\ ~lossy /\ step \in {"visiting", "describing"} =>
            \A a \in known : IsListed(a) \/ IsWaiting(a)
       /\ ~lossy /\ step = "done" => \A a \in known : IsListed(a)

LEMMA ContractShows ==
  ASSUME TypeOK, ListingInv, Sighted, Remembered, ContractStep
  PROVE  Sighted' /\ Remembered'
<1>1. Registered \subseteq Registered'
  BY ListFrame, RegisterGrows, UnregisterShrinks DEF ContractStep
<1>2. /\ UNCHANGED scanVars
      /\ step = "idle" => UNCHANGED historyVars
      /\ step # "idle" => seen' = seen \cup Active' /\ known' = known
  BY DEF ContractStep
<1>3. Sighted'
  BY <1>2 DEF Sighted, scanVars, historyVars
<1>4. Remembered'
  BY <1>1, <1>2 DEF Remembered, IsListed, IsWaiting, scanVars, historyVars
<1>5. QED
  BY <1>3, <1>4

LEMMA ReadIndexShows ==
  ASSUME TypeOK, NodeIndexExact, ListingInv, Sighted, Remembered, ReadIndex
  PROVE  Sighted' /\ Remembered'
<1>1. /\ step = "index" /\ step' = StepAfterIndex(todo')
      /\ rows = <<>> /\ next = 1
      /\ UNCHANGED <<node, reader, next, rows, seen, known>>
      /\ todo' = nodeIndex \/ (todo' = <<>> /\ (reader = "script" => lossy'))
  BY DEF ReadIndex, vars, historyVars, ListingInv, Progress
<1>2. step' \in {"visiting", "counting", "done"} /\ (step' = "counting" => reader # "script")
  BY <1>1 DEF StepAfterIndex
<1>3. Sighted'
  BY <1>1, <1>2 DEF Sighted, Active, Registered
<1>4. ASSUME reader = "script", ~lossy', NEW a \in known PROVE IsWaiting(a)' /\ step' = "visiting"
  <2>1. todo' = nodeIndex
    BY <1>1, <1>4
  <2>2. PICK k \in DOMAIN nodeIndex : nodeIndex[k] = a
    BY <1>1, <1>4 DEF Remembered, NodeIndexExact
  <2>3. k \in Nat /\ k >= 1 /\ nodeIndex # <<>>
    BY <2>2 DEF TypeOK
  <2>4. QED
    BY <1>1, <2>1, <2>2, <2>3 DEF IsWaiting, StepAfterIndex
<1>5. Remembered'
  BY <1>1, <1>2, <1>4 DEF Remembered
<1>6. QED
  BY <1>3, <1>5

LEMMA VisitShows ==
  ASSUME TypeOK, ListingInv, Sighted, Remembered, Visit
  PROVE  Sighted' /\ Remembered'
<1>1. /\ step = "visiting" /\ next \in DOMAIN todo
      /\ UNCHANGED <<node, reader, todo, rows, seen, known>>
  BY DEF Visit, ListingInv, Progress, TodoDistinct, vars, historyVars
<1>2. PICK record \in {node[todo[next]], NoNode} :
        /\ IF Keeps(record) THEN step' = "describing" /\ next' = next
           ELSE next' = next + 1 /\ step' = step
        /\ lossy => lossy'
  BY DEF Visit, ListingInv, Progress
<1>3. reader = "page" /\ Keeps(record) => todo[next] \in Active
  BY <1>1, <1>2 DEF Keeps, Active, Registered, ListingInv, TodoDistinct
<1>4. Sighted'
  BY <1>1, <1>2, <1>3 DEF Sighted, Active, Registered
<1>5. reader = "script" => step' = "describing" /\ next' = next /\ (lossy => lossy')
  BY <1>2 DEF Keeps
<1>6. Remembered'
  BY <1>1, <1>2, <1>5 DEF Remembered, IsListed, IsWaiting
<1>7. QED
  BY <1>4, <1>6

LEMMA DescribeShows ==
  ASSUME TypeOK, ListingInv, Sighted, Remembered, Describe
  PROVE  Sighted' /\ Remembered'
<1>1. /\ step = "describing" /\ step' = "visiting" /\ next \in DOMAIN todo /\ next' = next + 1
      /\ UNCHANGED <<node, reader, todo, lossy, seen, known>>
  BY DEF Describe, ListingInv, Progress, vars, historyVars
<1>2. PICK meta \in {metadata[todo[next]], NoMetadata} :
        rows' = Append(rows, [address |-> todo[next], gb |-> gb, meta |-> meta])
  BY DEF Describe
<1>3. todo[next] \in Providers /\ meta \in Metadata \cup {NoMetadata} /\ gb \in U64
  BY <1>1 DEF ListingInv, TodoDistinct, RowsVisited, TypeOK
<1>4. /\ DOMAIN rows' = DOMAIN rows \cup {Len(rows) + 1}
      /\ rows'[Len(rows) + 1].address = todo[next]
      /\ \A i \in DOMAIN rows : rows'[i] = rows[i]
  BY <1>2, <1>3 DEF ListingInv, RowsVisited
<1>5. Sighted'
  BY <1>1, <1>4 DEF Sighted, Active, Registered
<1>6. ASSUME NEW a \in known, IsListed(a) \/ IsWaiting(a)
      PROVE  IsListed(a)' \/ IsWaiting(a)'
  <2>1. CASE IsListed(a) \/ a = todo[next]
    BY <1>4, <2>1 DEF IsListed
  <2>2. ASSUME NEW k \in DOMAIN todo, k >= next, todo[k] = a, k # next
        PROVE  IsWaiting(a)'
    <3>1. k \in Nat /\ next \in Nat
      BY <1>1 DEF ListingInv, TodoDistinct
    <3>2. k >= next + 1
      BY <2>2, <3>1
    <3>3. QED
      BY <1>1, <2>2, <3>2 DEF IsWaiting
  <2>3. QED
    BY <1>6, <2>1, <2>2 DEF IsWaiting
<1>7. Remembered'
  BY <1>1, <1>6 DEF Remembered
<1>8. QED
  BY <1>5, <1>7

LEMMA QuietStepsShow ==
  ASSUME TypeOK, ListingInv, Sighted, Remembered,
         \/ \E who \in Readers : Open(who)
         \/ Close \/ ReadTotal \/ Walk \/ WalkEnds \/ Finish \/ Reject
  PROVE  Sighted' /\ Remembered'
<1>1. node' = node /\ Registered' = Registered /\ Active' = Active
  BY DEF Open, Close, ReadTotal, Walk, WalkEnds, Finish, Reject, vars, Registered, Active
<1>2. ASSUME NEW who \in Readers, Open(who) PROVE Sighted' /\ Remembered'
  BY <1>1, <1>2 DEF Open, Cleared, Sighted, Remembered
<1>3. CASE Close
  BY <1>1, <1>3 DEF Close, Cleared, Sighted, Remembered
<1>4. CASE ReadTotal \/ Walk \/ WalkEnds
  BY <1>1, <1>4 DEF ReadTotal, Walk, WalkEnds, Sighted, Remembered, historyVars
<1>5. CASE Finish
  <2>1. \A a : ~IsWaiting(a)
    BY <1>5 DEF Finish, IsWaiting, ListingInv, Progress, TodoDistinct
  <2>2. QED
    BY <1>1, <1>5, <2>1 DEF Finish, Sighted, Remembered, IsListed, historyVars
<1>6. CASE Reject
  BY <1>1, <1>6 DEF Reject, Cleared, Sighted, Remembered
<1>7. QED
  BY <1>2, <1>3, <1>4, <1>5, <1>6

ShownInv == RegistryInv /\ ListingInv /\ Sighted /\ Remembered

LEMMA InitShown == ListingInit => ShownInv
BY InitListing DEF ShownInv, ListingInit, Sighted, Remembered

LEMMA StepShown == ShownInv /\ [ListingNext]_allVars => ShownInv'
<1> SUFFICES ASSUME ShownInv, [ListingNext]_allVars PROVE ShownInv'
  OBVIOUS
<1>1. RegistryInv' /\ ListingInv'
  BY StepListing, StepRegistry, ListingStepsContract DEF ShownInv
<1>2. CASE UNCHANGED allVars
  BY <1>1, <1>2 DEF ShownInv, allVars, listingVars, scanVars, historyVars, vars, Sighted,
     Remembered, IsListed, IsWaiting, Active, Registered
<1>3. QED
  BY <1>1, <1>2, ContractShows, ReadIndexShows, VisitShows, DescribeShows, QuietStepsShow
  DEF ShownInv, RegistryInv, ListingNext

(* The page offers nobody who had left before it began to look.            *)
THEOREM NobodyDepartedCorrect == ListingSpec => []NobodyDepartedListed
<1>1. ShownInv => NobodyDepartedListed
  BY DEF ShownInv, Sighted, NobodyDepartedListed, Listed
<1>2. QED
  BY <1>1, InitShown, StepShown, PTL DEF ListingSpec

(* A script whose index was answered prints everybody it could know of.    *)
THEOREM ScriptListsAllCorrect == ListingSpec => []ScriptListsAll
<1>1. ShownInv => ScriptListsAll
  BY DEF ShownInv, Remembered, IsListed, ScriptListsAll, Complete, Listed
<1>2. QED
  BY <1>1, InitShown, StepShown, PTL DEF ListingSpec
-----------------------------------------------------------------------------
(* Whom the page misses *)

IsQueued(a) == \E k \in DOMAIN todo : todo[k] = a

(* Behind the walk, and not noted down by it *)
Passed   == {a \in since : ~IsQueued(a) /\ \A s \in Slots : nodeAt[s] = a => s < at}
Overlooked == {a \in since : ~IsListed(a) /\ ~IsWaiting(a)}

(* Those who are there all the time have a place below the count the walk  *)
(* goes by: who comes later is put behind them, and an entry that moves    *)
(* moves down.  What moves it from in front of the walk to behind it is a  *)
(* departure, and a departure moves one entry.                             *)
Accounted ==
  /\ since \subseteq Active
  /\ step = "idle" => since = {}
  /\ moves \in Nat
  /\ step \in {"index", "counting"} => at = 0
  /\ step = "walking" =>
       total \in Nat /\ \A s \in Slots : nodeAt[s] \in since => s < total
  /\ reader = "page" /\ ~lossy =>
       /\ step = "walking" => Cardinality(Passed) <= moves
       /\ step \in {"visiting", "describing"} => Cardinality(Overlooked) <= moves
       /\ step = "done" => Cardinality(since \ Listed) <= moves

LEMMA FewerAreFew ==
  ASSUME NEW S, NEW T, NEW n \in Int, IsFiniteSet(T), S \subseteq T, Cardinality(T) <= n
  PROVE  Cardinality(S) <= n
BY FS_Subset, FS_CardinalityType

LEMMA SinceFinite ==
  ASSUME Accounted
  PROVE  IsFiniteSet(since) /\ IsFiniteSet(Passed) /\ IsFiniteSet(Overlooked)
BY ActorAssumption, FS_Subset DEF Accounted, Active, Registered, Passed, Overlooked

(* A provider arrives behind everybody who is there. *)
LEMMA ArrivalMisses ==
  ASSUME TypeOK, NodeListExact, NodeListExact', Accounted, at \in Nat, step = "walking",
         NEW caller \in Providers, NEW size \in Allocations,
         NEW meta \in Metadata \cup {NoMetadata},
         RegisterStorageNode(caller, size, meta), UNCHANGED scanVars, since' = since
  PROVE  /\ \A s \in Slots' : nodeAt'[s] \in since' => s < total
         /\ Passed' \subseteq Passed
<1>1. Active' = Active \cup {caller} /\ caller \notin since
  BY RegisterGrows DEF Accounted
<1>2. \A s \in Slots' : (s \in Slots /\ nodeAt'[s] = nodeAt[s]) \/ nodeAt'[s] = caller
  <2>0. totalNodes \in U64 /\ totalNodes' = Plus(totalNodes, 1)
    BY DEF TypeOK, RegisterStorageNode
  <2>1. totalNodes' \in {totalNodes + 1, 0}
    BY <2>0, ModAssumption DEF Plus, U64
  <2>2. \A s \in Slots' : s \in Slots \/ s = totalNodes
    BY <2>0, <2>1, ModAssumption DEF Slots, U64
  <2>3. nodeAt' = [nodeAt EXCEPT ![totalNodes] = caller] /\ DOMAIN nodeAt = U64
    BY DEF TypeOK, RegisterStorageNode
  <2>4. QED
    BY <2>0, <2>2, <2>3 DEF Slots
<1>3. \A s \in Slots' : nodeAt'[s] \in since' => s < total
  BY <1>1, <1>2 DEF Accounted
<1>4. ASSUME NEW a \in Passed', NEW s \in Slots, nodeAt[s] = a PROVE s < at
  <2>1. a \in since /\ a \in Active' /\ at' = at
    BY <1>1, <1>4 DEF Passed, Accounted, scanVars
  <2>2. PICK r \in Slots' : nodeAt'[r] = a
    BY <2>1 DEF NodeListExact
  <2>3. r < at
    BY <1>4, <2>1, <2>2 DEF Passed
  <2>4. r \in Slots /\ nodeAt[r] = a
    BY <1>1, <1>2, <2>1, <2>2
  <2>5. r = s
    BY <1>4, <2>4 DEF NodeListExact
  <2>6. QED
    BY <2>3, <2>5
<1>5. QED
  BY <1>3, <1>4 DEF Passed, IsQueued, scanVars

(* A departure takes one entry, the last, past the walk. *)
LEMMA DepartureMisses ==
  ASSUME TypeOK, NodeListExact, NodeListExact', Accounted, at \in Nat, step = "walking",
         NEW caller \in Providers, UnregisterStorageNode(caller),
         UNCHANGED scanVars, since' = since \cap Active'
  PROVE  /\ \A s \in Slots' : nodeAt'[s] \in since' => s < total
         /\ Passed' \subseteq Passed \cup {nodeAt[totalNodes - 1]}
<1>1. /\ totalNodes - 1 \in Slots
      /\ \A s \in Slots' : /\ s \in Slots /\ s < totalNodes - 1
                           /\ nodeAt'[s] \in {nodeAt[s], nodeAt[totalNodes - 1]}
  BY EntriesMoveDown
<1>2. ASSUME NEW s \in Slots', nodeAt'[s] \in since' PROVE s < total
  <2>1. s \in Nat /\ totalNodes \in Nat /\ total \in Nat
    BY <1>1, ModAssumption DEF TypeOK, Slots, U64, Accounted
  <2>2. s < total \/ totalNodes - 1 < total
    BY <1>1, <1>2 DEF Accounted
  <2>3. QED
    BY <1>1, <2>1, <2>2
<1>3. ASSUME NEW a \in Passed', a # nodeAt[totalNodes - 1],
             NEW s \in Slots, nodeAt[s] = a
      PROVE  s < at
  <2>1. a \in Active' /\ at' = at
    BY <1>3 DEF Passed, scanVars
  <2>2. PICK r \in Slots' : nodeAt'[r] = a
    BY <2>1 DEF NodeListExact
  <2>3. r < at
    BY <1>3, <2>1, <2>2 DEF Passed
  <2>4. r \in Slots /\ nodeAt[r] = a
    BY <1>1, <1>3, <2>2
  <2>5. r = s
    BY <1>3, <2>4 DEF NodeListExact
  <2>6. QED
    BY <2>3, <2>5
<1>4. \A a \in Passed' : a \in since /\ ~IsQueued(a)
  BY DEF Passed, IsQueued, scanVars
<1>5. QED
  BY <1>2, <1>3, <1>4 DEF Passed

LEMMA ContractAccounts ==
  ASSUME RegistryInv, RegistryInv', ListingInv, Accounted, ContractStep
  PROVE  Accounted'
<1>1. /\ UNCHANGED scanVars /\ [Next]_vars
      /\ step = "idle" => UNCHANGED historyVars
      /\ step # "idle" => /\ since' = since \cap Active'
                          /\ moves' = IF step = "walking"
                                      THEN moves + Cardinality(Active \ Active') ELSE moves
  BY DEF ContractStep
<1>2. since' \subseteq since /\ since' \subseteq Active' /\ (step' = "idle" => since' = {})
  BY <1>1 DEF Accounted, scanVars, historyVars
<1>3. IsFiniteSet(Active \ Active') /\ moves' \in Nat /\ moves' >= moves
  <2>1. IsFiniteSet(Active \ Active')
    BY ActorAssumption, FS_Subset DEF Active, Registered
  <2>2. QED
    BY <1>1, <2>1, FS_CardinalityType DEF Accounted, historyVars
<1>4. ASSUME step \in {"visiting", "describing"}, reader = "page", ~lossy
      PROVE  Cardinality(Overlooked') <= moves'
  <2>1. Overlooked' \subseteq Overlooked
    BY <1>1, <1>2 DEF Overlooked, IsListed, IsWaiting, scanVars
  <2>2. Cardinality(Overlooked) <= moves' /\ moves' \in Int
    BY <1>3, <1>4, SinceFinite, FS_CardinalityType DEF Accounted
  <2>3. QED
    BY <2>1, <2>2, SinceFinite, FewerAreFew
<1>5. ASSUME step = "done", reader = "page", ~lossy
      PROVE  Cardinality((since \ Listed)') <= moves'
  <2>1. (since \ Listed)' \subseteq since \ Listed
    BY <1>1, <1>2 DEF Listed, scanVars
  <2>2. IsFiniteSet(since \ Listed)
    BY SinceFinite, FS_Subset
  <2>3. Cardinality(since \ Listed) <= moves' /\ moves' \in Int
    BY <1>3, <1>5, <2>2, FS_CardinalityType DEF Accounted
  <2>4. QED
    BY <2>1, <2>2, <2>3, FewerAreFew
<1>6. ASSUME step = "walking"
      PROVE  /\ \A s \in Slots' : nodeAt'[s] \in since' => s < total
             /\ reader = "page" /\ ~lossy => Cardinality(Passed') <= moves'
  <2> USE DEF RegistryInv
  <2>0. at \in Nat
    BY DEF ListingInv, Progress
  <2>1. ASSUME NEW caller \in Providers, NEW size \in Allocations,
               NEW meta \in Metadata \cup {NoMetadata},
               RegisterStorageNode(caller, size, meta)
        PROVE  /\ \A s \in Slots' : nodeAt'[s] \in since' => s < total
               /\ Passed' \subseteq Passed
    <3>1. since' = since
      BY <1>1, <1>6, <2>1, RegisterGrows DEF Accounted
    <3>2. QED
      BY <1>1, <1>6, <2>0, <2>1, <3>1, ArrivalMisses
  <2>2. ASSUME NEW caller \in Providers, UnregisterStorageNode(caller)
        PROVE  /\ \A s \in Slots' : nodeAt'[s] \in since' => s < total
               /\ Passed' \subseteq Passed \cup {nodeAt[totalNodes - 1]}
               /\ moves' = moves + 1
    <3>1. Active \ Active' = {caller}
      BY <2>2, UnregisterShrinks
    <3>2. moves' = moves + 1
      BY <1>1, <1>6, <3>1, FS_Singleton
    <3>3. QED
      BY <1>1, <1>6, <2>0, <2>2, <3>2, DepartureMisses
  <2>3. ASSUME Registered' = Registered, Active' = Active, UNCHANGED listVars
        PROVE  /\ \A s \in Slots' : nodeAt'[s] \in since' => s < total
               /\ Passed' \subseteq Passed
    <3>1. since' = since
      BY <1>1, <1>6, <2>3 DEF Accounted
    <3>2. QED
      BY <1>1, <1>6, <2>3, <3>1 DEF Passed, IsQueued, Slots, listVars, scanVars, Accounted
  <2>4. \A s \in Slots' : nodeAt'[s] \in since' => s < total
    BY <1>1, <2>1, <2>2, <2>3, ListFrame
  <2>5. \/ Passed' \subseteq Passed
        \/ Passed' \subseteq Passed \cup {nodeAt[totalNodes - 1]} /\ moves' = moves + 1
    BY <1>1, <2>1, <2>2, <2>3, ListFrame
  <2>6. ASSUME reader = "page", ~lossy PROVE Cardinality(Passed') <= moves'
    <3>1. /\ Cardinality(Passed) <= moves /\ Cardinality(Passed) \in Nat
          /\ moves \in Nat /\ moves' \in Nat /\ moves' >= moves /\ IsFiniteSet(Passed)
      BY <1>3, <1>6, <2>6, SinceFinite, FS_CardinalityType DEF Accounted
    <3>2. CASE Passed' \subseteq Passed
      <4>1. Cardinality(Passed) <= moves' /\ moves' \in Int
        BY <3>1
      <4>2. QED
        BY <3>1, <3>2, <4>1, FewerAreFew
    <3>3. CASE Passed' \subseteq Passed \cup {nodeAt[totalNodes - 1]} /\ moves' = moves + 1
      <4>1. /\ IsFiniteSet(Passed \cup {nodeAt[totalNodes - 1]})
            /\ Cardinality(Passed \cup {nodeAt[totalNodes - 1]})
                 \in {Cardinality(Passed), Cardinality(Passed) + 1}
        BY <3>1, FS_AddElement
      <4>2. Cardinality(Passed \cup {nodeAt[totalNodes - 1]}) <= moves' /\ moves' \in Int
        BY <3>1, <3>3, <4>1
      <4>3. QED
        BY <3>3, <4>1, <4>2, FewerAreFew
    <3>4. QED
      BY <2>5, <3>2, <3>3
  <2>7. QED
    BY <2>4, <2>6
<1>7. QED
  BY <1>1, <1>2, <1>3, <1>4, <1>5, <1>6 DEF Accounted, scanVars

LEMMA ReadIndexAccounts ==
  ASSUME TypeOK, NodeIndexExact, ListingInv, Accounted, ReadIndex
  PROVE  Accounted'
<1>1. /\ step = "index" /\ step' = StepAfterIndex(todo')
      /\ rows = <<>> /\ next = 1
      /\ UNCHANGED <<node, reader, at, next, rows, since, moves>>
      /\ todo' \in {nodeIndex, <<>>}
  BY DEF ReadIndex, vars, historyVars, ListingInv, Progress
<1>2. /\ step' \in {"visiting", "counting", "done"}
      /\ step' = "visiting" => todo' # <<>>
      /\ step' = "done" => reader # "page"
  BY <1>1 DEF StepAfterIndex
<1>3. ASSUME step' = "visiting" PROVE Overlooked' = {}
  <2>1. todo' = nodeIndex
    BY <1>1, <1>2, <1>3
  <2>2. ASSUME NEW a \in since PROVE IsWaiting(a)'
    <3>1. PICK k \in DOMAIN nodeIndex : nodeIndex[k] = a
      BY <2>2 DEF Accounted, Active, NodeIndexExact
    <3>2. k \in Nat /\ k >= 1
      BY <3>1 DEF TypeOK
    <3>3. QED
      BY <1>1, <2>1, <3>1, <3>2 DEF IsWaiting
  <2>3. QED
    BY <1>1, <2>2 DEF Overlooked
<1>4. ASSUME step' = "visiting" PROVE Cardinality(Overlooked') <= moves'
  <2>1. Cardinality(Overlooked') = 0
    BY <1>3, <1>4, FS_EmptySet
  <2>2. QED
    BY <1>1, <2>1 DEF Accounted
<1>5. Active' = Active
  BY <1>1 DEF Active, Registered
<1>6. QED
  BY <1>1, <1>2, <1>4, <1>5 DEF Accounted

LEMMA ReadTotalAccounts ==
  ASSUME TypeOK, NodeListExact, ListingInv, Accounted, ReadTotal
  PROVE  Accounted'
<1>1. /\ step = "counting" /\ step' = "walking" /\ at = 0
      /\ total' = totalNodes /\ totalNodes \in Nat
      /\ UNCHANGED <<node, nodeAt, totalNodes, reader, todo, at, since, moves, lossy>>
  BY ModAssumption DEF ReadTotal, vars, listVars, historyVars, Accounted, TypeOK, U64
<1>2. Active' = Active /\ Slots' = Slots /\ (\A s \in Slots : s < totalNodes /\ ~(s < 0))
  BY <1>1, ModAssumption DEF Active, Registered, Slots, U64
<1>3. Passed' = {}
  <2>1. \A a \in since : \E s \in Slots : nodeAt[s] = a
    BY DEF Accounted, NodeListExact
  <2>2. QED
    BY <1>1, <1>2, <2>1 DEF Passed
<1>4. Cardinality(Passed') <= moves'
  <2>1. Cardinality(Passed') = 0
    BY <1>3, FS_EmptySet
  <2>2. QED
    BY <1>1, <2>1 DEF Accounted
<1>5. QED
  BY <1>1, <1>2, <1>4 DEF Accounted

(* The walk notes down the entry it passes. *)
LEMMA WalkAccounts ==
  ASSUME TypeOK, NodeListExact, ListingInv, Accounted, Walk
  PROVE  Accounted'
<1>1. /\ step = "walking" /\ step' = step /\ at' = at + 1 /\ at \in Nat
      /\ UNCHANGED <<node, nodeAt, totalNodes, reader, total, since, moves>>
      /\ lossy => lossy'
  BY DEF Walk, ListingInv, Progress, vars, listVars, historyVars
<1>2. Active' = Active /\ Slots' = Slots
  BY <1>1 DEF Active, Registered, Slots
<1>3. ASSUME ~lossy' PROVE Passed' \subseteq Passed
  <2>1. todo' = IF AddressAt(at) = NoAddr THEN todo ELSE Append(todo, AddressAt(at))
    BY <1>3 DEF Walk, WalkPosition
  <2>2. todo \in Seq(Providers)
    BY DEF ListingInv, TodoDistinct
  <2>3. at \in Slots => AddressAt(at) = nodeAt[at] /\ AddressAt(at) # NoAddr
    BY ActorAssumption DEF Slots, AddressAt, NodeListExact, Active, Registered
  <2>4. AddressAt(at) # NoAddr =>
          /\ DOMAIN todo' = DOMAIN todo \cup {Len(todo) + 1}
          /\ todo'[Len(todo) + 1] = AddressAt(at)
          /\ \A k \in DOMAIN todo : todo'[k] = todo[k]
    BY <2>1, <2>2
  <2>5. ASSUME NEW a, ~IsQueued(a)' PROVE ~IsQueued(a)
    BY <2>1, <2>4, <2>5 DEF IsQueued
  <2>6. ASSUME NEW a \in Passed', NEW s \in Slots, nodeAt[s] = a PROVE s < at
    <3>1. s < at + 1 /\ ~IsQueued(a)'
      BY <1>1, <1>2, <2>6 DEF Passed
    <3>2. s # at
      BY <2>3, <2>4, <2>6, <3>1 DEF IsQueued
    <3>3. s \in Nat
      BY ModAssumption DEF Slots, U64
    <3>4. QED
      BY <1>1, <3>1, <3>2, <3>3
  <2>7. QED
    BY <1>1, <2>5, <2>6 DEF Passed
<1>4. ASSUME reader = "page", ~lossy' PROVE Cardinality(Passed') <= moves
  <2>1. Cardinality(Passed) <= moves /\ moves \in Int
    BY <1>1, <1>4 DEF Accounted
  <2>2. QED
    BY <1>3, <1>4, <2>1, SinceFinite, FewerAreFew
<1>5. QED
  BY <1>1, <1>2, <1>4 DEF Accounted

(* It ends behind all who are there all the time. *)
LEMMA WalkEndsAccounts ==
  ASSUME TypeOK, NodeListExact, ListingInv, Accounted, WalkEnds
  PROVE  Accounted'
<1>1. /\ step = "walking" /\ step' = "visiting" /\ at >= total /\ at \in Nat /\ next = 1
      /\ UNCHANGED <<node, reader, todo, next, rows, since, moves, lossy>>
  BY DEF WalkEnds, ListingInv, Progress, vars, historyVars
<1>2. Active' = Active
  BY <1>1 DEF Active, Registered
<1>3. Overlooked' \subseteq Passed
  <2>1. ASSUME NEW a \in since, NEW s \in Slots, nodeAt[s] = a PROVE s < at
    <3>1. s < total /\ total \in Nat /\ s \in Nat
      BY <1>1, <2>1, ModAssumption DEF Accounted, Slots, U64
    <3>2. QED
      BY <1>1, <3>1
  <2>2. ASSUME NEW a, IsQueued(a) PROVE IsWaiting(a)'
    <3>1. DOMAIN todo \subseteq Nat \ {0}
      BY DEF ListingInv, TodoDistinct
    <3>2. QED
      BY <1>1, <2>2, <3>1 DEF IsQueued, IsWaiting
  <2>3. QED
    BY <1>1, <2>1, <2>2 DEF Passed, Overlooked
<1>4. ASSUME reader = "page", ~lossy PROVE Cardinality(Overlooked') <= moves
  <2>1. Cardinality(Passed) <= moves /\ moves \in Int
    BY <1>1, <1>4 DEF Accounted
  <2>2. QED
    BY <1>3, <2>1, SinceFinite, FewerAreFew
<1>5. QED
  BY <1>1, <1>2, <1>4 DEF Accounted

(* An answered visit drops nobody who is there. *)
LEMMA VisitAccounts ==
  ASSUME TypeOK, ListingInv, Accounted, Visit
  PROVE  Accounted'
<1>1. /\ step = "visiting" /\ next \in DOMAIN todo
      /\ UNCHANGED <<node, reader, todo, rows, since, moves>>
  BY DEF Visit, ListingInv, Progress, TodoDistinct, vars, historyVars
<1>2. PICK record \in {node[todo[next]], NoNode} :
        /\ IF Keeps(record) THEN step' = "describing" /\ next' = next
           ELSE next' = next + 1 /\ step' = step
        /\ lossy' = (lossy \/ (reader = "page" /\ record = NoNode))
  BY DEF Visit, ListingInv, Progress
<1>3. Active' = Active
  BY <1>1 DEF Active, Registered
<1>4. step' \in {"visiting", "describing"} /\ (lossy => lossy')
  BY <1>1, <1>2
<1>5. ASSUME reader = "page", ~lossy' PROVE Overlooked' \subseteq Overlooked
  <2>1. record = node[todo[next]]
    BY <1>2, <1>5
  <2>2. CASE Keeps(record)
    BY <1>1, <1>2, <2>2 DEF Overlooked, IsListed, IsWaiting
  <2>3. CASE ~Keeps(record)
    <3>1. todo[next] \notin since
      BY <2>1, <2>3, <1>2, <1>5 DEF Keeps, Accounted, Active, Registered
    <3>2. ASSUME NEW a \in since, IsWaiting(a) PROVE IsWaiting(a)'
      <4>1. PICK k \in DOMAIN todo : k >= next /\ todo[k] = a
        BY <3>2 DEF IsWaiting
      <4>2. k # next /\ k \in Nat /\ next \in Nat
        BY <1>1, <3>1, <3>2, <4>1 DEF ListingInv, TodoDistinct
      <4>3. k >= next + 1
        BY <4>1, <4>2
      <4>4. QED
        BY <1>1, <1>2, <2>3, <4>1, <4>3 DEF IsWaiting
    <3>3. QED
      BY <1>1, <3>2 DEF Overlooked, IsListed
  <2>4. QED
    BY <2>2, <2>3
<1>6. ASSUME reader = "page", ~lossy' PROVE Cardinality(Overlooked') <= moves
  <2>1. Cardinality(Overlooked) <= moves /\ moves \in Int
    BY <1>1, <1>4, <1>6 DEF Accounted
  <2>2. QED
    BY <1>5, <1>6, <2>1, SinceFinite, FewerAreFew
<1>7. QED
  BY <1>1, <1>3, <1>4, <1>6 DEF Accounted

LEMMA DescribeAccounts ==
  ASSUME TypeOK, ListingInv, Accounted, Describe
  PROVE  Accounted'
<1>1. /\ step = "describing" /\ step' = "visiting" /\ next \in DOMAIN todo /\ next' = next + 1
      /\ UNCHANGED <<node, reader, todo, lossy, since, moves>>
  BY DEF Describe, ListingInv, Progress, vars, historyVars
<1>2. PICK meta \in {metadata[todo[next]], NoMetadata} :
        rows' = Append(rows, [address |-> todo[next], gb |-> gb, meta |-> meta])
  BY DEF Describe
<1>3. todo[next] \in Providers /\ meta \in Metadata \cup {NoMetadata} /\ gb \in U64
  BY <1>1 DEF ListingInv, TodoDistinct, RowsVisited, TypeOK
<1>4. /\ DOMAIN rows' = DOMAIN rows \cup {Len(rows) + 1}
      /\ rows'[Len(rows) + 1].address = todo[next]
      /\ \A i \in DOMAIN rows : rows'[i] = rows[i]
  BY <1>2, <1>3 DEF ListingInv, RowsVisited
<1>5. ASSUME NEW a, IsListed(a) \/ IsWaiting(a) PROVE IsListed(a)' \/ IsWaiting(a)'
  <2>1. CASE IsListed(a) \/ a = todo[next]
    BY <1>4, <2>1 DEF IsListed
  <2>2. ASSUME NEW k \in DOMAIN todo, k >= next, todo[k] = a, k # next
        PROVE  IsWaiting(a)'
    <3>1. k \in Nat /\ next \in Nat
      BY <1>1 DEF ListingInv, TodoDistinct
    <3>2. k >= next + 1
      BY <2>2, <3>1
    <3>3. QED
      BY <1>1, <2>2, <3>2 DEF IsWaiting
  <2>3. QED
    BY <1>5, <2>1, <2>2 DEF IsWaiting
<1>6. Overlooked' \subseteq Overlooked
  BY <1>1, <1>5 DEF Overlooked
<1>7. ASSUME reader = "page", ~lossy PROVE Cardinality(Overlooked') <= moves
  <2>1. Cardinality(Overlooked) <= moves /\ moves \in Int
    BY <1>1, <1>7 DEF Accounted
  <2>2. QED
    BY <1>6, <2>1, SinceFinite, FewerAreFew
<1>8. Active' = Active
  BY DEF Describe, vars, Active, Registered
<1>9. QED
  BY <1>1, <1>7, <1>8 DEF Accounted

LEMMA QuietStepsAccount ==
  ASSUME TypeOK, ListingInv, Accounted,
         \/ \E who \in Readers : Open(who)
         \/ Close \/ Finish \/ Reject
  PROVE  Accounted'
<1>1. Active' = Active
  BY DEF Open, Close, Finish, Reject, vars, Registered, Active
<1>2. ASSUME NEW who \in Readers, Open(who) PROVE Accounted'
  BY <1>1, <1>2 DEF Open, Cleared, Accounted
<1>3. CASE Close
  BY <1>1, <1>3 DEF Close, Cleared, Accounted
<1>4. CASE Finish
  <2>1. step = "visiting" /\ step' = "done" /\ UNCHANGED <<reader, rows, lossy, since, moves>>
    BY <1>4 DEF Finish, historyVars
  <2>2. \A a : ~IsWaiting(a)
    BY <1>4 DEF Finish, IsWaiting, ListingInv, Progress, TodoDistinct
  <2>3. (since \ Listed)' = Overlooked
    BY <2>1, <2>2 DEF Overlooked, Listed, IsListed
  <2>4. QED
    BY <1>1, <2>1, <2>3 DEF Accounted
<1>5. CASE Reject
  BY <1>1, <1>5 DEF Reject, Cleared, Accounted
<1>6. QED
  BY <1>2, <1>3, <1>4, <1>5

AccountedInv == RegistryInv /\ ListingInv /\ Accounted

LEMMA InitAccounted == ListingInit => AccountedInv
BY InitListing DEF AccountedInv, ListingInit, Accounted

LEMMA StepAccounted == AccountedInv /\ [ListingNext]_allVars => AccountedInv'
<1> SUFFICES ASSUME AccountedInv, [ListingNext]_allVars PROVE AccountedInv'
  OBVIOUS
<1>1. RegistryInv' /\ ListingInv'
  BY StepListing, StepRegistry, ListingStepsContract DEF AccountedInv
<1>2. ASSUME UNCHANGED allVars PROVE Accounted'
  BY <1>2 DEF AccountedInv, allVars, listingVars, scanVars, historyVars, vars, listVars, Accounted,
     Passed, Overlooked, IsQueued, IsListed, IsWaiting, Listed, Slots, Active, Registered
<1>3. Accounted'
  BY <1>1, <1>2, ContractAccounts, ReadIndexAccounts, ReadTotalAccounts, WalkAccounts,
     WalkEndsAccounts, VisitAccounts, DescribeAccounts, QuietStepsAccount
  DEF AccountedInv, RegistryInv, ListingNext
<1>4. QED
  BY <1>1, <1>3 DEF AccountedInv

(* A page whose calls were all answered misses at most one provider who    *)
(* was there all the time for each one who left during its walk.           *)
THEOREM MissesBoundedCorrect == ListingSpec => []MissesBounded
<1>1. AccountedInv => MissesBounded
  BY DEF AccountedInv, Accounted, MissesBounded, Complete
<1>2. QED
  BY <1>1, InitAccounted, StepAccounted, PTL DEF ListingSpec
-----------------------------------------------------------------------------
(* Whom the page chooses *)

LEMMA ItemOf ==
  ASSUME NEW S, NEW q \in Seq(S), NEW i \in DOMAIN q
  PROVE  q[i] \in S
OBVIOUS

(* Of elements with different ranks, all below their number, there are k   *)
(* among the first k places, or all of them.                               *)
LEMMA FirstRanks ==
  ASSUME NEW E, IsFiniteSet(E), NEW k \in Nat, NEW rank \in [E -> Nat],
         \A x \in E : rank[x] < Cardinality(E),
         \A x, y \in E : rank[x] = rank[y] => x = y
  PROVE  {x \in E : rank[x] < k} = E \/ Cardinality({x \in E : rank[x] < k}) = k
<1> DEFINE n == Cardinality(E)
           T == {x \in E : rank[x] < k}
           f == [x \in T |-> rank[x]]
<1>1. n \in Nat
  BY FS_CardinalityType
<1>2. CASE k >= n
  BY <1>1, <1>2
<1>3. CASE k < n
  <2>1. rank \in [E -> 0 .. n - 1] /\ rank \in Injection(E, 0 .. n - 1)
    <3>1. \A x \in E : rank[x] \in 0 .. n - 1
      BY <1>1
    <3>2. rank \in [E -> 0 .. n - 1]
      BY <3>1
    <3>3. QED
      BY <3>2 DEF Injection, IsInjective
  <2>2. IsFiniteSet(0 .. n - 1) /\ Cardinality(0 .. n - 1) = n
    BY <1>1, FS_Interval
  <2>3. rank \in Surjection(E, 0 .. n - 1)
    BY <2>1, <2>2, FS_Injection
  <2>4. \A v \in 0 .. k - 1 : \E x \in T : rank[x] = v
    BY <1>1, <1>3, <2>3 DEF Surjection
  <2>5. \A x \in T : rank[x] \in 0 .. k - 1
    OBVIOUS
  <2>6. f \in Bijection(T, 0 .. k - 1)
    <3>1. f \in [T -> 0 .. k - 1] /\ \A x \in T : f[x] = rank[x]
      BY <2>5
    <3>2. f \in Injection(T, 0 .. k - 1)
      BY <3>1 DEF Injection, IsInjective
    <3>3. f \in Surjection(T, 0 .. k - 1)
      BY <2>4, <3>1 DEF Surjection
    <3>4. QED
      BY <3>2, <3>3 DEF Bijection
  <2>7. IsFiniteSet(T)
    BY FS_Subset
  <2>8. Cardinality(0 .. k - 1) = Cardinality(T)
    BY <2>6, <2>7, FS_Bijection DEF ExistsBijection
  <2>9. Cardinality(0 .. k - 1) = k
    BY FS_Interval
  <2>10. QED
    BY <2>8, <2>9
<1>4. QED
  BY <1>1, <1>2, <1>3

(* How many rows come before a row tells the rows apart. *)
LEMMA PlacesDiffer ==
  ASSUME NEW E, IsFiniteSet(E), E \subseteq Nat,
         \A i \in E : rows[i].gb \in Nat
  PROVE  /\ \A j \in E : /\ Cardinality({i \in E : LargestFirst(i, j)}) \in Nat
                         /\ Cardinality({i \in E : LargestFirst(i, j)}) < Cardinality(E)
         /\ \A j, l \in E : LargestFirst(j, l) =>
              Cardinality({i \in E : LargestFirst(i, j)})
                < Cardinality({i \in E : LargestFirst(i, l)})
<1> DEFINE Earlier(j) == {i \in E : LargestFirst(i, j)}
<1>0. /\ \A j \in E : ~LargestFirst(j, j)
      /\ \A i, j, l \in E : LargestFirst(i, j) /\ LargestFirst(j, l) => LargestFirst(i, l)
  <2>1. \A a, j \in Nat : ~(a > a \/ (a = a /\ j < j))
    OBVIOUS
  <2>2. ASSUME NEW j \in E PROVE ~LargestFirst(j, j)
    BY <2>1 DEF LargestFirst
  <2>3. ASSUME NEW i \in E, NEW j \in E, NEW l \in E,
               LargestFirst(i, j), LargestFirst(j, l)
        PROVE  LargestFirst(i, l)
    <3>1. PICK a \in Nat, b \in Nat, c \in Nat : a = rows[i].gb /\ b = rows[j].gb /\ c = rows[l].gb
      OBVIOUS
    <3>2. a > b \/ (a = b /\ i < j)
      BY <2>3, <3>1, Zenon DEF LargestFirst
    <3>3. b > c \/ (b = c /\ j < l)
      BY <2>3, <3>1, Zenon DEF LargestFirst
    <3>4. i \in Nat /\ j \in Nat /\ l \in Nat
      OBVIOUS
    <3>5. a > c \/ (a = c /\ i < l)
      BY <3>2, <3>3, <3>4
    <3>6. QED
      BY <3>1, <3>5, Zenon DEF LargestFirst
  <2>4. QED
    BY <2>2, <2>3
<1>1. \A j \in E : IsFiniteSet(Earlier(j)) /\ Cardinality(Earlier(j)) \in Nat
  BY FS_Subset, FS_CardinalityType
<1>2. Cardinality(E) \in Nat
  BY FS_CardinalityType
<1>3. ASSUME NEW j \in E PROVE Cardinality(Earlier(j)) < Cardinality(E)
  <2>1. j \notin Earlier(j) /\ Earlier(j) \subseteq E
    BY <1>0
  <2>2. Cardinality(Earlier(j)) <= Cardinality(E) /\ (Cardinality(Earlier(j)) = Cardinality(E) => Earlier(j) = E)
    BY <2>1, FS_Subset
  <2>3. QED
    BY <1>1, <1>2, <2>1, <2>2
<1>4. ASSUME NEW j \in E, NEW l \in E, LargestFirst(j, l)
      PROVE  Cardinality(Earlier(j)) < Cardinality(Earlier(l))
  <2>1. j \in Earlier(l) /\ j \notin Earlier(j)
    BY <1>0, <1>4
  <2>2. Earlier(j) \subseteq Earlier(l)
    BY <1>0, <1>4
  <2>3. /\ Cardinality(Earlier(j)) <= Cardinality(Earlier(l))
        /\ Cardinality(Earlier(j)) = Cardinality(Earlier(l)) => Earlier(j) = Earlier(l)
    BY <1>1, <2>2, FS_Subset
  <2>4. QED
    BY <1>1, <2>1, <2>3
<1>5. QED
  BY <1>1, <1>3, <1>4

(* The page takes the right servers from what it lists. *)
LEMMA ListedIsChosenRight ==
  ASSUME RowsVisited, ListedOnce
  PROVE  SelectionRight
<1>1. SUFFICES ASSUME NEW blocked \in SUBSET Providers,
                      NEW k \in 1 .. Cardinality(Providers)
      PROVE  LET ok     == {i \in DOMAIN rows : /\ rows[i].address \notin blocked
                                                /\ rows[i].meta # NoMetadata
                                                /\ rows[i].gb > 0}
                 chosen == {i \in DOMAIN rows : rows[i].address \in AutoSelected(blocked, k)}
             IN  /\ chosen \subseteq ok
                 /\ chosen = ok \/ Cardinality(chosen) = k
                 /\ \A i \in chosen, j \in ok \ chosen : rows[i].gb >= rows[j].gb
  BY DEF SelectionRight
<1> DEFINE ok      == Eligible(blocked)
           chosen  == {i \in DOMAIN rows : rows[i].address \in AutoSelected(blocked, k)}
           Place(j) == Cardinality({i \in ok : LargestFirst(i, j)})
           rank    == [j \in ok |-> Place(j)]
           first   == {j \in ok : rank[j] < k}
<1>2. /\ DOMAIN rows = 1 .. Len(rows) /\ Len(rows) \in Nat
      /\ \A i \in DOMAIN rows : rows[i].gb \in Nat
  <2>1. rows \in Seq([address : Providers, gb : U64, meta : Metadata \cup {NoMetadata}])
    BY DEF RowsVisited
  <2>2. U64 \subseteq Nat
    BY ModAssumption DEF U64
  <2>3. ASSUME NEW i \in DOMAIN rows PROVE rows[i].gb \in Nat
    <3>1. rows[i] \in [address : Providers, gb : U64, meta : Metadata \cup {NoMetadata}]
      BY <2>1, <2>3, ItemOf
    <3>2. QED
      BY <2>2, <3>1
  <2>4. QED
    BY <2>1, <2>3
<1>3. /\ IsFiniteSet(ok) /\ ok \subseteq Nat /\ ok \subseteq DOMAIN rows
      /\ \A i \in ok : rows[i].gb \in Nat
  <2>1. IsFiniteSet(DOMAIN rows)
    BY <1>2, FS_Interval
  <2>2. QED
    BY <1>2, <2>1, FS_Subset DEF Eligible
<1>4. \A i, j \in ok : i # j => LargestFirst(i, j) \/ LargestFirst(j, i)
  BY <1>3 DEF LargestFirst
<1>5. /\ \A j \in ok : Place(j) \in Nat /\ Place(j) < Cardinality(ok)
      /\ \A j, l \in ok : LargestFirst(j, l) => Place(j) < Place(l)
  <2> HIDE DEF ok
  <2>1. QED
    BY <1>3, PlacesDiffer
<1>6. chosen = first
  <2>1. AutoSelected(blocked, k) = {rows[j].address : j \in first}
    BY DEF AutoSelected
  <2>2. first \subseteq DOMAIN rows
    BY <1>3
  <2>3. QED
    BY <2>1, <2>2 DEF ListedOnce
<1> HIDE DEF ok, chosen, Place
<1>7. k \in Nat
  BY ActorAssumption, FS_CardinalityType
<1>8. first = ok \/ Cardinality(first) = k
  <2>1. rank \in [ok -> Nat] /\ \A j \in ok : rank[j] < Cardinality(ok)
    BY <1>5
  <2>2. \A i, j \in ok : rank[i] = rank[j] => i = j
    BY <1>4, <1>5
  <2> HIDE DEF rank
  <2>3. QED
    BY <1>3, <1>7, <2>1, <2>2, FirstRanks
<1>9. ASSUME NEW i \in first, NEW j \in ok \ first PROVE rows[i].gb >= rows[j].gb
  <2>1. ~LargestFirst(j, i)
    BY <1>5, <1>7, <1>9
  <2>2. QED
    BY <1>3, <1>9, <2>1 DEF LargestFirst
<1>10. first \subseteq ok
  OBVIOUS
<1> HIDE DEF first
<1>11. /\ chosen \subseteq ok
       /\ chosen = ok \/ Cardinality(chosen) = k
       /\ \A i \in chosen, j \in ok \ chosen : rows[i].gb >= rows[j].gb
  BY <1>6, <1>8, <1>9, <1>10
<1>12. QED
  BY <1>11 DEF ok, chosen, Eligible

(* The servers chosen are not blocked, have an endpoint and offer space,   *)
(* are as many as wanted or all there are, and no smaller one is taken     *)
(* before a larger one.                                                    *)
THEOREM SelectionCorrect == ListingSpec => []SelectionRight
<1>1. ShownInv => SelectionRight
  BY ListedIsChosenRight DEF ShownInv, ListingInv
<1>2. QED
  BY <1>1, InitShown, StepShown, PTL DEF ListingSpec
-----------------------------------------------------------------------------
(* Uploads: who holds a file *)

RequestStates == {"none", "received", "allowed", "stored", "over"}
AnswerStates  == {"none", "waiting", "ok", "failed"}

(* The shapes of what page and servers keep.  (The registry's TypeOK does *)
(* not hold here: what the page asks for need not be a u64.)              *)
UploadShape ==
  /\ used \in 0 .. MaxIds /\ files \in Nat /\ batch \subseteq 1 .. used
  /\ request \in [Ids \X Servers -> RequestStates]
  /\ answer \in [Ids \X Servers -> AnswerStates]
  /\ stored \subseteq Ids \X Servers
  /\ IsFiniteSet(pending)

(* No server has heard of an id that was not given out, nor of a file of  *)
(* the batch that was not sent yet.                                       *)
FilesFresh ==
  /\ \A q \in Ids \X Servers : q[1] > used => request[q] = "none"
  /\ \A id \in batch : Sent(id) \/ \A s \in Servers : request[<<id, s>>] = "none"

(* A request is behind the disk, an answer behind the request. *)
HeldIsStored ==
  \A q \in Ids \X Servers :
    /\ q \in stored => request[q] \in {"stored", "over"}
    /\ request[q] = "stored" => q \in stored
    /\ answer[q] = "ok" => q \in stored

HoldInv == UploadShape /\ FilesFresh /\ HeldIsStored /\ ListedServersHaveIt

LEMMA InitHold == PipelineInit => HoldInv
<1> SUFFICES ASSUME PipelineInit PROVE HoldInv
  OBVIOUS
<1> USE DEF PipelineInit
<1>1. UploadShape
  BY PipelineAssumption, FS_EmptySet
     DEF UploadShape, NoAnswer, RequestStates, AnswerStates
<1>2. FilesFresh /\ HeldIsStored /\ ListedServersHaveIt
  BY DEF FilesFresh, HeldIsStored, ListedServersHaveIt, NoAnswer
<1>3. QED
  BY <1>1, <1>2 DEF HoldInv

(* What the page does before it sends: no server is told anything. *)
LEMMA QuietPageHold ==
  ASSUME HoldInv,
         \/ \E n \in 1 .. MaxFiles : OpenDialog(n)
         \/ Reload \/ CancelDialog \/ ReadQuote \/ BookingFails \/ CapacitySuffices \/ SendBooking
         \/ BookingFinal \/ BookingUnknown \/ NobodyTookIt
  PROVE  HoldInv'
<1> USE DEF HoldInv, serverVars
<1>1. /\ files' \in Nat /\ used' = used /\ batch' \in {batch, {}}
      /\ UNCHANGED <<request, stored, myFiles>>
  BY PipelineAssumption DEF OpenDialog, Reload, CancelDialog, ReadQuote, BookingFails,
     CapacitySuffices, SendBooking,
     BookingFinal, BookingUnknown, NobodyTookIt, GiveUp, UploadShape
<1>2. answer' = answer \/ (answer' = NoAnswer /\ batch' = {})
  BY DEF OpenDialog, Reload, CancelDialog, ReadQuote, BookingFails, CapacitySuffices, SendBooking,
     BookingFinal, BookingUnknown, NobodyTookIt, GiveUp
<1>3. IsFiniteSet(pending')
  <2>1. pending' = pending \/ \E x : pending' = pending \cup {x}
    BY DEF OpenDialog, Reload, CancelDialog, ReadQuote, BookingFails, CapacitySuffices, SendBooking,
       BookingFinal, BookingUnknown, NobodyTookIt, GiveUp
  <2>2. QED
    BY <2>1, FS_AddElement DEF UploadShape
<1>4. NoAnswer \in [Ids \X Servers -> AnswerStates] /\ \A q \in Ids \X Servers : NoAnswer[q] = "none"
  BY DEF NoAnswer, AnswerStates
<1>5. UploadShape'
  BY <1>1, <1>2, <1>3, <1>4 DEF UploadShape
<1>6. FilesFresh'
  BY <1>1, <1>2, <1>4 DEF FilesFresh, Sent
<1>7. HeldIsStored' /\ ListedServersHaveIt'
  BY <1>1, <1>2, <1>4 DEF HeldIsStored, ListedServersHaveIt
<1>8. QED
  BY <1>5, <1>6, <1>7

(* The ids of a new batch are above all ids in use. *)
LEMMA ConfirmHold ==
  ASSUME HoldInv, Confirm
  PROVE  HoldInv'
<1> USE DEF HoldInv, serverVars
<1>1. /\ used' = used + files /\ batch' = used + 1 .. used + files
      /\ used + files <= MaxIds /\ used \in Nat /\ files \in Nat
      /\ UNCHANGED <<request, answer, stored, myFiles, pending, files>>
  BY PipelineAssumption DEF Confirm, UploadShape
<1>2. UploadShape'
  BY <1>1, PipelineAssumption DEF UploadShape
<1>3. FilesFresh'
  <2>1. \A id \in batch' : id \in Ids /\ id > used
    BY <1>1, PipelineAssumption DEF Ids
  <2>2. \A id \in batch', s \in Servers : request[<<id, s>>] = "none"
    BY <2>1 DEF FilesFresh
  <2>3. \A q \in Ids \X Servers : q[1] > used' => q[1] > used
    BY <1>1, PipelineAssumption DEF Ids
  <2>4. QED
    BY <1>1, <2>2, <2>3 DEF FilesFresh
<1>4. HeldIsStored' /\ ListedServersHaveIt'
  BY <1>1 DEF HeldIsStored, ListedServersHaveIt
<1>5. QED
  BY <1>2, <1>3, <1>4

LEMMA BatchIsIds == UploadShape => batch \subseteq Ids
BY PipelineAssumption DEF UploadShape, Ids

LEMMA SendHold ==
  ASSUME HoldInv, NEW id \in Ids, SendFile(id)
  PROVE  HoldInv'
<1> USE DEF HoldInv, serverVars, pageVars
<1>1. /\ id \in batch /\ batch' = batch /\ used' = used /\ files' = files
      /\ UNCHANGED <<stored, myFiles, pending>>
      /\ \A q \in Ids \X Servers :
           /\ request'[q] = IF q[1] = id THEN "received" ELSE request[q]
           /\ answer'[q] = IF q[1] = id THEN "waiting" ELSE answer[q]
  BY DEF SendFile
<1>2. \A s \in Servers : request[<<id, s>>] = "none"
  BY <1>1 DEF SendFile, FilesFresh
<1>3. id <= used
  BY <1>1, PipelineAssumption DEF UploadShape, Ids
<1>4. UploadShape'
  BY <1>1 DEF SendFile, UploadShape, RequestStates, AnswerStates
<1>5. FilesFresh'
  <2>1. \A q \in Ids \X Servers : q[1] > used' => request'[q] = "none"
    BY <1>1, <1>3, PipelineAssumption DEF FilesFresh, UploadShape, Ids
  <2>2. ASSUME NEW b \in batch
        PROVE  Sent(b)' \/ \A s \in Servers : request'[<<b, s>>] = "none"
    <3>1. b \in Ids
      BY BatchIsIds
    <3>2. CASE b = id
      BY <1>1, <3>1, <3>2 DEF Sent
    <3>3. CASE b # id
      <4>1. \A s \in Servers : /\ request'[<<b, s>>] = request[<<b, s>>]
                               /\ answer'[<<b, s>>] = answer[<<b, s>>]
        BY <1>1, <3>1, <3>3
      <4>2. QED
        BY <4>1 DEF Sent, FilesFresh
    <3>4. QED
      BY <3>2, <3>3
  <2>3. QED
    BY <1>1, <2>1, <2>2 DEF FilesFresh
<1>6. HeldIsStored'
  <2>1. \A q \in Ids \X Servers : q[1] = id => request[q] = "none"
    BY <1>2
  <2>2. QED
    BY <1>1, <2>1 DEF HeldIsStored
<1>7. ListedServersHaveIt'
  BY <1>1 DEF ListedServersHaveIt
<1>8. QED
  BY <1>4, <1>5, <1>6, <1>7

LEMMA FinishHold ==
  ASSUME HoldInv, FinishUpload
  PROVE  HoldInv'
<1> USE DEF HoldInv, serverVars
<1>1. /\ used' = used /\ files' = 0 /\ batch' = {} /\ answer' = NoAnswer
      /\ UNCHANGED <<request, stored, pending>> /\ myFiles' = myFiles \cup Entries
  BY DEF FinishUpload, AddStoredFiles
<1>2. NoAnswer \in [Ids \X Servers -> AnswerStates] /\ \A q \in Ids \X Servers : NoAnswer[q] = "none"
  BY DEF NoAnswer, AnswerStates
<1>3. UploadShape' /\ FilesFresh' /\ HeldIsStored'
  BY <1>1, <1>2 DEF UploadShape, FilesFresh, HeldIsStored
<1>4. ASSUME NEW e \in Entries, NEW s \in e.uploadedTo
      PROVE  <<e.id, s>> \in stored
  <2>1. PICK id \in batch : e = [id |-> id, uploadedTo |-> Succeeded(id)]
    BY DEF Entries
  <2>2. id \in Ids /\ s \in Servers /\ answer[<<id, s>>] = "ok"
    BY <1>4, <2>1, BatchIsIds DEF Succeeded
  <2>3. QED
    BY <2>1, <2>2 DEF HeldIsStored
<1>5. ListedServersHaveIt'
  BY <1>1, <1>4 DEF ListedServersHaveIt
<1>6. QED
  BY <1>3, <1>5

(* A server handles a request it has: it may store the file, then answer.  *)
LEMMA ServersHold ==
  ASSUME HoldInv, ServerNext
  PROVE  HoldInv'
<1> USE DEF HoldInv, pageVars, serverVars
<1>1. UNCHANGED <<used, files, batch, myFiles>>
  BY DEF ServerNext, CheckUploader, Unauthorized, Refused, RejectRequest, Put, Report,
     LoseAnswer, Stop
<1>2. PICK s \in Servers : Stop(s) \/ \E id \in Ids :
         \/ CheckUploader(id, s) \/ Unauthorized(id, s) \/ Refused(id, s)
         \/ Put(id, s) \/ Report(id, s) \/ LoseAnswer(id, s)
  BY DEF ServerNext
<1> DEFINE Kept(q) ==
             /\ request[q] = "none" => request'[q] = "none"
             /\ answer[q] # "none" => answer'[q] # "none"
             /\ q \in stored' => request'[q] \in {"stored", "over"}
             /\ request'[q] = "stored" => q \in stored'
             /\ answer'[q] = "ok" => q \in stored'
           Handled ==
             /\ request' \in [Ids \X Servers -> RequestStates]
             /\ answer' \in [Ids \X Servers -> AnswerStates]
             /\ stored \subseteq stored' /\ stored' \subseteq Ids \X Servers
             /\ IsFiniteSet(pending')
             /\ \A q \in Ids \X Servers : Kept(q)
<1>3. Handled
  <2>1. ASSUME NEW id \in Ids, CheckUploader(id, s)
        PROVE  Handled
    BY <2>1 DEF CheckUploader, UploadShape, HeldIsStored, RequestStates
  <2>2. ASSUME NEW id \in Ids, request[<<id, s>>] \in {"received", "allowed"},
               RejectRequest(id, s)
        PROVE  Handled
    BY <2>2 DEF RejectRequest, UploadShape, HeldIsStored, RequestStates, AnswerStates
  <2>3. ASSUME NEW id \in Ids, Put(id, s)
        PROVE  Handled
    BY <2>3 DEF Put, UploadShape, HeldIsStored, RequestStates
  <2>4. ASSUME NEW id \in Ids, Report(id, s)
        PROVE  Handled
    <3>1. IsFiniteSet(pending')
      BY <2>4, FS_AddElement DEF Report, UploadShape
    <3>2. QED
      BY <2>4, <3>1 DEF Report, Unrecorded, UploadShape, HeldIsStored, RequestStates,
         AnswerStates
  <2>5. ASSUME NEW id \in Ids, LoseAnswer(id, s)
        PROVE  Handled
    BY <2>5 DEF LoseAnswer, UploadShape, HeldIsStored, AnswerStates
  <2>6. ASSUME Stop(s)
        PROVE  Handled
    BY <2>6 DEF Stop, UploadShape, HeldIsStored, RequestStates
  <2>7. QED
    BY <1>2, <2>1, <2>2, <2>3, <2>4, <2>5, <2>6 DEF Unauthorized, Refused
<1>4. UploadShape' /\ HeldIsStored' /\ ListedServersHaveIt'
  BY <1>1, <1>3 DEF UploadShape, HeldIsStored, ListedServersHaveIt
<1>5. FilesFresh'
  BY <1>1, <1>3, BatchIsIds DEF FilesFresh, Sent
<1>6. QED
  BY <1>4, <1>5

LEMMA ChainHold ==
  ASSUME HoldInv, ChainNext
  PROVE  HoldInv'
<1> USE DEF HoldInv, pageVars, serverVars, pipelineVars
<1>1. /\ UNCHANGED <<used, files, batch, request, answer, stored, myFiles>>
      /\ pending' \subseteq pending
  BY DEF ChainNext, ExecuteBooking, ExecuteRecord, OperationFails, RegistryStep
<1>2. IsFiniteSet(pending')
  BY <1>1, FS_Subset DEF UploadShape
<1>3. UploadShape' /\ FilesFresh' /\ HeldIsStored' /\ ListedServersHaveIt'
  BY <1>1, <1>2 DEF UploadShape, FilesFresh, Sent, HeldIsStored, ListedServersHaveIt
<1>4. QED
  BY <1>3

LEMMA StepHold == HoldInv /\ [PipelineNext]_everything => HoldInv'
<1> SUFFICES ASSUME HoldInv, [PipelineNext]_everything PROVE HoldInv'
  OBVIOUS
<1>1. CASE PageNext
  BY <1>1, QuietPageHold, ConfirmHold, SendHold, FinishHold DEF PageNext
<1>2. CASE ServerNext
  BY <1>2, ServersHold
<1>3. CASE ChainNext
  BY <1>3, ChainHold
<1>4. CASE UNCHANGED everything
  BY <1>4 DEF everything, pipelineVars, pageVars, serverVars, HoldInv, UploadShape,
     FilesFresh, Sent, HeldIsStored, ListedServersHaveIt
<1>5. QED
  BY <1>1, <1>2, <1>3, <1>4 DEF PipelineNext

(* The page lists a server for a file only if that server has it, for any  *)
(* number of servers, files and attempts: an "ok" is given after the file  *)
(* was stored, and the files of an attempt have ids of their own.          *)
THEOREM ListedServersCorrect == PipelineSpec => []ListedServersHaveIt
<1>1. HoldInv => ListedServersHaveIt
  BY DEF HoldInv
<1>2. QED
  BY <1>1, InitHold, StepHold, PTL DEF PipelineSpec

-----------------------------------------------------------------------------
(* Uploads: who has booked *)

(* What the contract keeps of uploaders, whatever the amounts are. *)
UploaderShape ==
  /\ booked \in [Uploaders -> Nat] /\ usage \in [Uploaders -> U64]
  /\ storageAdmins \subseteq StorageAdminCandidates

(* Amounts on their way to the contract *)
AmountShape ==
  /\ quote \in [need : Nat, booked : Nat]
  /\ \A op \in pending : op.call = "book" => op.amount \in Nat

HeldIsBooked ==
  (stored # {} \/ \E q \in Ids \X Servers : request[q] \in {"allowed", "stored"})
    => booked[User] > 0

ShapeInv == UploadShape /\ UploaderShape /\ AmountShape

LEMMA RegistryKeepsUploaders ==
  ASSUME UploaderShape, Next
  PROVE  UploaderShape' /\ (booked[User] > 0 => booked'[User] > 0)
<1> USE DEF uploaderVars, UploaderShape, accessVars
<1>0. \A a, b \in U64 : Plus(a, b) \in U64
  BY ArithmeticType
<1>1. CASE Tick \/ RegistrationNext
  BY <1>1, PipelineAssumption
     DEF Tick, RegistrationNext, RegisterStorageNode, UpdateStorageAllocation,
         UnregisterStorageNode, UpdateProviderMetadata
<1>2. CASE ChallengeNext \/ RewardNext
  BY <1>2, PipelineAssumption
     DEF ChallengeNext, IssueChallenge, SubmitProof, ResolveExpiredChallenges,
         RewardNext, DistributeRewards, ClaimRewards, FundContract
<1>3. CASE UploaderNext
  <2>1. ASSUME NEW caller \in Uploaders, NEW amount \in BookingAmounts, NEW coins \in Payments,
               RegisterAsUploader(caller, amount, coins)
        PROVE  UploaderShape' /\ (booked[User] > 0 => booked'[User] > 0)
    BY <2>1, PipelineAssumption, ArgumentAssumption, ModAssumption DEF RegisterAsUploader, U64
  <2>2. ASSUME NEW caller \in Operators, NEW u \in Uploaders, NEW size \in FileSizes,
               RecordFileUpload(caller, u, size) \/ RemoveFileUpload(caller, u, size)
        PROVE  UploaderShape' /\ (booked[User] > 0 => booked'[User] > 0)
    <3>1. size \in U64
      BY ArgumentAssumption
    <3>2. usage[u] > size => usage[u] - size \in U64
      BY <3>1, ModAssumption DEF U64
    <3>3. QED
      BY <2>2, <1>0, <3>1, <3>2, StepType DEF RecordFileUpload, RemoveFileUpload
  <2>3. QED
    BY <1>3, <2>1, <2>2 DEF UploaderNext
<1>4. CASE AdminNext
  <2>1. UNCHANGED <<booked, usage>>
    BY <1>4 DEF AdminNext, UpdateConfig, AddChallenger, RemoveChallenger, SetChallenger,
       AddStorageAdmin, RemoveStorageAdmin, SetStorageAdmins, SetUploaderPricePerGbAdmin,
       SetPaused, TransferAdmin
  <2>2. storageAdmins' \subseteq StorageAdminCandidates
    BY <1>4 DEF AdminNext, UpdateConfig, AddChallenger, RemoveChallenger, SetChallenger,
       AddStorageAdmin, RemoveStorageAdmin, SetStorageAdmins, SetUploaderPricePerGbAdmin,
       SetPaused, TransferAdmin
  <2>3. QED
    BY <2>1, <2>2
<1>5. QED
  BY <1>1, <1>2, <1>3, <1>4 DEF Next

LEMMA ChainKeepsUploaders ==
  ASSUME UploaderShape, AmountShape, ChainNext
  PROVE  UploaderShape' /\ AmountShape' /\ (booked[User] > 0 => booked'[User] > 0)
<1> USE DEF UploaderShape
<1>0. AmountShape'
  BY DEF ChainNext, ExecuteBooking, ExecuteRecord, OperationFails, RegistryStep, pageVars,
     pipelineVars, AmountShape
<1>1. ASSUME NEW op \in pending, ExecuteBooking(op)
      PROVE  UploaderShape' /\ (booked[User] > 0 => booked'[User] > 0)
  <2>1. op.amount > 0 /\ booked' = [booked EXCEPT ![User] = op.amount]
        /\ UNCHANGED <<usage, storageAdmins>>
    BY <1>1 DEF ExecuteBooking, RegisterAsUploader, accessVars
  <2>2. op.amount \in Nat
    BY <1>1 DEF ExecuteBooking, AmountShape
  <2>3. QED
    BY <2>1, <2>2, PipelineAssumption
<1>2. ASSUME NEW op \in pending, ExecuteRecord(op)
      PROVE  UploaderShape' /\ (booked[User] > 0 => booked'[User] > 0)
  <2>1. usage' = [usage EXCEPT ![User] = Plus(@, FileBytes)]
        /\ UNCHANGED <<booked, storageAdmins>>
    BY <1>2 DEF ExecuteRecord, RecordFileUpload, accessVars
  <2>2. Plus(usage[User], FileBytes) \in U64
    BY ArithmeticType, PipelineAssumption
  <2>3. QED
    BY <2>1, <2>2
<1>3. CASE \E op \in pending : OperationFails(op)
  BY <1>0, <1>3 DEF OperationFails, vars, uploaderVars, accessVars
<1>4. CASE RegistryStep
  BY <1>0, <1>4, RegistryKeepsUploaders DEF RegistryStep
<1>5. QED
  BY <1>0, <1>1, <1>2, <1>3, <1>4 DEF ChainNext

LEMMA NeedIsNat == files \in Nat => NeedGb \in Nat
<1> SUFFICES ASSUME files \in Nat PROVE NeedGb \in Nat
  OBVIOUS
<1>1. FileBytes \in Nat /\ BytesPerGb \in Nat \ {0}
  BY PipelineAssumption, ModAssumption DEF U64
<1>2. files * FileBytes \in Nat
  BY <1>1
<1>3. \A n \in Nat, d \in Nat \ {0} : (n + d - 1) \div d \in Nat
  OBVIOUS
<1> DEFINE n == files * FileBytes
<1> HIDE DEF n
<1>4. (n + BytesPerGb - 1) \div BytesPerGb \in Nat
  BY <1>1, <1>2, <1>3 DEF n
<1>5. QED
  BY <1>4 DEF NeedGb, n

LEMMA PageKeepsAmounts ==
  ASSUME UploadShape, UploaderShape, AmountShape, PageNext
  PROVE  AmountShape'
<1> USE DEF AmountShape
<1>1. CASE \/ \E n \in 1 .. MaxFiles : OpenDialog(n)
           \/ \E id \in Ids : SendFile(id)
           \/ Reload \/ CancelDialog \/ Confirm \/ BookingFails \/ CapacitySuffices \/ BookingFinal
           \/ BookingUnknown \/ FinishUpload \/ NobodyTookIt
  <2>1. NoQuote \in [need : Nat, booked : Nat]
    BY DEF NoQuote
  <2>2. pending' = pending /\ quote' \in {quote, NoQuote}
    BY <1>1 DEF OpenDialog, SendFile, Reload, CancelDialog, Confirm, BookingFails,
       CapacitySuffices, BookingFinal, BookingUnknown, FinishUpload, NobodyTookIt, GiveUp, pageVars
  <2>3. QED
    BY <2>1, <2>2
<1>2. CASE ReadQuote
  <2>1. NeedGb \in Nat /\ booked[User] \in Nat
    BY NeedIsNat, PipelineAssumption DEF UploadShape, UploaderShape
  <2>2. \A b \in BookedAnswers : b \in Nat
    BY <2>1 DEF BookedAnswers
  <2>3. quote' \in [need : Nat, booked : Nat]
    BY <1>2, <2>1, <2>2 DEF ReadQuote
  <2>4. QED
    BY <1>2, <2>3 DEF ReadQuote
<1>3. CASE SendBooking
  <2>1. PICK coins : pending' = pending \cup {Booking(coins)}
    BY <1>3 DEF SendBooking
  <2>2. Booking(coins).amount \in Nat
    BY DEF Booking
  <2>3. QED
    BY <1>3, <2>1, <2>2 DEF SendBooking
<1>4. QED
  BY <1>1, <1>2, <1>3 DEF PageNext

LEMMA StepShapes == HoldInv /\ ShapeInv /\ [PipelineNext]_everything => ShapeInv'
<1> SUFFICES ASSUME HoldInv, ShapeInv, [PipelineNext]_everything PROVE ShapeInv'
  OBVIOUS
<1> USE DEF ShapeInv
<1>0. UploadShape'
  BY StepHold DEF HoldInv
<1>1. CASE PageNext
  <2>1. UNCHANGED <<booked, usage, storageAdmins>>
    BY <1>1 DEF PageNext, OpenDialog, SendFile, Reload, CancelDialog, ReadQuote, Confirm,
       BookingFails, CapacitySuffices, SendBooking, BookingFinal, BookingUnknown, FinishUpload,
       NobodyTookIt,
       GiveUp, vars, uploaderVars, accessVars
  <2>2. QED
    BY <1>0, <1>1, <2>1, PageKeepsAmounts DEF UploaderShape
<1>2. CASE ServerNext
  <2>1. UNCHANGED <<booked, usage, storageAdmins, quote>>
    BY <1>2 DEF ServerNext, CheckUploader, Unauthorized, Refused, RejectRequest, Put, Report,
       LoseAnswer, Stop, pageVars, vars, uploaderVars, accessVars
  <2>2. \A op \in pending' : op \in pending \/ op.call = "record"
    <3>1. ASSUME NEW id \in Ids, NEW s \in Servers, Report(id, s)
          PROVE  pending' = pending \/ pending' = pending \cup {Record(id, s)}
      BY <3>1 DEF Report
    <3>2. \A id \in Ids, s \in Servers : Record(id, s).call = "record"
      BY DEF Record
    <3>3. CASE ~ \E id \in Ids, s \in Servers : Report(id, s)
      BY <1>2, <3>3 DEF ServerNext, CheckUploader, Unauthorized, Refused, RejectRequest, Put,
         LoseAnswer, Stop
    <3>4. QED
      BY <3>1, <3>2, <3>3
  <2>3. QED
    BY <1>0, <2>1, <2>2 DEF UploaderShape, AmountShape
<1>3. CASE ChainNext
  BY <1>0, <1>3, ChainKeepsUploaders
<1>4. CASE UNCHANGED everything
  BY <1>0, <1>4 DEF everything, vars, uploaderVars, accessVars, pipelineVars, pageVars,
     UploaderShape, AmountShape
<1>5. QED
  BY <1>1, <1>2, <1>3, <1>4 DEF PipelineNext

LEMMA InitShapes == PipelineInit => ShapeInv
<1> SUFFICES ASSUME PipelineInit PROVE ShapeInv
  OBVIOUS
<1>1. UploadShape
  BY InitHold DEF HoldInv
<1>2. UploaderShape /\ AmountShape
  BY StepType DEF PipelineInit, Init, UploaderShape, AmountShape, NoQuote
<1>3. QED
  BY <1>1, <1>2 DEF ShapeInv

LEMMA StepBooked ==
  ASSUME User \notin StorageAdminCandidates
  PROVE  ShapeInv /\ HeldIsBooked /\ [PipelineNext]_everything => HeldIsBooked'
<1> SUFFICES ASSUME ShapeInv, HeldIsBooked, [PipelineNext]_everything PROVE HeldIsBooked'
  OBVIOUS
<1> USE DEF ShapeInv
<1>1. CASE PageNext
  <2>1. UNCHANGED <<booked, stored>>
    BY <1>1 DEF PageNext, OpenDialog, SendFile, Reload, CancelDialog, ReadQuote, Confirm,
       BookingFails, CapacitySuffices, SendBooking, BookingFinal, BookingUnknown, FinishUpload,
       NobodyTookIt,
       GiveUp, serverVars, vars, uploaderVars
  <2>2. \A q \in Ids \X Servers : request'[q] \in {request[q], "received"}
    BY <1>1 DEF PageNext, OpenDialog, SendFile, Reload, CancelDialog, ReadQuote, Confirm,
       BookingFails, CapacitySuffices, SendBooking, BookingFinal, BookingUnknown, FinishUpload,
       NobodyTookIt,
       GiveUp, serverVars
  <2>3. QED
    BY <2>1, <2>2 DEF HeldIsBooked
<1>2. CASE ServerNext
  <2>1. booked' = booked
    BY <1>2 DEF ServerNext, CheckUploader, Unauthorized, Refused, RejectRequest, Put, Report,
       LoseAnswer, Stop, vars, uploaderVars
  <2>2. PICK s \in Servers : Stop(s) \/ \E id \in Ids :
           \/ CheckUploader(id, s) \/ Unauthorized(id, s) \/ Refused(id, s)
           \/ Put(id, s) \/ Report(id, s) \/ LoseAnswer(id, s)
    BY <1>2 DEF ServerNext
  <2>3. CASE \E id \in Ids : CheckUploader(id, s)
    BY <2>1, <2>3 DEF CheckUploader, Allowed, IsAllowedUploader, UploaderShape, HeldIsBooked
  <2>4. CASE Stop(s) \/ \E id \in Ids : \/ Unauthorized(id, s) \/ Refused(id, s)
                                        \/ Put(id, s) \/ Report(id, s) \/ LoseAnswer(id, s)
    <3>1. \A q \in Ids \X Servers : request'[q] \in {"allowed", "stored"} =>
                                      request[q] \in {"allowed", "stored"}
      BY <2>4 DEF Unauthorized, Refused, RejectRequest, Put, Report, LoseAnswer, Stop,
         serverVars, UploadShape
    <3>2. stored' = stored \/ \E q \in Ids \X Servers : request[q] = "allowed"
      BY <2>4 DEF Unauthorized, Refused, RejectRequest, Put, Report, LoseAnswer, Stop,
         serverVars
    <3>3. QED
      BY <2>1, <3>1, <3>2 DEF HeldIsBooked
  <2>5. QED
    BY <2>2, <2>3, <2>4
<1>3. CASE ChainNext
  <2>1. UNCHANGED <<request, stored>>
    BY <1>3 DEF ChainNext, ExecuteBooking, ExecuteRecord, OperationFails, RegistryStep,
       pipelineVars, serverVars
  <2>2. QED
    BY <1>3, <2>1, ChainKeepsUploaders DEF HeldIsBooked
<1>4. CASE UNCHANGED everything
  BY <1>4 DEF everything, vars, uploaderVars, pipelineVars, serverVars, HeldIsBooked
<1>5. QED
  BY <1>1, <1>2, <1>3, <1>4 DEF PipelineNext

(* A file is on a disk only if its uploader, who is no storage admin,      *)
(* holds a booking: a server stores only what it checked, and no call      *)
(* takes a booking away between the check and the write, or later.         *)
THEOREM StoredIsBookedCorrect ==
  ASSUME User \notin StorageAdminCandidates
  PROVE  PipelineSpec => []StoredIsBooked
<1>1. PipelineInit => HeldIsBooked
  BY DEF PipelineInit, HeldIsBooked
<1>2. HeldIsBooked => StoredIsBooked
  BY DEF HeldIsBooked, StoredIsBooked
<1>3. QED
  BY <1>1, <1>2, InitHold, StepHold, InitShapes, StepShapes, StepBooked, PTL DEF PipelineSpec

-----------------------------------------------------------------------------
(* Uploads: what is charged was stored *)

Records    == {op \in pending : op.call = "record"}
Unreported == {q \in Ids \X Servers : request[q] = "stored"}

(* Every replica is reported at most once: it is not yet, or its record is *)
(* on the way, or it is in the user's account.                             *)
LedgerFits ==
  usage[User] + FileBytes * Cardinality(Records) + FileBytes * Cardinality(Unreported)
    <= FileBytes * Cardinality(stored)

LedgerInv == HoldInv /\ UploaderShape /\ LedgerFits

LEMMA Scaled ==
  ASSUME NEW n \in Nat, NEW m \in Nat
  PROVE  /\ FileBytes * n \in Nat
         /\ FileBytes * (n + 1) = FileBytes * n + FileBytes
         /\ m <= n => FileBytes * m <= FileBytes * n
<1>1. FileBytes \in Nat
  BY PipelineAssumption, ModAssumption DEF U64
<1>2. \A f \in Nat : /\ f * n \in Nat /\ f * (n + 1) = f * n + f
                     /\ m <= n => f * m <= f * n
  OBVIOUS
<1>3. QED
  BY <1>1, <1>2

(* The sets that are counted are finite. *)
LEMMA CountsAreNat ==
  ASSUME UploadShape
  PROVE  /\ IsFiniteSet(Records) /\ IsFiniteSet(Unreported) /\ IsFiniteSet(stored)
         /\ Cardinality(Records) \in Nat /\ Cardinality(Unreported) \in Nat
         /\ Cardinality(stored) \in Nat
<1>1. IsFiniteSet(Ids) /\ IsFiniteSet(Servers)
  BY PipelineAssumption, FS_Interval DEF Ids
<1>2. IsFiniteSet(Ids \X Servers)
  BY <1>1, FS_Product
<1>3. IsFiniteSet(Records) /\ IsFiniteSet(Unreported) /\ IsFiniteSet(stored)
  BY <1>2, FS_Subset DEF UploadShape, Records, Unreported
<1>4. QED
  BY <1>3, FS_CardinalityType

(* Fewer records, fewer unreported replicas, less usage, and no replica    *)
(* lost: the ledger still fits.                                            *)
LEMMA LedgerShrinks ==
  ASSUME UploadShape, UploaderShape, UploaderShape', LedgerFits,
         usage'[User] <= usage[User], Records' \subseteq Records,
         Unreported' \subseteq Unreported, stored' = stored
  PROVE  LedgerFits'
<1>1. /\ usage[User] \in Nat /\ usage'[User] \in Nat
  BY PipelineAssumption, ModAssumption DEF UploaderShape, U64
<1>2. /\ Cardinality(Records') \in Nat /\ Cardinality(Records') <= Cardinality(Records)
      /\ Cardinality(Unreported') \in Nat /\ Cardinality(Unreported') <= Cardinality(Unreported)
  BY CountsAreNat, FS_Subset, FS_CardinalityType
<1>3. /\ FileBytes * Cardinality(Records') <= FileBytes * Cardinality(Records)
      /\ FileBytes * Cardinality(Unreported') <= FileBytes * Cardinality(Unreported)
      /\ FileBytes * Cardinality(Records') \in Nat /\ FileBytes * Cardinality(Records) \in Nat
      /\ FileBytes * Cardinality(Unreported') \in Nat
      /\ FileBytes * Cardinality(Unreported) \in Nat
      /\ FileBytes * Cardinality(stored) \in Nat
  BY <1>2, CountsAreNat, Scaled
<1>4. QED
  BY <1>1, <1>3 DEF LedgerFits

LEMMA PageKeepsLedger ==
  ASSUME LedgerInv, PageNext
  PROVE  LedgerFits'
<1> USE DEF LedgerInv, HoldInv
<1>1. UNCHANGED <<booked, usage, storageAdmins, stored>>
  BY DEF PageNext, OpenDialog, SendFile, Reload, CancelDialog, ReadQuote, Confirm,
     BookingFails, CapacitySuffices, SendBooking, BookingFinal, BookingUnknown, FinishUpload,
     NobodyTookIt,
     GiveUp, serverVars, vars, uploaderVars, accessVars
<1>2. \A q \in Ids \X Servers : request'[q] \in {request[q], "received"}
  BY DEF PageNext, OpenDialog, SendFile, Reload, CancelDialog, ReadQuote, Confirm,
     BookingFails, CapacitySuffices, SendBooking, BookingFinal, BookingUnknown, FinishUpload,
     NobodyTookIt,
     GiveUp, serverVars
<1>3. Records' = Records
  <2>1. pending' = pending \/ \E coins : pending' = pending \cup {Booking(coins)}
    BY DEF PageNext, OpenDialog, SendFile, Reload, CancelDialog, ReadQuote, Confirm,
       BookingFails, CapacitySuffices, SendBooking, BookingFinal, BookingUnknown, FinishUpload,
       NobodyTookIt,
       GiveUp
  <2>2. \A coins : Booking(coins).call # "record"
    BY DEF Booking
  <2>3. QED
    BY <2>1, <2>2 DEF Records
<1>4. usage'[User] <= usage[User]
  BY <1>1, PipelineAssumption, ModAssumption DEF UploaderShape, U64
<1>5. QED
  BY <1>1, <1>2, <1>3, <1>4, LedgerShrinks DEF UploaderShape, Unreported

LEMMA PutKeepsLedger ==
  ASSUME LedgerInv, NEW id \in Ids, NEW s \in Servers, Put(id, s)
  PROVE  LedgerFits'
<1> USE DEF LedgerInv, HoldInv
<1> DEFINE q == <<id, s>>
<1>1. q \in Ids \X Servers /\ q \notin stored /\ q \notin Unreported
  BY DEF Put, HeldIsStored, Unreported
<1>2. stored' = stored \cup {q} /\ Unreported' = Unreported \cup {q} /\ Records' = Records
      /\ usage' = usage
  BY DEF Put, UploadShape, Unreported, Records, vars, uploaderVars
<1>3. /\ Cardinality(stored') = Cardinality(stored) + 1
      /\ Cardinality(Unreported') = Cardinality(Unreported) + 1
  BY <1>1, <1>2, CountsAreNat, FS_AddElement
<1>4. /\ FileBytes * Cardinality(stored') = FileBytes * Cardinality(stored) + FileBytes
      /\ FileBytes * Cardinality(Unreported') = FileBytes * Cardinality(Unreported) + FileBytes
      /\ FileBytes * Cardinality(stored) \in Nat /\ FileBytes * Cardinality(Unreported) \in Nat
      /\ FileBytes * Cardinality(Records) \in Nat
  BY <1>3, CountsAreNat, Scaled
<1>5. usage[User] \in Nat /\ FileBytes \in Nat
  BY PipelineAssumption, ModAssumption DEF UploaderShape, U64
<1>6. LedgerFits' <=> usage[User] + FileBytes * Cardinality(Records)
                        + FileBytes * Cardinality(Unreported')
                      <= FileBytes * Cardinality(stored')
  BY <1>2 DEF LedgerFits
<1> HIDE DEF q
<1>7. QED
  BY <1>4, <1>5, <1>6 DEF LedgerFits

LEMMA ReportKeepsLedger ==
  ASSUME LedgerInv, NEW id \in Ids, NEW s \in Servers, Report(id, s)
  PROVE  LedgerFits'
<1> USE DEF LedgerInv, HoldInv
<1> DEFINE q == <<id, s>>
<1>1. /\ q \in Unreported /\ Unreported' = Unreported \ {q}
      /\ stored' = stored /\ usage' = usage
  BY DEF Report, Unrecorded, UploadShape, Unreported, vars, uploaderVars
<1>2. /\ Cardinality(Unreported') \in Nat
      /\ Cardinality(Unreported) = Cardinality(Unreported') + 1
  <2>1. Cardinality(Unreported') = Cardinality(Unreported) - 1
    BY <1>1, CountsAreNat, FS_RemoveElement
  <2>2. IsFiniteSet(Unreported')
    BY <1>1, CountsAreNat, FS_Subset
  <2>3. QED
    BY <2>1, <2>2, CountsAreNat, FS_CardinalityType
<1>3. /\ Cardinality(Records') \in Nat
      /\ Cardinality(Records') <= Cardinality(Records) + 1
  <2>1. Records' = Records \/ Records' = Records \cup {Record(id, s)}
    BY DEF Report, Records, Record
  <2>2. Cardinality(Records') \in {Cardinality(Records), Cardinality(Records) + 1}
    BY <2>1, CountsAreNat, FS_AddElement
  <2>3. QED
    BY <2>2, CountsAreNat
<1>4. /\ FileBytes * Cardinality(Unreported) = FileBytes * Cardinality(Unreported') + FileBytes
      /\ FileBytes * Cardinality(Records') <= FileBytes * Cardinality(Records) + FileBytes
      /\ FileBytes * Cardinality(Unreported') \in Nat /\ FileBytes * Cardinality(Records') \in Nat
      /\ FileBytes * Cardinality(stored) \in Nat /\ FileBytes * Cardinality(Records) \in Nat
  <2>1. Cardinality(Records) + 1 \in Nat
    BY CountsAreNat
  <2>2. QED
    BY <1>2, <1>3, <2>1, CountsAreNat, Scaled
<1>5. usage[User] \in Nat /\ FileBytes \in Nat
  BY PipelineAssumption, ModAssumption DEF UploaderShape, U64
<1>6. LedgerFits' <=> usage[User] + FileBytes * Cardinality(Records')
                        + FileBytes * Cardinality(Unreported')
                      <= FileBytes * Cardinality(stored)
  BY <1>1 DEF LedgerFits
<1> HIDE DEF q
<1>7. QED
  BY <1>4, <1>5, <1>6 DEF LedgerFits

LEMMA ServersKeepLedger ==
  ASSUME LedgerInv, ServerNext
  PROVE  LedgerFits'
<1>1. PICK s \in Servers : Stop(s) \/ \E id \in Ids :
         \/ CheckUploader(id, s) \/ Unauthorized(id, s) \/ Refused(id, s)
         \/ Put(id, s) \/ Report(id, s) \/ LoseAnswer(id, s)
  BY DEF ServerNext
<1>2. CASE \E id \in Ids : Put(id, s) \/ Report(id, s)
  BY <1>2, PutKeepsLedger, ReportKeepsLedger
<1>3. CASE Stop(s) \/ \E id \in Ids : \/ CheckUploader(id, s) \/ Unauthorized(id, s)
                                      \/ Refused(id, s) \/ LoseAnswer(id, s)
  <2>1. UNCHANGED <<booked, usage, storageAdmins, stored, pending>>
    BY <1>3 DEF CheckUploader, Unauthorized, Refused, RejectRequest, LoseAnswer, Stop,
       vars, uploaderVars, accessVars, serverVars
  <2>2. \A q \in Ids \X Servers : request'[q] = "stored" => request[q] = "stored"
    BY <1>3 DEF LedgerInv, HoldInv, UploadShape, CheckUploader, Unauthorized, Refused,
       RejectRequest, LoseAnswer, Stop, serverVars
  <2>3. usage'[User] <= usage[User]
    BY <2>1, PipelineAssumption, ModAssumption DEF LedgerInv, UploaderShape, U64
  <2>4. QED
    BY <2>1, <2>2, <2>3, LedgerShrinks
       DEF LedgerInv, HoldInv, UploaderShape, Records, Unreported
<1>4. QED
  BY <1>1, <1>2, <1>3

(* Executing a record moves it into the account; with a wrap-around, less  *)
(* than its size arrives there.                                            *)
LEMMA RecordKeepsLedger ==
  ASSUME LedgerInv, NEW op \in pending, ExecuteRecord(op)
  PROVE  LedgerFits'
<1> USE DEF LedgerInv, HoldInv
<1>1. /\ op \in Records /\ Records' = Records \ {op}
      /\ Unreported' = Unreported /\ stored' = stored
  BY DEF ExecuteRecord, Records, Unreported, serverVars
<1>2. /\ Cardinality(Records') \in Nat
      /\ Cardinality(Records) = Cardinality(Records') + 1
  <2>1. Cardinality(Records') = Cardinality(Records) - 1
    BY <1>1, CountsAreNat, FS_RemoveElement
  <2>2. IsFiniteSet(Records')
    BY <1>1, CountsAreNat, FS_Subset
  <2>3. QED
    BY <2>1, <2>2, CountsAreNat, FS_CardinalityType
<1>3. /\ FileBytes * Cardinality(Records) = FileBytes * Cardinality(Records') + FileBytes
      /\ FileBytes * Cardinality(Records') \in Nat /\ FileBytes * Cardinality(stored) \in Nat
      /\ FileBytes * Cardinality(Unreported) \in Nat
  BY <1>2, CountsAreNat, Scaled
<1>4. usage[User] \in Nat /\ FileBytes \in Nat
  BY PipelineAssumption, ModAssumption DEF UploaderShape, U64
<1>5. usage'[User] \in Nat /\ usage'[User] <= usage[User] + FileBytes
  <2>1. usage' = [usage EXCEPT ![User] = Plus(@, FileBytes)]
    BY DEF ExecuteRecord, RecordFileUpload
  <2>2. \A n \in Nat : n % Mod \in Nat /\ n % Mod <= n
    BY ModAssumption
  <2>3. QED
    BY <1>4, <2>1, <2>2, PipelineAssumption DEF UploaderShape, Plus
<1>6. LedgerFits' <=> usage'[User] + FileBytes * Cardinality(Records')
                        + FileBytes * Cardinality(Unreported)
                      <= FileBytes * Cardinality(stored)
  BY <1>1 DEF LedgerFits
<1>7. QED
  BY <1>3, <1>4, <1>5, <1>6 DEF LedgerFits

LEMMA ChainKeepsLedger ==
  ASSUME LedgerInv, UploaderShape', ChainNext,
         RegistryStep => usage'[User] <= usage[User]
  PROVE  LedgerFits'
<1>1. CASE \E op \in pending : ExecuteRecord(op)
  BY <1>1, RecordKeepsLedger
<1>2. CASE RegistryStep \/ \E op \in pending : ExecuteBooking(op) \/ OperationFails(op)
  <2>1. pending' \subseteq pending /\ UNCHANGED <<request, stored>>
    BY <1>2 DEF RegistryStep, ExecuteBooking, OperationFails, serverVars, pipelineVars
  <2>2. usage[User] \in Nat
    BY PipelineAssumption, ModAssumption DEF LedgerInv, UploaderShape, U64
  <2>3. usage'[User] <= usage[User]
    BY <1>2, <2>2 DEF ExecuteBooking, RegisterAsUploader, OperationFails, vars, uploaderVars
  <2>4. QED
    BY <2>1, <2>3, LedgerShrinks DEF LedgerInv, HoldInv, Records, Unreported
<1>3. QED
  BY <1>1, <1>2 DEF ChainNext

LEMMA StepLedger ==
  HoldInv /\ ShapeInv /\ LedgerFits /\ [PipelineNext]_everything
    /\ [RegistryStep => usage'[User] <= usage[User]]_everything
  => LedgerFits'
<1> SUFFICES ASSUME HoldInv, ShapeInv, LedgerFits, [PipelineNext]_everything,
                    [RegistryStep => usage'[User] <= usage[User]]_everything
             PROVE  LedgerFits'
  OBVIOUS
<1>1. LedgerInv
  BY DEF LedgerInv, ShapeInv
<1>2. CASE UNCHANGED everything
  BY <1>2 DEF everything, vars, uploaderVars, pipelineVars, serverVars, LedgerFits, Records,
     Unreported
<1>3. CASE PipelineNext /\ (RegistryStep => usage'[User] <= usage[User])
  <2>1. UploaderShape'
    BY StepShapes DEF ShapeInv
  <2>2. QED
    BY <1>1, <1>3, <2>1, PageKeepsLedger, ServersKeepLedger, ChainKeepsLedger DEF PipelineNext
<1>4. QED
  BY <1>2, <1>3

(* What is charged was stored, as long as only the selected servers record *)
(* files for this user: for any number of servers, files and attempts,     *)
(* operations that fail or arrive late, and servers that stop.             *)
THEOREM UsageIsStoredCorrect ==
  PipelineSpec /\ [][RegistryStep => usage'[User] <= usage[User]]_everything
    => []UsageIsStored
<1>1. PipelineInit => LedgerFits
  <2> SUFFICES ASSUME PipelineInit PROVE LedgerFits
    OBVIOUS
  <2>1. usage[User] = 0 /\ Records = {} /\ Unreported = {} /\ stored = {}
    BY PipelineAssumption DEF PipelineInit, Init, Records, Unreported
  <2>2. FileBytes * 0 = 0
    BY PipelineAssumption, ModAssumption DEF U64
  <2>3. QED
    BY <2>1, <2>2, FS_EmptySet DEF LedgerFits
<1>2. HoldInv /\ ShapeInv /\ LedgerFits => UsageIsStored
  <2> SUFFICES ASSUME HoldInv, ShapeInv, LedgerFits PROVE UsageIsStored
    OBVIOUS
  <2>1. /\ FileBytes * Cardinality(Unreported) \in Nat
        /\ FileBytes * Cardinality(Records) \in Nat
        /\ FileBytes * Cardinality(stored) \in Nat
    BY CountsAreNat, Scaled DEF ShapeInv
  <2>2. usage[User] \in Nat
    BY PipelineAssumption, ModAssumption DEF ShapeInv, UploaderShape, U64
  <2>3. usage[User] + FileBytes * Cardinality(Records) <= FileBytes * Cardinality(stored)
    BY <2>1, <2>2 DEF LedgerFits
  <2>4. QED
    BY <2>3 DEF UsageIsStored, Records
<1>3. QED
  BY <1>1, <1>2, InitHold, StepHold, InitShapes, StepShapes, StepLedger, PTL DEF PipelineSpec
=============================================================================
