---------------------------- MODULE ProviderListing ----------------------------
(***************************************************************************)
(* Listing the providers while they come and go: getStorageProviders of    *)
(* the web client (front/src/contract/storageRegistry.js, shown by         *)
(* StoreFiles.jsx) and the scripts infos.ts and list-providers.ts.         *)
(*                                                                         *)
(* A list is many read-only calls, one after the other.  Each call sees    *)
(* the contract of its own moment, and between two of them providers       *)
(* register, resize and leave.  The reader asks for node_index; the page,  *)
(* when it gets nothing, counts total_nodes and walks the dense list,      *)
(* which swap-with-last removal rearranges under its feet.                 *)
(***************************************************************************)
EXTENDS StorageRegistry

CONSTANTS
  Readers,     \* a subset of {"page", "script"}
  MaxCalls     \* bound of the calls of the contract

VARIABLES
  reader,     \* who is listing
  step,       \* what it does next; "idle" when nobody is listing
  todo,       \* addresses: the list to be visited
  total, at,  \* the count the walk goes by, and its position
  next,       \* position in todo
  gb,         \* the size getNodeInfo gave, until the metadata is there
  rows,       \* the list being built
  lossy,      \* history: a call failed and its answer is missing
  since,      \* history: providers active at every moment of this listing
  seen,       \* history: providers active at some moment of it
  known,      \* history: providers that had a record when it began
  moves,      \* history: departures while the walk was under way
  calls       \* calls of the contract so far

scanVars    == <<reader, step, todo, total, at, next, gb, rows, lossy>>
historyVars == <<since, seen, known, moves>>
listingVars == <<scanVars, historyVars, calls>>
allVars     == <<vars, listingVars>>

Cleared ==
  /\ todo' = <<>> /\ total' = 0 /\ at' = 0 /\ next' = 1
  /\ gb' = 0 /\ rows' = <<>> /\ lossy' = FALSE /\ moves' = 0

ListingInit ==
  /\ Init
  /\ reader = "nobody" /\ step = "idle"
  /\ todo = <<>> /\ total = 0 /\ at = 0 /\ next = 1
  /\ gb = 0 /\ rows = <<>> /\ lossy = FALSE /\ moves = 0 /\ calls = 0
  /\ since = {} /\ seen = {} /\ known = {}

-----------------------------------------------------------------------------
(* The page is opened, or a script is started *)
Open(who) ==
  /\ step = "idle"
  /\ reader' = who /\ step' = "index" /\ Cleared
  /\ since' = Active /\ seen' = Active /\ known' = Registered
  /\ UNCHANGED <<vars, calls>>

(* It is left: `cancelled` is set, and what arrives later is dropped. *)
Close ==
  /\ step # "idle"
  /\ reader' = "nobody" /\ step' = "idle" /\ Cleared
  /\ since' = {} /\ seen' = {} /\ known' = {}
  /\ UNCHANGED <<vars, calls>>

(* With no list at all the page starts to count and the scripts stop. *)
StepAfterIndex(list) ==
  IF list # <<>> THEN "visiting" ELSE IF reader = "page" THEN "counting" ELSE "done"

(* getRegisteredAddressesView; any failure reads as an empty list. *)
ReadIndex ==
  /\ step = "index"
  /\ \/ todo' = nodeIndex /\ UNCHANGED lossy
     \/ todo' = <<>> /\ lossy' = (lossy \/ reader = "script")
  /\ step' = StepAfterIndex(todo')
  /\ UNCHANGED <<vars, reader, total, at, next, gb, rows, historyVars, calls>>

ReadTotal ==
  /\ step = "counting"
  /\ total' = totalNodes /\ step' = "walking"
  /\ UNCHANGED <<vars, reader, todo, at, next, gb, rows, lossy, historyVars, calls>>

(* mutants: the walk starts at the last position; positions count from 1 *)
PositionFromEnd == total - 1 - at
PositionFromOne == at + 1

WalkPosition == at

(* getNodeAddressAt; '' (no such position, or an error) adds nothing. *)
Walk ==
  /\ step = "walking" /\ at < total
  /\ at' = at + 1
  /\ \/ /\ todo' = IF AddressAt(WalkPosition) = NoAddr THEN todo
                   ELSE Append(todo, AddressAt(WalkPosition))
        /\ UNCHANGED lossy
     \/ UNCHANGED todo /\ lossy' = TRUE
  /\ UNCHANGED <<vars, reader, step, total, next, gb, rows, historyVars, calls>>

WalkEnds ==
  /\ step = "walking" /\ at >= total
  /\ step' = "visiting"
  /\ UNCHANGED <<vars, reader, todo, total, at, next, gb, rows, lossy, historyVars, calls>>

(* mutant: inactive providers are listed too *)
KeepsAll(record) == reader = "script" \/ record # NoNode

(* `if (!info || !info.active) continue`; the scripts print every provider. *)
Keeps(record) == reader = "script" \/ (record # NoNode /\ record.active)

(* The scripts print a row for a provider whose record they did not get. *)
Size(record) == IF record = NoNode THEN 0 ELSE record.allocatedGb

(* getNodeInfo, answered or not *)
Visit ==
  /\ step = "visiting" /\ next <= Len(todo)
  /\ \E record \in {node[todo[next]], NoNode} :
       /\ IF Keeps(record) THEN step' = "describing" /\ gb' = Size(record) /\ UNCHANGED next
          ELSE next' = next + 1 /\ UNCHANGED <<step, gb>>
       /\ lossy' = (lossy \/ (reader = "page" /\ record = NoNode))
  /\ UNCHANGED <<vars, reader, todo, total, at, rows, historyVars, calls>>

(* getProviderMetadataView; a failure reads as no metadata. *)
Describe ==
  /\ step = "describing"
  /\ \E meta \in {metadata[todo[next]], NoMetadata} :
       rows' = Append(rows, [address |-> todo[next], gb |-> gb, meta |-> meta])
  /\ gb' = 0 /\ next' = next + 1 /\ step' = "visiting"
  /\ UNCHANGED <<vars, reader, todo, total, at, lossy, historyVars, calls>>

Finish ==
  /\ step = "visiting" /\ next > Len(todo)
  /\ step' = "done"
  /\ UNCHANGED <<vars, reader, todo, total, at, next, gb, rows, lossy, historyVars, calls>>

(* A call of the page that nobody catches: setProviders([]) and an error. *)
Reject ==
  /\ reader = "page" /\ step \in {"counting", "walking", "visiting"}
  /\ step' = "failed" /\ Cleared
  /\ UNCHANGED <<vars, reader, since, seen, known, calls>>

(* A call of the contract, between two reads *)
ContractStep ==
  /\ calls < MaxCalls /\ calls' = calls + 1
  /\ Next
  /\ IF step = "idle" THEN UNCHANGED historyVars
     ELSE /\ since' = since \cap Active' /\ seen' = seen \cup Active'
          /\ moves' = IF step = "walking" THEN moves + Cardinality(Active \ Active')
                      ELSE moves
          /\ UNCHANGED known
  /\ UNCHANGED scanVars

ListingNext ==
  \/ \E who \in Readers : Open(who)
  \/ Close \/ ReadIndex \/ ReadTotal \/ Walk \/ WalkEnds \/ Visit \/ Describe
  \/ Finish \/ Reject
  \/ ContractStep

ListingSpec == ListingInit /\ [][ListingNext]_allVars

-----------------------------------------------------------------------------
(* Choosing where to store (StoreFiles.jsx) *)

(* The page's own filter: not blocked, has an endpoint, offers something *)
Eligible(blocked) ==
  {i \in DOMAIN rows : /\ rows[i].address \notin blocked
                       /\ rows[i].meta # NoMetadata
                       /\ rows[i].gb > 0}

(* mutant: the smallest providers come first *)
SmallestFirst(i, j) ==
  \/ rows[i].gb < rows[j].gb
  \/ rows[i].gb = rows[j].gb /\ i < j

(* Array.sort by size, largest first, puts row i before row j; it is stable. *)
LargestFirst(i, j) ==
  \/ rows[i].gb > rows[j].gb
  \/ rows[i].gb = rows[j].gb /\ i < j

(* The sorted array up to its position replicationCount *)
AutoSelected(blocked, replicationCount) ==
  LET eligible   == Eligible(blocked)
      Earlier(j) == {i \in eligible : LargestFirst(i, j)}
  IN  {rows[j].address : j \in {i \in eligible : Cardinality(Earlier(i)) < replicationCount}}

-----------------------------------------------------------------------------
Listed == {rows[i].address : i \in DOMAIN rows}

Complete(who) == reader = who /\ step = "done" /\ ~lossy

(* No provider is listed twice, and so none is counted twice in the        *)
(* capacity the page shows nor chosen twice for one file, although the     *)
(* dense list is rearranged while it is walked (storageRegistry.js:277,    *)
(* unregisterStorageNode).                                                 *)
ListedOnce ==
  \A i, j \in DOMAIN rows : rows[i].address = rows[j].address => i = j

(* The page offers nobody who had left before it began to look:            *)
(* node_index, which it reads first, never forgets anyone.                 *)
NobodyDepartedListed == reader = "page" => Listed \subseteq seen

(* Who is there all the time is listed, if every call is answered; only    *)
(* the walk over the dense list can miss such a provider, and at most one  *)
(* for each provider that left during the walk.                            *)
MissesBounded ==
  Complete("page") => Cardinality(since \ Listed) <= moves

(* The scripts print each provider that had a record when they began,      *)
(* departed or not, and no calls that fail later hide one.                 *)
ScriptListsAll == Complete("script") => known \subseteq Listed

(* Whatever is blocked and however many copies are wanted, the page        *)
(* chooses listed providers that are not blocked, have an endpoint and     *)
(* offer something, as many as wanted or all there are, and never a        *)
(* smaller one before a larger one.                                        *)
SelectionRight ==
  step = "done" /\ reader = "page" =>
    \A blocked \in SUBSET Providers, k \in 1 .. Cardinality(Providers) :
      LET ok     == {i \in DOMAIN rows : /\ rows[i].address \notin blocked
                                         /\ rows[i].meta # NoMetadata
                                         /\ rows[i].gb > 0}
          chosen == {i \in DOMAIN rows : rows[i].address \in AutoSelected(blocked, k)}
      IN  /\ chosen \subseteq ok
          /\ chosen = ok \/ Cardinality(chosen) = k
          /\ \A i \in chosen, j \in ok \ chosen : rows[i].gb >= rows[j].gb
=============================================================================
