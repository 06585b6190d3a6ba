-------------------------------- MODULE AobScan --------------------------------
(***************************************************************************)
(* AOBScan (ceserver/native-api.c): the scanner inside the server.  It     *)
(* walks the address space with VirtualQueryEx and reads each region in    *)
(* overlapping pieces.  Addresses are uint64_t and wrap.                   *)
(***************************************************************************)
EXTENDS ScanReference

CONSTANTS
  ChunkSize,   \* 1024 * 1024 in the code
  PageSize,    \* 4096 in the code
  Requests,    \* scans to be asked for; limit is MAX_HIT_COUNT
  MapLists,    \* contents of /proc/<pid>/maps
  BadSets      \* sets of addresses that cannot be read

ASSUME SizesAssumption == ChunkSize \in 1 .. MaxAddress /\ PageSize \in 1 .. MaxAddress
ASSUME RequestsAssumption == \A q \in Requests : IsRequest(q) /\ q.noAccess \in BOOLEAN
ASSUME MapListsAssumption == MapLists \subseteq Seq(Region)
(* The kernel maps whole pages, and lists the mappings of a process in the  *)
(* order of their addresses; they do not overlap.                           *)
ASSUME MappingsAssumption ==
  \A L \in MapLists : \A i \in DOMAIN L :
    /\ L[i].base % PageSize = 0 /\ (L[i].base + L[i].size) % PageSize = 0
    /\ \A j \in DOMAIN L : i < j => L[i].base + L[i].size <= L[j].base
ASSUME BadSetsAssumption == BadSets \subseteq SUBSET Addresses

VARIABLES
  memory,       \* the target's memory, which does not change meanwhile
  bad,          \* the addresses that cannot be read
  request,
  maps,         \* the mappings, in the order of their addresses
  exited,       \* the target has exited
  pc,           \* "query", "read" or "done"
  cursor,
  rinfo,        \* what VirtualQueryEx returned last
  address,
  resultCount,
  matches       \* match_addr[0 .. resultCount - 1]

inputs == <<memory, bad, request, maps>>
vars == <<inputs, exited, pc, cursor, rinfo, address, resultCount, matches>>

NoRegion == [base |-> 0, size |-> 0, wanted |-> FALSE]

(* The arguments were tested and the buffer allocated: otherwise the scan   *)
(* returns 0 at once.                                                       *)
Init ==
  /\ memory \in Memories
  /\ bad \in BadSets
  /\ request \in Requests
  /\ maps \in MapLists
  /\ exited = FALSE
  /\ pc = "query"
  /\ cursor = request.start
  /\ rinfo = NoRegion
  /\ address = 0
  /\ resultCount = 0
  /\ matches = {}

-----------------------------------------------------------------------------
(* Mutant: the number grows on.                                             *)
WrapMissing(n) == n

(* uint64_t                                                                 *)
Wrap(n) == n % (MaxAddress + 1)

Stop(m) == m.base + m.size
PageOf(a) == a - (a % PageSize)

(* VirtualQueryEx: the mapping that holds the page of the cursor, from that *)
(* page on, or the gap before the next mapping.                             *)
Ahead == {i \in DOMAIN maps : Stop(maps[i]) > PageOf(cursor)}
NextMapping == maps[CHOOSE i \in Ahead : \A j \in Ahead : i <= j]

RegionAtCursor ==
  LET m == NextMapping
      base == PageOf(cursor)
  IN IF base >= m.base
     THEN [base |-> base, size |-> Stop(m) - base, wanted |-> m.wanted]
     ELSE [base |-> base, size |-> m.base - base, wanted |-> request.noAccess]

(* regionStart and regionEnd                                                *)
Low(r) == LargerOf(r.base, cursor)
High(r) == RegionEnd(r, request)

(* The outer loop goes on at an address, or ends.                           *)
MoveTo(next) ==
  /\ cursor' = next
  /\ pc' = IF next < request.end THEN "query" ELSE "done"

(* One page on; past the last address the loop breaks.                      *)
NextPage ==
  LET next == Wrap(cursor + PageSize) IN
  IF next <= cursor THEN pc' = "done" /\ UNCHANGED cursor ELSE MoveTo(next)

(* Mutant: the cursor is set to the region, not behind it.                  *)
AdvanceToRegion(r) == MoveTo(Low(r))

(* Behind the region, or one page on if it does not reach further.          *)
Advance(r) == IF High(r) <= cursor THEN NextPage ELSE MoveTo(High(r))

(* No mapping lies ahead, or the maps cannot be opened any more.            *)
QueryFails ==
  /\ pc = "query"
  /\ exited \/ Ahead = {}
  /\ NextPage
  /\ UNCHANGED <<inputs, exited, rinfo, address, resultCount, matches>>

InReach(r) == r.wanted /\ High(r) > Low(r) /\ High(r) - Low(r) >= Len(request.pattern)

SkipRegion ==
  LET r == RegionAtCursor IN
  /\ pc = "query"
  /\ ~exited /\ Ahead # {}
  /\ ~InReach(r)
  /\ rinfo' = r
  /\ Advance(r)
  /\ UNCHANGED <<inputs, exited, address, resultCount, matches>>

EnterRegion ==
  LET r == RegionAtCursor IN
  /\ pc = "query"
  /\ ~exited /\ Ahead # {}
  /\ InReach(r)
  /\ rinfo' = r
  /\ address' = Low(r)
  /\ pc' = "read"
  /\ UNCHANGED <<inputs, exited, cursor, resultCount, matches>>

-----------------------------------------------------------------------------
(* ReadProcessMemory, by process_vm_readv: it reads up to the first byte it *)
(* cannot read, and refuses the address 0.  The slower ways it has, through *)
(* the debugger or a file of /proc, are taken only without that call.       *)
Mapped(a) == \E i \in DOMAIN maps : maps[i].base <= a /\ a < Stop(maps[i])
Unreadable(a) == a \in bad \/ ~Mapped(a)
BytesRead(size) ==
  IF exited \/ address = 0 THEN 0
  ELSE CHOOSE n \in 0 .. size :
         /\ \A a \in address .. address + n - 1 : ~Unreadable(a)
         /\ n = size \/ Unreadable(address + n)

(* Mutant: the read does not reach into the next chunk.                     *)
RequestedWithoutOverlap == SmallerOf(ChunkSize, High(rinfo) - address)

(* A chunk, and what a match that begins at its end may take of the next.   *)
Requested == SmallerOf(ChunkSize + Len(request.pattern) - 1, High(rinfo) - address)

CandidateCount(bytesRead) == SmallerOf(bytesRead - Len(request.pattern) + 1, ChunkSize)

(* The matches in the buffer, in the order of their addresses.              *)
Hits(bytesRead) ==
  {a \in address .. address + CandidateCount(bytesRead) - 1 :
     Aligned(a, request) /\ HoldsAt(memory, request.pattern, a)}

(* Mutant: one byte back, as if the chunk had to overlap as well.           *)
NextAddressBack == Wrap(address + ChunkSize - 1)

NextAddress == Wrap(address + ChunkSize)

(* One pass of the inner loop: the scan returns at the limit, goes on with  *)
(* the next chunk, or leaves the region.                                    *)
ReadChunk ==
  LET new == Lowest(Hits(BytesRead(Requested)), request.limit - resultCount) IN
  /\ pc = "read"
  /\ matches' = matches \cup new
  /\ resultCount' = resultCount + Cardinality(new)
  /\ \/ /\ new # {} /\ resultCount' >= request.limit
        /\ pc' = "done"
        /\ UNCHANGED <<cursor, address>>
     \/ /\ resultCount' < request.limit
        /\ NextAddress > address /\ NextAddress < High(rinfo)
        /\ address' = NextAddress
        /\ UNCHANGED <<pc, cursor>>
     \/ /\ resultCount' < request.limit
        /\ NextAddress <= address \/ NextAddress >= High(rinfo)
        /\ Advance(rinfo)
        /\ UNCHANGED address
  /\ UNCHANGED <<inputs, exited, rinfo>>

(* The target exits: nothing of it can be queried or read any more.         *)
Exit ==
  /\ ~exited
  /\ pc # "done"
  /\ exited' = TRUE
  /\ UNCHANGED <<inputs, pc, cursor, rinfo, address, resultCount, matches>>

Step == QueryFails \/ SkipRegion \/ EnterRegion \/ ReadChunk

Finished == pc = "done" /\ UNCHANGED vars

Next == Step \/ Exit \/ Finished

Spec == Init /\ [][Next]_vars

(* The server's thread for the connection runs on.                          *)
FairSpec == Spec /\ WF_vars(Step)

-----------------------------------------------------------------------------
TypeOK ==
  /\ memory \in Memories /\ bad \in BadSets /\ request \in Requests /\ maps \in MapLists
  /\ exited \in BOOLEAN
  /\ pc \in {"query", "read", "done"}
  /\ cursor \in 0 .. MaxAddress /\ address \in 0 .. MaxAddress
  /\ rinfo \in [base : Nat, size : Nat, wanted : BOOLEAN]
  /\ resultCount \in 0 .. request.limit
  /\ matches \subseteq Addresses

(* No address is reported twice, though the pieces that are read overlap:   *)
(* the count the client reads is the number of addresses.                   *)
ReportedOnce == resultCount = Cardinality(matches)

(* A mapping with no byte that cannot be read, of a target that is there.   *)
Whole(m) == ~exited /\ m.base # 0 /\ \A a \in m.base .. Stop(m) - 1 : a \notin bad

Abstract ==
  INSTANCE ExactScan WITH
    regions <- maps,
    whole <- {i \in DOMAIN maps : Whole(maps[i])},
    found <- matches,
    disturbed <- FALSE,
    ended <- pc = "done"

(* The scanner inside the server is an exact scan: it reports nothing but   *)
(* matches, with short reads and after the target's exit too, and ends with *)
(* every match of the mappings it could read, at chunk ends and up to the   *)
(* largest address.                                                         *)
IsExactScan == Abstract!Spec

(* The scan ends.                                                           *)
ScanEnds == <>(pc = "done")
=============================================================================
