------------------------------ MODULE ScanMemory ------------------------------
(***************************************************************************)
(* Client.ScanMemory and scanBuffer (internal/ceserver/client.go): the     *)
(* portable scanner.  It lists the target's regions, reads each of them in *)
(* chunks, carries the end of a chunk over to the next one, and stops at   *)
(* the limit.  A read that fails makes it go on with the next region, on   *)
(* the same connection.                                                    *)
(*                                                                         *)
(* A scan that is cancelled, or that cannot open the process or get its    *)
(* regions, returns an error and no matches, whatever it had found; it is  *)
(* not followed here, since a caller is given nothing to be right or wrong *)
(* about.                                                                  *)
(***************************************************************************)
EXTENDS ScanReference

CONSTANTS
  ChunkSize,    \* 1 << 20 in the code
  Requests,     \* scans to be asked for
  RegionLists   \* answers to the region query

ASSUME ChunkSizeAssumption == ChunkSize \in Nat \ {0}
ASSUME RequestsAssumption == \A q \in Requests : IsRequest(q)
ASSUME RegionListsAssumption == RegionLists \subseteq Seq(Region)
(* The server lists the lines of /proc/<pid>/smaps in their order, which is *)
(* that of the addresses, and the mappings of a process do not overlap.     *)
ASSUME RegionOrderAssumption ==
  \A L \in RegionLists : \A r, s \in DOMAIN L : r < s => L[r].base + L[r].size <= L[s].base

VARIABLES
  memory,         \* the target's memory, which does not change meanwhile
  request,
  regions,
  pc,             \* "region", "read" or "done"
  region,         \* the region being scanned
  reached,        \* per region: address, where the next chunk begins
  tail,           \* the bytes carried over
  nextCandidate,
  matches,        \* appended in the order of addresses, kept here as a set
  stream,         \* answers sent that the client has not read
  link,           \* "up", "garbled": the client stands in the middle of an
                  \* answer, or "lost"
  late            \* history: an answer came after the network deadline

inputs == <<memory, request, regions>>
vars == <<inputs, pc, region, reached, tail, nextCandidate, matches, stream, link, late>>

Init ==
  /\ memory \in Memories
  /\ request \in Requests
  /\ regions \in RegionLists
  /\ pc = IF regions = <<>> THEN "done" ELSE "region"
  /\ region = 1
  /\ reached = [r \in DOMAIN regions |-> 0]
  /\ tail = <<>>
  /\ nextCandidate = 0
  /\ matches = {}
  /\ stream = <<>>
  /\ link = "up"
  /\ late = FALSE

-----------------------------------------------------------------------------
Start == RegionStart(regions[region], request)
End == RegionEnd(regions[region], request)
Address == reached[region]
Length == Len(request.pattern)
Requested == SmallerOf(ChunkSize, End - Address)

(* Mutant: the same region is taken up again.                               *)
LeaveStays ==
  /\ region' = region
  /\ pc' = IF region <= Len(regions) THEN "region" ELSE "done"

(* Go on with the next region, if there is one.                             *)
Leave ==
  /\ region' = region + 1
  /\ pc' = IF region < Len(regions) THEN "region" ELSE "done"

(* A region of another protection, outside the range, or shorter than the   *)
(* pattern.                                                                 *)
SkipRegion ==
  /\ pc = "region"
  /\ ~IsScanned(regions[region], request)
  /\ Leave
  /\ UNCHANGED <<inputs, reached, tail, nextCandidate, matches, stream, link, late>>

EnterRegion ==
  /\ pc = "region"
  /\ IsScanned(regions[region], request)
  /\ pc' = "read"
  /\ reached' = [reached EXCEPT ![region] = Start]
  /\ tail' = <<>>
  /\ nextCandidate' = Start
  /\ UNCHANGED <<inputs, region, matches, stream, link, late>>

-----------------------------------------------------------------------------
(* The server's answer: n bytes from the address on, fewer than were asked  *)
(* for where it cannot read on.                                             *)
BytesAt(a, n) == [i \in 1 .. n |-> memory[a + i - 1]]

(* The answers the client would find, the one to this request the last.     *)
Unread(n) == Append(stream, BytesAt(Address, n))

(* Mutant: the alignment counts from the buffer, not from the scan's start. *)
ScanBufferMisaligned(buffer, base) ==
  Lowest({a \in base .. base + Len(buffer) - Length :
            /\ a >= nextCandidate
            /\ (a - base) % request.alignment = 0
            /\ Fits(buffer, request.pattern, a - base + 1)},
         request.limit - Cardinality(matches))

(* Mutant: one match too many.                                              *)
ScanBufferOverruns(buffer, base) ==
  Lowest({a \in base .. base + Len(buffer) - Length :
            /\ a >= nextCandidate
            /\ Aligned(a, request)
            /\ Fits(buffer, request.pattern, a - base + 1)},
         request.limit - Cardinality(matches) + 1)

(* scanBuffer: the new matches, up to the limit.                            *)
ScanBuffer(buffer, base) ==
  Lowest({a \in base .. base + Len(buffer) - Length :
            /\ a >= nextCandidate
            /\ Aligned(a, request)
            /\ Fits(buffer, request.pattern, a - base + 1)},
         request.limit - Cardinality(matches))

(* Mutant: one byte fewer is carried over.                                  *)
TailShort(buffer) ==
  LET n == SmallerOf(Length - 1, Len(buffer)) - 1 IN
  IF n <= 0 THEN <<>> ELSE SubSeq(buffer, Len(buffer) - n + 1, Len(buffer))

(* The bytes a match may begin with that ends in the next chunk.            *)
TailOf(buffer) ==
  LET n == SmallerOf(Length - 1, Len(buffer))
  IN SubSeq(buffer, Len(buffer) - n + 1, Len(buffer))

(* Mutant: addresses are counted from the chunk, though the buffer begins   *)
(* with the tail.                                                           *)
ScanFromChunk(data) ==
  LET buffer == tail \o data IN
  /\ matches' = matches \cup ScanBuffer(buffer, Address)
  /\ nextCandidate' = IF Len(buffer) >= Length THEN Address + Len(buffer) - Length + 1
                      ELSE nextCandidate
  /\ tail' = TailOf(buffer)
  /\ reached' = [reached EXCEPT ![region] = @ + Len(data)]

(* One pass of the inner loop over the chunk that was read.                 *)
Scan(data) ==
  LET buffer == tail \o data
      base == Address - Len(tail)
  IN
  /\ matches' = matches \cup ScanBuffer(buffer, base)
  /\ nextCandidate' = IF Len(buffer) >= Length THEN base + Len(buffer) - Length + 1
                      ELSE nextCandidate
  /\ tail' = TailOf(buffer)
  /\ reached' = [reached EXCEPT ![region] = @ + Len(data)]

(* After a chunk: done at the limit, else on to the next chunk, or to the   *)
(* next region after a short read or at the region's end.                   *)
Continue(data) ==
  \/ /\ Cardinality(matches') >= request.limit
     /\ pc' = "done" /\ UNCHANGED region
  \/ /\ Cardinality(matches') < request.limit
     /\ Len(data) = Requested /\ Address + Len(data) < End
     /\ UNCHANGED <<pc, region>>
  \/ /\ Cardinality(matches') < request.limit
     /\ Len(data) < Requested \/ Address + Len(data) >= End
     /\ Leave

(* readMemoryWithHandle succeeds with what stands first in the stream.      *)
ReadChunk(n) ==
  LET data == Head(Unread(n)) IN
  /\ pc = "read" /\ link = "up"
  /\ data # <<>> /\ Len(data) <= Requested
  /\ Scan(data)
  /\ Continue(data)
  /\ stream' = Tail(Unread(n))
  /\ UNCHANGED <<inputs, link, late>>

(* The server could read nothing.                                           *)
ReadNothing(n) ==
  /\ pc = "read" /\ link = "up"
  /\ Head(Unread(n)) = <<>>
  /\ Leave
  /\ stream' = Tail(Unread(n))
  /\ UNCHANGED <<inputs, reached, tail, nextCandidate, matches, link, late>>

(* The answer comes after the deadline and stays in the stream.             *)
ReadTimesOut(n) ==
  /\ pc = "read" /\ link = "up"
  /\ stream' = Unread(n)
  /\ late' = TRUE
  /\ Leave
  /\ UNCHANGED <<inputs, reached, tail, nextCandidate, matches, link>>

(* "invalid byte count": a longer answer than was asked for.  Its bytes     *)
(* stay in the stream, where the next reads take them for answers.          *)
ReadRefused(n) ==
  /\ pc = "read" /\ link = "up"
  /\ Len(Head(Unread(n))) > Requested
  /\ link' = "garbled"
  /\ stream' = <<>>
  /\ Leave
  /\ UNCHANGED <<inputs, reached, tail, nextCandidate, matches, late>>

(* The connection breaks.                                                   *)
ReadLost ==
  /\ pc = "read" /\ link = "up"
  /\ link' = "lost"
  /\ stream' = <<>>
  /\ Leave
  /\ UNCHANGED <<inputs, reached, tail, nextCandidate, matches, late>>

(* What is left of an answer may look like an answer of any bytes ...       *)
ReadGarbled(data) ==
  /\ pc = "read" /\ link = "garbled"
  /\ Scan(data)
  /\ Continue(data)
  /\ UNCHANGED <<inputs, stream, link, late>>

(* ... or a read fails, as each one does once the connection is lost.       *)
ReadFails ==
  /\ pc = "read" /\ link # "up"
  /\ Leave
  /\ UNCHANGED <<inputs, reached, tail, nextCandidate, matches, stream, link, late>>

Read(n) == ReadChunk(n) \/ ReadNothing(n) \/ ReadTimesOut(n) \/ ReadRefused(n)

Step ==
  \/ SkipRegion \/ EnterRegion \/ ReadLost \/ ReadFails
  \/ pc = "read" /\ \E n \in 0 .. Requested :
       Read(n) \/ \E data \in [1 .. n -> Bytes] : data # <<>> /\ ReadGarbled(data)

Finished == pc = "done" /\ UNCHANGED vars

Next == Step \/ Finished

Spec == Init /\ [][Next]_vars

(* The scan goes on as long as every read is answered or times out.         *)
FairSpec == Spec /\ WF_vars(Step)

-----------------------------------------------------------------------------
TypeOK ==
  /\ memory \in Memories
  /\ request \in Requests
  /\ regions \in RegionLists
  /\ pc \in {"region", "read", "done"}
  /\ region \in 1 .. Len(regions) + 1
  /\ pc # "done" => region \in DOMAIN regions
  /\ reached \in [DOMAIN regions -> 0 .. MaxAddress]
  /\ tail \in Seq(Bytes) /\ Len(tail) < Length
  /\ nextCandidate \in 0 .. MaxAddress
  /\ matches \subseteq Addresses
  /\ Cardinality(matches) <= request.limit
  /\ stream \in Seq(Seq(Bytes))
  /\ link \in {"up", "garbled", "lost"}
  /\ late \in BOOLEAN

(* The memory of the target really holds the pattern at every address the   *)
(* scan reports, across chunk boundaries too.                               *)
MatchesAreReal == \A a \in matches : HoldsAt(memory, request.pattern, a)

(* Every reported address is aligned and the pattern lies inside a region   *)
(* that was to be scanned, even when late answers put the reads out of step.*)
MatchesInBounds ==
  \A a \in matches :
    /\ Aligned(a, request)
    /\ \E r \in DOMAIN regions :
         /\ IsScanned(regions[r], request)
         /\ RegionStart(regions[r], request) <= a
         /\ a + Length <= RegionEnd(regions[r], request)

(* Nothing is missed in what was read, unless an answer came too late: a    *)
(* match that is not reported comes after as many as were asked for.        *)
NothingMissed ==
  ~late => \A r \in DOMAIN regions :
    IsScanned(regions[r], request) =>
      \A a \in MatchesBelow(memory, regions[r], request, reached[r]) :
        \/ a \in matches
        \/ Cardinality(matches) = request.limit /\ \A m \in matches : m < a

Abstract ==
  INSTANCE ExactScan WITH
    whole <- {r \in DOMAIN regions : reached[r] >= RegionEnd(regions[r], request)},
    found <- matches,
    disturbed <- late,
    ended <- pc = "done"

(* Until an answer comes too late, the portable scanner is an exact scan,   *)
(* as the scanner inside the server is: the two find the same matches in    *)
(* the same memory.                                                         *)
IsExactScan == Abstract!Spec

(* The scan ends.                                                           *)
ScanEnds == <>(pc = "done")
=============================================================================
