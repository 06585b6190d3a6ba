----------------------------- MODULE AobScanProofs -----------------------------
(***************************************************************************)
(* Proofs about AobScan, for every memory, request, list of mappings, set  *)
(* of unreadable addresses, page and chunk size.                           *)
(***************************************************************************)
EXTENDS AobScan, ScanReferenceProofs, SequenceTheorems

MatchesIn(i) == MatchesOf(memory, maps[i], request)

(* A region is the rest of a mapping or lies between the mappings.          *)
Covers(r) ==
  \/ \E i \in DOMAIN maps :
       /\ r.wanted = maps[i].wanted
       /\ maps[i].base <= r.base /\ r.base + r.size = Stop(maps[i])
  \/ \A a \in r.base .. r.base + r.size - 1 : ~Mapped(a)

(* Where the scan has come to.                                              *)
Place == IF pc = "read" THEN address ELSE cursor

CountInv == ReportedOnce /\ (pc # "done" => resultCount < request.limit)

CursorInv == request.start <= cursor /\ (pc # "done" => cursor < request.end)

ReadInv ==
  pc = "read" =>
    /\ rinfo.base <= cursor /\ cursor <= address /\ address < High(rinfo)
    /\ rinfo.wanted /\ Covers(rinfo)

(* What was found are matches, behind the place the scan has come to.       *)
RealInv ==
  \A m \in matches : /\ \E i \in DOMAIN maps : m \in MatchesIn(i)
                     /\ pc # "done" => m < Place

(* Behind that place nothing is missing of the mappings that can be read.   *)
CompleteInv ==
  ~exited /\ resultCount < request.limit =>
    \A i \in DOMAIN maps : Whole(maps[i]) =>
      \A a \in MatchesIn(i) : pc = "done" \/ a < Place => a \in matches

IInv == TypeOK /\ CountInv /\ CursorInv /\ ReadInv /\ RealInv /\ CompleteInv

Regions == [base : Nat, size : Nat, wanted : BOOLEAN]
L == Len(request.pattern)
-----------------------------------------------------------------------------
(* What is asked for, and what the mappings are.                            *)
LEMMA Sizes ==
  ASSUME TypeOK
  PROVE  /\ request.start \in Nat /\ request.end \in 1 .. MaxAddress /\ request.start < request.end
         /\ request.limit \in Nat \ {0} /\ request.noAccess \in BOOLEAN
         /\ L \in Nat \ {0}
         /\ DOMAIN maps = 1 .. Len(maps) /\ Len(maps) \in Nat
         /\ \A i \in DOMAIN maps :
              /\ maps[i].base \in Nat /\ maps[i].size \in Nat /\ maps[i].wanted \in BOOLEAN
              /\ Stop(maps[i]) \in Nat
              /\ maps[i].base % PageSize = 0 /\ Stop(maps[i]) % PageSize = 0
              /\ \A j \in DOMAIN maps : i < j => Stop(maps[i]) <= maps[j].base
<1>1. IsRequest(request) /\ request.noAccess \in BOOLEAN
  BY RequestsAssumption DEF TypeOK
<1>2. L \in Nat \ {0}
  BY <1>1, EmptySeq DEF IsRequest, L
<1>3. maps \in Seq(Region)
  BY MapListsAssumption DEF TypeOK
<1>4. DOMAIN maps = 1 .. Len(maps) /\ Len(maps) \in Nat
  BY <1>3, LenProperties
<1>5. ASSUME NEW i \in DOMAIN maps
      PROVE  /\ maps[i].base \in Nat /\ maps[i].size \in Nat /\ maps[i].wanted \in BOOLEAN
             /\ Stop(maps[i]) \in Nat
  <2>1. maps[i] \in Region
    BY <1>3, ElementOfSeq
  <2> QED
    BY <2>1, MaxAddressAssumption DEF Region, Addresses, Stop
<1>6. \A i \in DOMAIN maps :
        /\ maps[i].base % PageSize = 0 /\ Stop(maps[i]) % PageSize = 0
        /\ \A j \in DOMAIN maps : i < j => Stop(maps[i]) <= maps[j].base
  BY MappingsAssumption DEF TypeOK, Stop
<1> QED
  BY <1>1, <1>2, <1>4, <1>5, <1>6 DEF IsRequest

(* Where a region ends for the scan.                                        *)
LEMMA Ends ==
  ASSUME TypeOK, NEW r, r.base \in Nat, r.size \in Nat
  PROVE  /\ High(r) \in 0 .. MaxAddress
         /\ High(r) <= r.base + r.size /\ High(r) <= request.end
         /\ \A x \in Nat : x < r.base + r.size /\ x < request.end => x < High(r)
<1>1. request.end \in 1 .. MaxAddress
  BY Sizes
<1> QED
  BY <1>1, MaxAddressAssumption DEF High, RegionEnd, SaturatingAdd, SmallerOf

(* What a match of a mapping is.                                            *)
LEMMA MatchFacts ==
  ASSUME TypeOK, NEW i \in DOMAIN maps, NEW a
  PROVE  a \in MatchesIn(i) <=>
           /\ a \in Nat
           /\ maps[i].wanted /\ maps[i].base <= a /\ request.start <= a
           /\ a + L <= High(maps[i])
           /\ Aligned(a, request) /\ HoldsAt(memory, request.pattern, a)
<1>1. /\ request.start \in Nat /\ L \in Nat \ {0}
      /\ maps[i].base \in Nat /\ maps[i].size \in Nat
  BY Sizes
<1>2. High(maps[i]) \in 0 .. MaxAddress
  BY <1>1, Ends
<1>3. /\ RegionStart(maps[i], request) \in Nat
      /\ \A x \in Nat :
           RegionStart(maps[i], request) <= x <=> maps[i].base <= x /\ request.start <= x
  BY <1>1 DEF RegionStart, LargerOf
<1>4. a \in MatchesIn(i) <=>
        /\ IsScanned(maps[i], request)
        /\ a \in Addresses
        /\ RegionStart(maps[i], request) <= a
        /\ a + L <= High(maps[i])
        /\ Aligned(a, request) /\ HoldsAt(memory, request.pattern, a)
  BY DEF MatchesIn, MatchesOf, MatchesBelow, High, L
<1>5. ASSUME a \in Nat, RegionStart(maps[i], request) <= a, a + L <= High(maps[i])
      PROVE  a \in Addresses /\ (IsScanned(maps[i], request) <=> maps[i].wanted)
  <2>1. a \in Addresses
    BY <1>1, <1>2, <1>5, MaxAddressAssumption DEF Addresses
  <2>2. /\ High(maps[i]) > RegionStart(maps[i], request)
        /\ High(maps[i]) - RegionStart(maps[i], request) >= L
    BY <1>1, <1>2, <1>3, <1>5, MaxAddressAssumption
  <2> QED
    BY <2>1, <2>2 DEF IsScanned, High, L
<1>6. a \in Addresses => a \in Nat
  BY MaxAddressAssumption DEF Addresses
<1>7. IsScanned(maps[i], request) => maps[i].wanted
  BY DEF IsScanned
<1> QED
  BY <1>3, <1>4, <1>5, <1>6, <1>7

(* A match that begins in a region is a match of the mapping the region is  *)
(* the rest of, and ends in the region.                                     *)
LEMMA InRegion ==
  ASSUME TypeOK, NEW r \in Regions, Covers(r), NEW j \in DOMAIN maps, NEW a \in MatchesIn(j),
         r.base <= a, a < High(r)
  PROVE  /\ r.wanted /\ High(r) = High(maps[j])
         /\ maps[j].base <= r.base
<1>1. r.base \in Nat /\ r.size \in Nat
  BY DEF Regions
<1>2. /\ a \in Nat /\ maps[j].wanted /\ maps[j].base <= a /\ a + L <= High(maps[j])
      /\ L \in Nat \ {0}
  BY MatchFacts, Sizes
<1>3. maps[j].base \in Nat /\ maps[j].size \in Nat /\ Stop(maps[j]) = maps[j].base + maps[j].size
  BY Sizes DEF Stop
<1>4. High(maps[j]) <= Stop(maps[j]) /\ High(maps[j]) \in Nat
  BY <1>3, Ends, MaxAddressAssumption
<1>5. High(r) <= r.base + r.size /\ High(r) \in Nat
  BY <1>1, Ends, MaxAddressAssumption
<1>6. Mapped(a)
  BY <1>2, <1>3, <1>4 DEF Mapped
<1>7. a \in r.base .. r.base + r.size - 1
  BY <1>1, <1>2, <1>5
<1>8. PICK i \in DOMAIN maps :
        /\ r.wanted = maps[i].wanted
        /\ maps[i].base <= r.base /\ r.base + r.size = Stop(maps[i])
  BY <1>6, <1>7 DEF Covers
<1>9. i = j
  <2>1. i \in Nat /\ j \in Nat
    BY Sizes
  <2>2. ASSUME i < j PROVE FALSE
    <3>1. Stop(maps[i]) <= maps[j].base /\ Stop(maps[i]) \in Nat
      BY <2>2, Sizes
    <3> QED
      BY <1>1, <1>2, <1>3, <1>5, <1>8, <3>1
  <2>3. ASSUME j < i PROVE FALSE
    <3>1. Stop(maps[j]) <= maps[i].base /\ Stop(maps[j]) \in Nat /\ maps[i].base \in Nat
      BY <2>3, Sizes
    <3> QED
      BY <1>1, <1>2, <1>4, <1>8, <3>1
  <2> QED
    BY <2>1, <2>2, <2>3
<1>10. High(r) = High(maps[j])
  BY <1>8, <1>9 DEF High, RegionEnd, SaturatingAdd, Stop
<1> QED
  BY <1>2, <1>8, <1>9, <1>10

(* The page of the cursor.                                                  *)
LEMMA CursorPage ==
  ASSUME TypeOK
  PROVE  /\ PageOf(cursor) \in Nat /\ PageOf(cursor) <= cursor
         /\ \A x \in Nat : x % PageSize = 0 /\ x > PageOf(cursor) => x > cursor
<1>1. cursor \in Nat /\ PageSize \in Nat \ {0}
  BY SizesAssumption, MaxAddressAssumption DEF TypeOK
<1>2. 0 % PageSize = 0
  BY <1>1
<1> QED
  BY <1>1, <1>2, Pages DEF PageOf

(* VirtualQueryEx describes the address space at the cursor, and what it    *)
(* describes reaches past the cursor.                                       *)
LEMMA AtCursor ==
  ASSUME TypeOK, cursor < request.end, Ahead # {}
  PROVE  LET r == RegionAtCursor
         IN /\ r \in Regions /\ r.base <= cursor /\ Low(r) = cursor
            /\ cursor < High(r) /\ Covers(r)
<1> DEFINE base == PageOf(cursor)
           r == RegionAtCursor
<1>0. cursor \in Nat
  BY MaxAddressAssumption DEF TypeOK
<1>1. base \in Nat /\ base <= cursor
  BY CursorPage
<1>2. \A x \in Nat : x % PageSize = 0 /\ x > base => x > cursor
  BY CursorPage
<1>3. Ahead \subseteq Int /\ IsFiniteSet(Ahead)
  <2>1. Ahead \subseteq 1 .. Len(maps) /\ Len(maps) \in Nat
    BY Sizes DEF Ahead
  <2>2. IsFiniteSet(1 .. Len(maps))
    BY <2>1, FS_Interval
  <2>3. IsFiniteSet(Ahead)
    BY <2>1, <2>2, FS_Subset
  <2>4. Ahead \subseteq Int
    BY <2>1
  <2> QED
    BY <2>3, <2>4
<1>4. \E i \in Ahead : \A j \in Ahead : i <= j
  BY <1>3, Smallest
<1>5. PICK i \in Ahead : NextMapping = maps[i] /\ \A j \in Ahead : i <= j
  <2> DEFINE c == CHOOSE i \in Ahead : \A j \in Ahead : i <= j
  <2>1. c \in Ahead /\ \A j \in Ahead : c <= j
    BY <1>4
  <2> QED
    BY <2>1 DEF NextMapping
<1>6. /\ i \in DOMAIN maps /\ Stop(maps[i]) > base
      /\ maps[i].base \in Nat /\ maps[i].size \in Nat /\ maps[i].wanted \in BOOLEAN
      /\ Stop(maps[i]) \in Nat /\ Stop(maps[i]) % PageSize = 0 /\ maps[i].base % PageSize = 0
  BY Sizes DEF Ahead
<1> HIDE DEF base
<1>7. r = IF base >= maps[i].base
          THEN [base |-> base, size |-> Stop(maps[i]) - base, wanted |-> maps[i].wanted]
          ELSE [base |-> base, size |-> maps[i].base - base, wanted |-> request.noAccess]
  BY <1>5 DEF RegionAtCursor, base
<1> HIDE DEF r
<1>8. r \in Regions /\ r.base = base /\ r.base + r.size > cursor
  <2>1. CASE base >= maps[i].base
    BY <1>1, <1>2, <1>6, <1>7, <2>1 DEF Regions
  <2>2. CASE ~(base >= maps[i].base)
    <3>1. maps[i].base > base /\ maps[i].base > cursor
      BY <1>1, <1>2, <1>6, <2>2
    <3>2. request.noAccess \in BOOLEAN
      BY Sizes
    <3> QED
      BY <1>1, <1>6, <1>7, <2>2, <3>1, <3>2 DEF Regions
  <2> QED
    BY <2>1, <2>2
<1>9. Low(r) = cursor
  BY <1>0, <1>1, <1>8 DEF Low, LargerOf
<1>10. cursor < High(r)
  <2>1. r.base \in Nat /\ r.size \in Nat
    BY <1>8 DEF Regions
  <2> QED
    BY <1>0, <1>8, <2>1, Ends
<1>11. Covers(r)
  <2>1. CASE base >= maps[i].base
    BY <1>1, <1>6, <1>7, <2>1 DEF Covers
  <2>2. CASE ~(base >= maps[i].base)
    <3>1. r.base = base /\ r.base + r.size = maps[i].base
      BY <1>1, <1>6, <1>7, <2>2
    <3>2. ASSUME NEW a \in base .. maps[i].base - 1, NEW j \in DOMAIN maps,
                 maps[j].base <= a, a < Stop(maps[j])
          PROVE  FALSE
      <4>1. j \in Nat /\ i \in Nat /\ maps[j].base \in Nat /\ Stop(maps[j]) \in Nat
        BY <1>6, Sizes
      <4>2. j \in Ahead
        BY <1>1, <1>6, <3>2, <4>1 DEF Ahead, base
      <4>3. i <= j /\ i # j
        BY <1>1, <1>5, <1>6, <3>2, <4>1, <4>2
      <4>4. Stop(maps[i]) <= maps[j].base
        BY <1>6, <4>1, <4>3, Sizes
      <4>5. maps[i].base <= Stop(maps[i])
        BY <1>6 DEF Stop
      <4> QED
        BY <1>1, <1>6, <3>2, <4>1, <4>4, <4>5
    <3>3. \A a \in base .. maps[i].base - 1 : ~Mapped(a)
      BY <3>2 DEF Mapped
    <3>4. \A a \in r.base .. r.base + r.size - 1 : a \in base .. maps[i].base - 1
      <4>1. r.base \in Nat /\ r.size \in Nat
        BY <1>8 DEF Regions
      <4> QED
        BY <1>1, <1>6, <3>1, <4>1
    <3> QED
      BY <3>3, <3>4 DEF Covers
  <2> QED
    BY <2>1, <2>2
<1> QED
  BY <1>1, <1>8, <1>9, <1>10, <1>11 DEF r

(* The next page is behind the cursor, or the scan ends.                    *)
LEMMA NextPages ==
  ASSUME TypeOK, NextPage
  PROVE  /\ cursor' \in 0 .. MaxAddress /\ cursor' >= cursor
         /\ pc' \in {"query", "done"} /\ (pc' = "query" => cursor' < request.end)
<1> DEFINE next == Wrap(cursor + PageSize)
<1>1. /\ cursor \in 0 .. MaxAddress /\ PageSize \in 1 .. MaxAddress
      /\ MaxAddress \in Nat \ {0}
  BY SizesAssumption, MaxAddressAssumption DEF TypeOK
<1>2. next = IF cursor + PageSize <= MaxAddress THEN cursor + PageSize
             ELSE cursor + PageSize - (MaxAddress + 1)
  <2> DEFINE m == MaxAddress + 1
             n == cursor + PageSize
  <2>1. m \in Nat \ {0} /\ n \in Nat /\ n < 2 * m
    BY <1>1
  <2> HIDE DEF m, n
  <2>2. n % m = IF n < m THEN n ELSE n - m
    BY <2>1, Remainder
  <2> QED
    BY <1>1, <2>2 DEF Wrap, m, n
<1> HIDE DEF next
<1>3. next \in 0 .. MaxAddress
  BY <1>1, <1>2
<1>4. IF next <= cursor THEN pc' = "done" /\ UNCHANGED cursor ELSE MoveTo(next)
  BY DEF NextPage, next
<1> QED
  BY <1>1, <1>3, <1>4 DEF MoveTo

(* The outer loop goes on behind the region.                                *)
LEMMA Advances ==
  ASSUME TypeOK, NEW r \in Regions, cursor < High(r), Advance(r)
  PROVE  /\ cursor' = High(r) /\ cursor' \in 0 .. MaxAddress
         /\ pc' = IF High(r) < request.end THEN "query" ELSE "done"
         /\ High(r) <= request.end
<1>1. r.base \in Nat /\ r.size \in Nat
  BY DEF Regions
<1>2. High(r) \in 0 .. MaxAddress /\ High(r) <= request.end
  BY <1>1, Ends
<1>3. cursor \in 0 .. MaxAddress
  BY DEF TypeOK
<1> QED
  BY <1>2, <1>3, MaxAddressAssumption DEF Advance, MoveTo

(* A read takes at most what was asked for, nothing at an address that      *)
(* cannot be read, and all where everything can.                            *)
LEMMA Reads ==
  ASSUME TypeOK, NEW size \in Nat
  PROVE  /\ BytesRead(size) \in 0 .. size
         /\ exited \/ address = 0 \/ Unreadable(address) => BytesRead(size) = 0
         /\ (~exited /\ address # 0 /\ \A a \in address .. address + size - 1 : ~Unreadable(a)) =>
              BytesRead(size) = size
<1> DEFINE P(n) == /\ \A a \in address .. address + n - 1 : ~Unreadable(a)
                   /\ n = size \/ Unreadable(address + n)
           U == {n \in 0 .. size - 1 : Unreadable(address + n)}
<1>1. address \in Nat
  BY MaxAddressAssumption DEF TypeOK
<1>2. IsFiniteSet(U) /\ U \subseteq Int
  <2>1. IsFiniteSet(0 .. size - 1)
    <3>1. size - 1 \in Int
      OBVIOUS
    <3> QED
      BY <3>1, FS_Interval
  <2> QED
    BY <2>1, FS_Subset
<1>3. \E n \in 0 .. size : P(n)
  <2>1. CASE U = {}
    <3>1. ASSUME NEW a \in address .. address + size - 1 PROVE ~Unreadable(a)
      <4>1. a - address \in 0 .. size - 1 /\ address + (a - address) = a
        BY <1>1
      <4>2. a - address \notin U
        BY <2>1
      <4> QED
        BY <4>1, <4>2
    <3>2. P(size)
      BY <3>1
    <3> QED
      BY <3>2
  <2>2. CASE U # {}
    <3>1. PICK n \in U : \A k \in U : n <= k
      BY <1>2, <2>2, Smallest
    <3>2. n \in 0 .. size - 1 /\ Unreadable(address + n)
      OBVIOUS
    <3>3. ASSUME NEW a \in address .. address + n - 1 PROVE ~Unreadable(a)
      <4>1. a - address \in 0 .. size - 1 /\ address + (a - address) = a /\ ~(n <= a - address)
        BY <1>1, <3>2
      <4>2. a - address \notin U
        BY <3>1, <4>1
      <4> QED
        BY <4>1, <4>2
    <3>4. P(n) /\ n \in 0 .. size
      BY <3>2, <3>3
    <3> QED
      BY <3>4
  <2> QED
    BY <2>1, <2>2
<1>4. CASE exited \/ address = 0
  BY <1>4 DEF BytesRead
<1>5. CASE ~(exited \/ address = 0)
  <2> DEFINE n == BytesRead(size)
  <2>1. n = CHOOSE k \in 0 .. size : P(k)
    BY <1>5 DEF BytesRead
  <2>2. n \in 0 .. size /\ P(n)
    BY <1>3, <2>1
  <2> HIDE DEF n
  <2>3. ASSUME Unreadable(address) PROVE n = 0
    <3> SUFFICES ASSUME n # 0 PROVE FALSE
      OBVIOUS
    <3>1. address \in address .. address + n - 1
      BY <1>1, <2>2
    <3> QED
      BY <2>2, <2>3, <3>1
  <2>4. ASSUME \A a \in address .. address + size - 1 : ~Unreadable(a) PROVE n = size
    <3> SUFFICES ASSUME n # size PROVE FALSE
      OBVIOUS
    <3>1. address + n \in address .. address + size - 1
      BY <1>1, <2>2
    <3> QED
      BY <2>2, <2>4, <3>1
  <2> QED
    BY <1>5, <2>2, <2>3, <2>4 DEF n
<1> QED
  BY <1>4, <1>5

-----------------------------------------------------------------------------
(* The invariant holds when a scan begins.                                  *)
LEMMA InitIInv == Init => IInv
<1> SUFFICES ASSUME Init PROVE IInv
  OBVIOUS
<1>1. IsRequest(request)
  BY RequestsAssumption DEF Init
<1>2. /\ request.start \in Nat /\ request.end \in 1 .. MaxAddress /\ request.start < request.end
      /\ request.limit \in Nat \ {0}
  BY <1>1 DEF IsRequest
<1>3. TypeOK
  <2>1. NoRegion \in [base : Nat, size : Nat, wanted : BOOLEAN]
    BY DEF NoRegion
  <2>2. /\ cursor \in 0 .. MaxAddress /\ address \in 0 .. MaxAddress
        /\ resultCount \in 0 .. request.limit
    BY <1>2, MaxAddressAssumption DEF Init
  <2> QED
    BY <2>1, <2>2 DEF Init, TypeOK
<1>4. CountInv /\ CursorInv /\ ReadInv /\ RealInv
  BY <1>2, FS_EmptySet DEF Init, CountInv, ReportedOnce, CursorInv, ReadInv, RealInv
<1>5. CompleteInv
  <2> SUFFICES ASSUME NEW i \in DOMAIN maps, NEW a \in MatchesIn(i), a < request.start PROVE FALSE
    BY DEF CompleteInv, Init, Place
  <2>1. a \in Nat /\ request.start <= a
    BY <1>3, MatchFacts
  <2> QED
    BY <1>2, <2>1
<1> QED
  BY <1>3, <1>4, <1>5 DEF IInv

(* What one pass of the inner loop sees: matches of the region, each of the *)
(* chunk's if the mapping can be read.                                      *)
LEMMA Seen ==
  ASSUME IInv, pc = "read"
  PROVE  LET H == Hits(BytesRead(Requested)) IN
         /\ H \subseteq Int /\ IsFiniteSet(H)
         /\ \A a \in H : /\ address <= a /\ a < address + ChunkSize /\ a < High(rinfo)
                         /\ \E i \in DOMAIN maps : a \in MatchesIn(i)
         /\ \A i \in DOMAIN maps : Whole(maps[i]) =>
              \A a \in MatchesIn(i) :
                address <= a /\ a < address + ChunkSize /\ a < High(rinfo) => a \in H
<1> DEFINE size == Requested
           n == BytesRead(size)
           c == CandidateCount(n)
           H == Hits(n)
<1>1. /\ TypeOK /\ rinfo.wanted /\ Covers(rinfo) /\ rinfo \in Regions
      /\ rinfo.base <= cursor /\ cursor <= address /\ address < High(rinfo)
      /\ request.start <= cursor
  BY DEF IInv, TypeOK, ReadInv, CursorInv, Regions
<1>2. /\ rinfo.base \in Nat /\ rinfo.size \in Nat /\ cursor \in Nat /\ address \in Nat
      /\ ChunkSize \in Nat \ {0} /\ L \in Nat \ {0} /\ request.start \in Nat
  BY <1>1, Sizes, SizesAssumption, MaxAddressAssumption DEF TypeOK, Regions
<1>3. /\ High(rinfo) \in 0 .. MaxAddress /\ High(rinfo) \in Nat
      /\ High(rinfo) <= rinfo.base + rinfo.size
  BY <1>1, <1>2, Ends, MaxAddressAssumption
<1>4. /\ size \in Nat /\ size <= High(rinfo) - address
      /\ size = High(rinfo) - address \/ size = ChunkSize + L - 1
  BY <1>1, <1>2, <1>3 DEF Requested, SmallerOf, L
<1> HIDE DEF size
<1>5. /\ n \in 0 .. size
      /\ exited \/ address = 0 \/ Unreadable(address) => n = 0
      /\ (~exited /\ address # 0 /\ \A a \in address .. address + size - 1 : ~Unreadable(a)) =>
           n = size
  BY <1>1, <1>4, Reads
<1> HIDE DEF n
<1>6. c \in Int /\ c <= ChunkSize /\ c <= n - L + 1 /\ (c = ChunkSize \/ c = n - L + 1)
  <2>1. n \in Int /\ n - L + 1 \in Int /\ ChunkSize \in Int
    BY <1>2, <1>4, <1>5
  <2>2. c = SmallerOf(n - L + 1, ChunkSize)
    BY DEF CandidateCount, L
  <2> HIDE DEF c
  <2> QED
    BY <2>1, <2>2 DEF SmallerOf
<1> HIDE DEF c
<1>7. H = {a \in address .. address + c - 1 :
             Aligned(a, request) /\ HoldsAt(memory, request.pattern, a)}
  BY DEF Hits, c
<1> HIDE DEF H
<1>8. H \subseteq Int /\ IsFiniteSet(H)
  <2>1. address + c - 1 \in Int /\ address \in Int
    BY <1>2, <1>6
  <2>2. IsFiniteSet(address .. address + c - 1)
    BY <2>1, FS_Interval
  <2>3. H \subseteq address .. address + c - 1
    BY <1>7
  <2>4. IsFiniteSet(H)
    BY <2>2, <2>3, FS_Subset
  <2> QED
    BY <2>3, <2>4
<1>9. ASSUME NEW a \in H
      PROVE  /\ address <= a /\ a < address + ChunkSize /\ a < High(rinfo)
             /\ \E i \in DOMAIN maps : a \in MatchesIn(i)
  <2>1. a \in Int /\ address <= a /\ a <= address + c - 1
    BY <1>2, <1>6, <1>7
  <2>2. a < address + ChunkSize /\ a + L <= address + n
    BY <1>2, <1>4, <1>5, <1>6, <2>1
  <2>3. a + L <= High(rinfo) /\ a < High(rinfo) /\ n # 0
    BY <1>2, <1>3, <1>4, <1>5, <2>1, <2>2
  <2>4. Mapped(address)
    BY <1>5, <2>3 DEF Unreadable
  <2>5. address \in rinfo.base .. rinfo.base + rinfo.size - 1
    BY <1>1, <1>2, <1>3
  <2>6. PICK i \in DOMAIN maps :
          /\ rinfo.wanted = maps[i].wanted
          /\ maps[i].base <= rinfo.base /\ rinfo.base + rinfo.size = Stop(maps[i])
    BY <1>1, <2>4, <2>5 DEF Covers
  <2>7. High(maps[i]) = High(rinfo)
    BY <2>6 DEF High, RegionEnd, SaturatingAdd, Stop
  <2>8. maps[i].base \in Nat
    BY <1>1, Sizes
  <2>9. a \in Nat /\ maps[i].base <= a /\ request.start <= a
    BY <1>1, <1>2, <2>1, <2>6, <2>8
  <2>10. Aligned(a, request) /\ HoldsAt(memory, request.pattern, a)
    BY <1>7
  <2>11. a \in MatchesIn(i)
    BY <1>1, <2>3, <2>6, <2>7, <2>9, <2>10, MatchFacts
  <2> QED
    BY <2>1, <2>2, <2>3, <2>11
<1>10. ASSUME NEW i \in DOMAIN maps, Whole(maps[i]), NEW a \in MatchesIn(i),
              address <= a, a < address + ChunkSize, a < High(rinfo)
       PROVE  a \in H
  <2>1. /\ a \in Nat /\ a + L <= High(maps[i]) /\ Aligned(a, request)
        /\ HoldsAt(memory, request.pattern, a)
    BY <1>1, MatchFacts
  <2>2. High(rinfo) = High(maps[i]) /\ maps[i].base <= rinfo.base
    <3>1. rinfo.base <= a
      BY <1>1, <1>2, <1>10, <2>1
    <3> QED
      BY <1>1, <1>10, <3>1, InRegion
  <2>3. /\ maps[i].base \in Nat /\ maps[i].size \in Nat
        /\ Stop(maps[i]) = maps[i].base + maps[i].size /\ Stop(maps[i]) \in Nat
    BY <1>1, Sizes DEF Stop
  <2>4. High(maps[i]) <= Stop(maps[i])
    BY <1>1, <2>3, Ends
  <2>5. ~exited /\ maps[i].base # 0 /\ \A b \in maps[i].base .. Stop(maps[i]) - 1 : b \notin bad
    BY <1>10 DEF Whole
  <2>6. address # 0
    BY <1>1, <1>2, <2>2, <2>3, <2>5
  <2>7. ASSUME NEW b \in address .. address + size - 1 PROVE ~Unreadable(b)
    <3>1. b \in Int /\ maps[i].base <= b /\ b < Stop(maps[i])
      BY <1>1, <1>2, <1>3, <1>4, <2>2, <2>3, <2>4
    <3> QED
      BY <2>3, <2>5, <3>1 DEF Unreadable, Mapped
  <2>8. n = size
    BY <1>5, <2>5, <2>6, <2>7
  <2>9. a <= address + c - 1
    <3>1. CASE c = ChunkSize
      BY <1>2, <1>10, <2>1, <3>1
    <3>2. CASE c = n - L + 1
      <4>1. CASE size = High(rinfo) - address
        BY <1>2, <1>3, <2>1, <2>2, <2>8, <3>2, <4>1
      <4>2. CASE size = ChunkSize + L - 1
        BY <1>2, <1>10, <2>1, <2>8, <3>2, <4>2
      <4> QED
        BY <1>4, <4>1, <4>2
    <3> QED
      BY <1>6, <3>1, <3>2
  <2>10. a \in address .. address + c - 1
    BY <1>2, <1>6, <1>10, <2>1, <2>9
  <2> QED
    BY <1>7, <2>1, <2>10
<1> QED
  BY <1>8, <1>9, <1>10 DEF H, n, size

(* Where nothing lies ahead, nothing is left to be found.                   *)
LEMMA QueryFailsIInv ==
  ASSUME IInv, QueryFails
  PROVE  IInv'
<1> USE DEF inputs
<1>1. /\ TypeOK /\ NextPage /\ pc = "query"
      /\ UNCHANGED <<inputs, exited, rinfo, address, resultCount, matches>>
  BY DEF IInv, QueryFails
<1>2. /\ cursor' \in 0 .. MaxAddress /\ cursor' >= cursor
      /\ pc' \in {"query", "done"} /\ (pc' = "query" => cursor' < request.end)
  BY <1>1, NextPages
<1>3. cursor \in Nat /\ cursor' \in Nat /\ request.start \in Nat /\ resultCount \in Nat
  BY <1>1, <1>2, Sizes, MaxAddressAssumption DEF TypeOK
<1>4. TypeOK'
  BY <1>1, <1>2 DEF TypeOK
<1>5. CountInv' /\ CursorInv' /\ ReadInv'
  BY <1>1, <1>2, <1>3 DEF IInv, CountInv, ReportedOnce, CursorInv, ReadInv
<1>6. RealInv'
  <2> SUFFICES ASSUME NEW m \in matches
               PROVE  /\ \E i \in DOMAIN maps : m \in MatchesIn(i)
                      /\ m < cursor'
    BY <1>1, <1>2 DEF RealInv, Place, MatchesIn
  <2>1. m \in Nat /\ m < cursor /\ \E i \in DOMAIN maps : m \in MatchesIn(i)
    BY <1>1, MatchFacts DEF IInv, RealInv, Place
  <2> QED
    BY <1>2, <1>3, <2>1
<1>7. CompleteInv'
  <2> SUFFICES ASSUME ~exited, resultCount < request.limit, NEW i \in DOMAIN maps, Whole(maps[i]),
                      NEW a \in MatchesIn(i)
               PROVE  a \in matches
    BY <1>1 DEF CompleteInv, MatchesIn, Whole
  <2>1. Stop(maps[i]) <= PageOf(cursor)
    <3>1. ~(Stop(maps[i]) > PageOf(cursor))
      BY DEF QueryFails, Ahead
    <3>2. Stop(maps[i]) \in Nat
      BY <1>1, Sizes
    <3> QED
      BY <1>1, <3>1, <3>2, CursorPage
  <2>2. PageOf(cursor) \in Nat /\ PageOf(cursor) <= cursor
    BY <1>1, CursorPage
  <2>3. a \in Nat /\ a + L <= High(maps[i]) /\ L \in Nat \ {0}
    BY <1>1, MatchFacts, Sizes
  <2>4. High(maps[i]) <= Stop(maps[i]) /\ High(maps[i]) \in Nat /\ Stop(maps[i]) \in Nat
    BY <1>1, Ends, Sizes, MaxAddressAssumption DEF Stop
  <2>5. a < cursor
    BY <1>3, <2>1, <2>2, <2>3, <2>4
  <2> QED
    BY <1>1, <2>5 DEF IInv, CompleteInv, Place
<1> QED
  BY <1>4, <1>5, <1>6, <1>7 DEF IInv

(* A region that is skipped holds no match.                                 *)
LEMMA SkipRegionIInv ==
  ASSUME IInv, SkipRegion
  PROVE  IInv'
<1> USE DEF inputs
<1> DEFINE r == RegionAtCursor
<1>1. /\ TypeOK /\ pc = "query" /\ cursor < request.end /\ Ahead # {} /\ ~InReach(r) /\ rinfo' = r
      /\ Advance(r) /\ UNCHANGED <<inputs, exited, address, resultCount, matches>>
  BY DEF IInv, CursorInv, SkipRegion
<1>2. r \in Regions /\ r.base <= cursor /\ Low(r) = cursor /\ cursor < High(r) /\ Covers(r)
  BY <1>1, AtCursor
<1> HIDE DEF r
<1>3. /\ cursor' = High(r) /\ cursor' \in 0 .. MaxAddress
      /\ pc' = IF High(r) < request.end THEN "query" ELSE "done"
      /\ High(r) <= request.end
  BY <1>1, <1>2, Advances
<1>4. /\ cursor \in Nat /\ High(r) \in Nat /\ request.start \in Nat /\ request.end \in Nat
      /\ resultCount \in Nat /\ r.base \in Nat
  BY <1>1, <1>2, <1>3, Sizes, MaxAddressAssumption DEF TypeOK, Regions
<1>5. TypeOK'
  BY <1>1, <1>2, <1>3 DEF TypeOK, Regions
<1>6. CountInv' /\ CursorInv' /\ ReadInv'
  BY <1>1, <1>2, <1>3, <1>4 DEF IInv, CountInv, ReportedOnce, CursorInv, ReadInv
<1>7. RealInv'
  <2> SUFFICES ASSUME NEW m \in matches
               PROVE  /\ \E i \in DOMAIN maps : m \in MatchesIn(i)
                      /\ m < cursor'
    BY <1>1, <1>3 DEF RealInv, Place, MatchesIn
  <2>1. m \in Nat /\ m < cursor /\ \E i \in DOMAIN maps : m \in MatchesIn(i)
    BY <1>1, MatchFacts DEF IInv, RealInv, Place
  <2> QED
    BY <1>2, <1>3, <1>4, <2>1
<1>8. CompleteInv'
  <2> SUFFICES ASSUME ~exited, resultCount < request.limit, NEW i \in DOMAIN maps, Whole(maps[i]),
                      NEW a \in MatchesIn(i), pc' = "done" \/ a < cursor'
               PROVE  a \in matches
    BY <1>1, <1>3 DEF CompleteInv, MatchesIn, Whole, Place
  <2>1. /\ a \in Nat /\ a + L <= High(maps[i]) /\ L \in Nat \ {0}
        /\ High(maps[i]) <= request.end /\ High(maps[i]) \in Nat
    BY <1>1, MatchFacts, Sizes, Ends, MaxAddressAssumption
  <2>2. a < High(r)
    BY <1>3, <1>4, <2>1
  <2>3. ~(a >= cursor)
    <3> SUFFICES ASSUME a >= cursor PROVE FALSE
      OBVIOUS
    <3>1. r.wanted /\ High(r) = High(maps[i])
      <4>1. r.base <= a
        BY <1>2, <1>4, <2>1
      <4> QED
        BY <1>1, <1>2, <2>2, <4>1, InRegion
    <3>2. High(r) - cursor >= L
      BY <1>4, <2>1, <3>1
    <3> QED
      BY <1>1, <1>2, <3>1, <3>2 DEF InReach, L
  <2>4. a < cursor
    BY <1>4, <2>1, <2>3
  <2> QED
    BY <1>1, <2>4 DEF IInv, CompleteInv, Place
<1> QED
  BY <1>5, <1>6, <1>7, <1>8 DEF IInv

(* A region is read from the cursor on.                                     *)
LEMMA EnterRegionIInv ==
  ASSUME IInv, EnterRegion
  PROVE  IInv'
<1> USE DEF inputs
<1> DEFINE r == RegionAtCursor
<1>1. /\ TypeOK /\ pc = "query" /\ cursor < request.end /\ Ahead # {} /\ InReach(r) /\ rinfo' = r
      /\ address' = Low(r) /\ pc' = "read"
      /\ UNCHANGED <<inputs, exited, cursor, resultCount, matches>>
  BY DEF IInv, CursorInv, EnterRegion
<1>2. r \in Regions /\ r.base <= cursor /\ Low(r) = cursor /\ cursor < High(r) /\ Covers(r)
  BY <1>1, AtCursor
<1> HIDE DEF r
<1>3. TypeOK'
  BY <1>1, <1>2 DEF TypeOK, Regions
<1>4. CountInv' /\ CursorInv'
  BY <1>1 DEF IInv, CountInv, ReportedOnce, CursorInv
<1>5. ReadInv'
  <2>1. Covers(rinfo)'
    BY <1>1, <1>2 DEF Covers, Mapped
  <2>2. cursor < High(rinfo)'
    BY <1>1, <1>2 DEF High
  <2>3. r.wanted /\ cursor <= cursor
    BY <1>1 DEF InReach, TypeOK
  <2> QED
    BY <1>1, <1>2, <2>1, <2>2, <2>3 DEF ReadInv
<1>6. RealInv' /\ CompleteInv'
  <2>1. Place' = cursor /\ Place = cursor
    BY <1>1, <1>2 DEF Place
  <2>2. RealInv'
    BY <1>1, <2>1 DEF IInv, RealInv, MatchesIn
  <2>3. CompleteInv'
    BY <1>1, <2>1 DEF IInv, CompleteInv, MatchesIn, Whole
  <2> QED
    BY <2>2, <2>3
<1> QED
  BY <1>3, <1>4, <1>5, <1>6 DEF IInv

(* A chunk is taken over whole, up to the limit.                            *)
LEMMA ReadChunkIInv ==
  ASSUME IInv, ReadChunk
  PROVE  IInv' /\ matches \subseteq matches'
<1> USE DEF inputs
<1> DEFINE H == Hits(BytesRead(Requested))
           n == request.limit - resultCount
           new == Lowest(H, n)
<1>1. /\ TypeOK /\ pc = "read" /\ ReportedOnce
      /\ resultCount < request.limit /\ request.start <= cursor
      /\ rinfo.base <= cursor /\ cursor <= address /\ address < High(rinfo)
      /\ rinfo.wanted /\ Covers(rinfo) /\ rinfo \in Regions
  BY DEF IInv, ReadChunk, CountInv, CursorInv, ReadInv, TypeOK, Regions
<1>2. /\ H \subseteq Int /\ IsFiniteSet(H)
      /\ \A a \in H : /\ address <= a /\ a < address + ChunkSize /\ a < High(rinfo)
                      /\ \E i \in DOMAIN maps : a \in MatchesIn(i)
      /\ \A i \in DOMAIN maps : Whole(maps[i]) =>
           \A a \in MatchesIn(i) :
             address <= a /\ a < address + ChunkSize /\ a < High(rinfo) => a \in H
  BY <1>1, Seen
<1>3. /\ matches' = matches \cup new /\ resultCount' = resultCount + Cardinality(new)
      /\ UNCHANGED <<inputs, exited, rinfo>>
      /\ \/ /\ resultCount' >= request.limit
            /\ pc' = "done"
            /\ UNCHANGED <<cursor, address>>
         \/ /\ resultCount' < request.limit
            /\ NextAddress > address /\ NextAddress < High(rinfo)
            /\ address' = NextAddress
            /\ UNCHANGED <<pc, cursor>>
         \/ /\ resultCount' < request.limit
            /\ NextAddress <= address \/ NextAddress >= High(rinfo)
            /\ Advance(rinfo)
            /\ UNCHANGED address
  BY DEF ReadChunk
<1>4. /\ request.limit \in Nat /\ resultCount \in Nat /\ n \in Nat
      /\ address \in Nat /\ cursor \in Nat /\ ChunkSize \in Nat \ {0} /\ request.start \in Nat
      /\ request.end \in 0 .. MaxAddress /\ MaxAddress \in Nat \ {0}
  <2>1. /\ request.start \in Nat /\ request.end \in 1 .. MaxAddress /\ request.limit \in Nat
    BY <1>1, Sizes
  <2>2. resultCount \in Nat /\ address \in Nat /\ cursor \in Nat
    BY <1>1, MaxAddressAssumption DEF TypeOK
  <2> QED
    BY <1>1, <2>1, <2>2, SizesAssumption, MaxAddressAssumption
<1>5. High(rinfo) \in Nat /\ High(rinfo) <= request.end /\ High(rinfo) <= MaxAddress
  <2>1. rinfo.base \in Nat /\ rinfo.size \in Nat
    BY <1>1 DEF Regions
  <2> QED
    BY <1>1, <2>1, Ends, MaxAddressAssumption
<1> HIDE DEF H, n
<1>6. new \subseteq H /\ IsFiniteSet(new) /\ Cardinality(new) \in 0 .. n
  BY <1>2, <1>4, LowestBounded
<1>7. ASSUME NEW a \in H, a \notin new PROVE Cardinality(new) = n
  BY <1>2, <1>4, <1>7, LowestFull
<1> HIDE DEF new
<1>8. \A m \in matches : m < address /\ m \in Nat
  BY <1>1, MatchFacts DEF IInv, RealInv, Place
<1>9. \A m \in new : /\ m \in Int /\ address <= m /\ m < address + ChunkSize /\ m < High(rinfo)
                     /\ \E i \in DOMAIN maps : m \in MatchesIn(i)
  BY <1>2, <1>6
<1>10. resultCount' = Cardinality(matches')
  <2>1. matches \cap new = {}
    BY <1>4, <1>8, <1>9
  <2>2. IsFiniteSet(matches)
    <3>1. MaxAddress - 1 \in Int
      BY <1>4
    <3>2. IsFiniteSet(Addresses)
      BY <3>1, FS_Interval DEF Addresses
    <3> QED
      BY <1>1, <3>2, FS_Subset DEF TypeOK
  <2>3. Cardinality(matches \cup new)
          = Cardinality(matches) + Cardinality(new) - Cardinality(matches \cap new)
    BY <1>6, <2>2, FS_Union
  <2>4. Cardinality(matches \cap new) = 0
    BY <2>1, FS_EmptySet
  <2>5. Cardinality(new) \in Nat /\ Cardinality(matches) = resultCount
    BY <1>1, <1>4, <1>6 DEF ReportedOnce
  <2> QED
    BY <1>3, <1>4, <2>3, <2>4, <2>5
<1>11. resultCount' \in 0 .. request.limit
  BY <1>3, <1>4, <1>6 DEF n
<1>12. NextAddress = IF address + ChunkSize <= MaxAddress THEN address + ChunkSize
                     ELSE address + ChunkSize - (MaxAddress + 1)
  <2> DEFINE m == MaxAddress + 1
             k == address + ChunkSize
  <2>1. m \in Nat \ {0} /\ k \in Nat /\ k < 2 * m
    BY <1>1, <1>4, SizesAssumption DEF TypeOK
  <2> HIDE DEF m, k
  <2>2. k % m = IF k < m THEN k ELSE k - m
    BY <2>1, Remainder
  <2> QED
    BY <1>4, <2>2 DEF NextAddress, Wrap, m, k
<1>13. ChunkSize <= MaxAddress
  BY SizesAssumption, MaxAddressAssumption
<1>14. \/ /\ resultCount' = request.limit /\ pc' = "done" /\ UNCHANGED <<cursor, address>>
       \/ /\ resultCount' < request.limit /\ pc' = "read" /\ UNCHANGED cursor
          /\ address' = address + ChunkSize /\ address' < High(rinfo)
       \/ /\ resultCount' < request.limit /\ UNCHANGED address
          /\ cursor' = High(rinfo) /\ address + ChunkSize >= High(rinfo)
          /\ pc' = IF High(rinfo) < request.end THEN "query" ELSE "done"
  <2>1. CASE resultCount' >= request.limit /\ pc' = "done" /\ UNCHANGED <<cursor, address>>
    BY <1>4, <1>11, <2>1
  <2>2. CASE /\ resultCount' < request.limit
             /\ NextAddress > address /\ NextAddress < High(rinfo)
             /\ address' = NextAddress
             /\ UNCHANGED <<pc, cursor>>
    <3>1. NextAddress = address + ChunkSize
      BY <1>4, <1>12, <1>13, <2>2
    <3> QED
      BY <1>1, <2>2, <3>1
  <2>3. CASE /\ resultCount' < request.limit
             /\ NextAddress <= address \/ NextAddress >= High(rinfo)
             /\ Advance(rinfo)
             /\ UNCHANGED address
    <3>1. cursor < High(rinfo)
      BY <1>1, <1>4, <1>5
    <3>2. cursor' = High(rinfo) /\ pc' = IF High(rinfo) < request.end THEN "query" ELSE "done"
      BY <1>1, <2>3, <3>1, Advances
    <3>3. address + ChunkSize >= High(rinfo)
      BY <1>4, <1>5, <1>12, <1>13, <2>3
    <3> QED
      BY <2>3, <3>2, <3>3
  <2> QED
    BY <1>3, <2>1, <2>2, <2>3
<1>15. TypeOK'
  <2>1. /\ pc' \in {"query", "read", "done"}
        /\ cursor' \in 0 .. MaxAddress /\ address' \in 0 .. MaxAddress
    BY <1>1, <1>4, <1>5, <1>14 DEF TypeOK
  <2>2. matches' \subseteq Addresses
    <3>1. \A m \in new : m \in Addresses
      BY <1>4, <1>5, <1>9 DEF Addresses
    <3> QED
      BY <1>1, <1>3, <3>1 DEF TypeOK
  <2> QED
    BY <1>1, <1>3, <1>11, <2>1, <2>2 DEF TypeOK
<1>16. CountInv'
  BY <1>3, <1>10, <1>14 DEF CountInv, ReportedOnce
<1>17. CursorInv'
  <2>1. request.start <= cursor'
    BY <1>1, <1>4, <1>5, <1>14
  <2>2. pc' # "done" => cursor' < request.end
    BY <1>1, <1>4, <1>5, <1>14
  <2> QED
    BY <1>3, <2>1, <2>2 DEF CursorInv
<1>18. ReadInv'
  <2> SUFFICES ASSUME pc' = "read" PROVE ReadInv'
    BY DEF ReadInv
  <2>1. UNCHANGED cursor /\ address' = address + ChunkSize /\ address' < High(rinfo)
    BY <1>14
  <2>2. High(rinfo)' = High(rinfo) /\ Covers(rinfo)'
    BY <1>1, <1>3 DEF High, Covers, Mapped
  <2>3. cursor <= address'
    BY <1>1, <1>4, <2>1
  <2> QED
    BY <1>1, <1>3, <2>1, <2>2, <2>3 DEF ReadInv
<1>19. RealInv'
  <2> SUFFICES ASSUME NEW m \in matches'
               PROVE  /\ \E i \in DOMAIN maps : m \in MatchesIn(i)
                      /\ pc' # "done" => m < Place'
    BY <1>3 DEF RealInv, MatchesIn
  <2>1. \E i \in DOMAIN maps : m \in MatchesIn(i)
    BY <1>3, <1>9 DEF IInv, RealInv
  <2>2. m \in Int /\ m < address + ChunkSize /\ m < High(rinfo)
    <3>1. CASE m \in matches
      BY <1>1, <1>4, <1>5, <1>8, <3>1
    <3>2. CASE m \in new
      BY <1>9, <3>2
    <3> QED
      BY <1>3, <3>1, <3>2
  <2>3. pc' # "done" => m < Place'
    BY <1>14, <2>2 DEF Place
  <2> QED
    BY <2>1, <2>3
<1>20. CompleteInv'
  <2> SUFFICES ASSUME ~exited, resultCount' < request.limit, NEW i \in DOMAIN maps, Whole(maps[i]),
                      NEW a \in MatchesIn(i), pc' = "done" \/ a < Place'
               PROVE  a \in matches'
    BY <1>3 DEF CompleteInv, MatchesIn, Whole
  <2>1. /\ a \in Nat /\ a + L <= High(maps[i]) /\ L \in Nat \ {0}
        /\ High(maps[i]) \in Nat /\ High(maps[i]) <= request.end
    BY <1>1, <1>4, MatchFacts, Sizes, Ends
  <2>2. CASE a < address
    BY <1>1, <1>3, <2>2 DEF IInv, CompleteInv, Place
  <2>3. CASE ~(a < address)
    <3>1. a < address + ChunkSize /\ a < High(rinfo)
      <4>1. CASE pc' = "read"
        BY <1>4, <1>5, <1>14, <2>1, <4>1 DEF Place
      <4>2. CASE pc' # "read"
        <5>1. a < High(rinfo)
          BY <1>4, <1>5, <1>14, <2>1, <4>2 DEF Place
        <5>2. address + ChunkSize >= High(rinfo)
          BY <1>4, <1>14, <4>2
        <5> QED
          BY <1>4, <1>5, <2>1, <5>1, <5>2
      <4> QED
        BY <4>1, <4>2
    <3>2. a \in H
      BY <1>2, <1>4, <2>1, <2>3, <3>1
    <3>3. a \in new
      <4> SUFFICES ASSUME a \notin new PROVE FALSE
        OBVIOUS
      <4>1. Cardinality(new) = n
        BY <1>7, <3>2
      <4> QED
        BY <1>3, <1>4, <4>1 DEF n
    <3> QED
      BY <1>3, <3>3
  <2> QED
    BY <2>2, <2>3
<1> QED
  BY <1>3, <1>15, <1>16, <1>17, <1>18, <1>19, <1>20 DEF IInv

(* Every step keeps the invariant.                                          *)
LEMMA NextIInv == IInv /\ [Next]_vars => IInv'
<1> SUFFICES ASSUME IInv, [Next]_vars PROVE IInv'
  OBVIOUS
<1>1. CASE QueryFails
  BY <1>1, QueryFailsIInv
<1>2. CASE SkipRegion
  BY <1>2, SkipRegionIInv
<1>3. CASE EnterRegion
  BY <1>3, EnterRegionIInv
<1>4. CASE ReadChunk
  BY <1>4, ReadChunkIInv
<1>5. CASE Exit
  BY <1>5 DEF Exit, inputs, IInv, TypeOK, CountInv, ReportedOnce, CursorInv, ReadInv, High, Covers,
              Mapped, RealInv, Place, MatchesIn, CompleteInv
<1>6. CASE UNCHANGED vars
  BY <1>6 DEF vars, inputs, IInv, TypeOK, CountInv, ReportedOnce, CursorInv, ReadInv, High, Covers,
              Mapped, RealInv, Place, MatchesIn, CompleteInv, Whole
<1> QED
  BY <1>1, <1>2, <1>3, <1>4, <1>5, <1>6 DEF Next, Step, Finished

(* The parts of the invariant hold in every state of a scan.                *)
THEOREM Invariance == Spec => []IInv
<1> QED
  BY InitIInv, NextIInv, PTL DEF Spec

(* Every variable keeps its type: no address wraps out of its range and     *)
(* match_addr does not overrun.                                             *)
THEOREM TypeCorrect == Spec => []TypeOK
<1>1. IInv => TypeOK
  BY DEF IInv
<1> QED
  BY <1>1, Invariance, PTL

(* No address is reported twice, though the pieces that are read overlap.   *)
THEOREM CountIsExact == Spec => []ReportedOnce
<1>1. IInv => ReportedOnce
  BY DEF IInv, CountInv
<1> QED
  BY <1>1, Invariance, PTL
-----------------------------------------------------------------------------
(* The scanner inside the server implements the exact scan.                 *)
THEOREM Refinement == Spec => IsExactScan
<1> USE DEF inputs
<1>1. Init => Abstract!Init
  BY DEF Init, Abstract!Init
<1>2. \A i : Abstract!Matches(i) = MatchesIn(i)
  BY Zenon
  DEF Abstract!Matches, Abstract!MatchesOf, Abstract!MatchesBelow, Abstract!IsScanned,
      Abstract!RegionStart, Abstract!RegionEnd, Abstract!SaturatingAdd, Abstract!SmallerOf,
      Abstract!LargerOf, Abstract!Aligned, Abstract!HoldsAt, Abstract!Addresses,
      MatchesIn, MatchesOf, MatchesBelow, IsScanned, RegionStart, RegionEnd, SaturatingAdd,
      SmallerOf, LargerOf, Aligned, HoldsAt, Addresses
<1>3. \A S : Abstract!Cardinality(S) = Cardinality(S)
  BY DEF Abstract!Cardinality, Cardinality
<1>4. ASSUME IInv, IInv', Step \/ Exit PROVE Abstract!Proceed
  <2> DEFINE whole == {i \in DOMAIN maps : Whole(maps[i])}
  <2>1. pc # "done" /\ UNCHANGED inputs
    BY <1>4 DEF Step, Exit, QueryFails, SkipRegion, EnterRegion, ReadChunk
  <2>2. matches \subseteq matches'
    BY <1>4, ReadChunkIInv DEF Step, Exit, QueryFails, SkipRegion, EnterRegion
  <2>3. Cardinality(matches') <= request.limit
    BY <1>4, <2>1, Sizes DEF IInv, TypeOK, CountInv, ReportedOnce
  <2>4. matches' \subseteq Abstract!AllMatches
    <3>1. \A m \in matches' : \E i \in DOMAIN maps : m \in MatchesIn(i)
      BY <1>4, <2>1 DEF IInv, RealInv, MatchesIn
    <3> QED
      BY <1>2, <3>1 DEF Abstract!AllMatches
  <2>5. ASSUME pc' = "done" PROVE Abstract!Complete(matches', whole')
    <3> SUFFICES ASSUME Cardinality(matches') # request.limit, NEW i \in whole',
                        NEW a \in MatchesIn(i)
                 PROVE  a \in matches'
      BY <1>2, <1>3, <2>1 DEF Abstract!Complete
    <3>1. i \in DOMAIN maps /\ Whole(maps[i])' /\ ~exited'
      BY <2>1 DEF Whole
    <3>2. resultCount' < request.limit
      <4>1. resultCount' = Cardinality(matches') /\ resultCount' \in Nat
        BY <1>4 DEF IInv, TypeOK, CountInv, ReportedOnce
      <4>2. request.limit \in Nat
        BY <1>4, Sizes DEF IInv
      <4> QED
        BY <2>3, <4>1, <4>2
    <3> QED
      BY <1>4, <2>1, <2>5, <3>1, <3>2 DEF IInv, CompleteInv, MatchesIn
  <2> QED
    BY <1>3, <2>1, <2>2, <2>3, <2>4, <2>5 DEF Abstract!Proceed, Abstract!inputs
<1>5. UNCHANGED vars => UNCHANGED Abstract!vars
  BY DEF vars, Abstract!vars, Abstract!inputs, Whole
<1>6. IInv /\ IInv' /\ [Next]_vars => [Abstract!Proceed]_(Abstract!vars)
  BY <1>4, <1>5 DEF Next, Finished
<1> QED
  BY <1>1, <1>6, Invariance, PTL DEF Spec, IsExactScan, Abstract!Spec
=============================================================================
