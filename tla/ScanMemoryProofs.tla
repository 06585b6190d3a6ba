--------------------------- MODULE ScanMemoryProofs ---------------------------
(***************************************************************************)
(* Proofs about ScanMemory, for every memory, request, list of regions and *)
(* chunk size, and every pattern of answers, failures and late answers.    *)
(***************************************************************************)
EXTENDS ScanMemory, ScanReferenceProofs, SequenceTheorems

(* The limit ends the scan.                                                 *)
LimitInv == pc # "done" => Cardinality(matches) < request.limit

(* Inside a region, the bytes carried over reach back to the first place    *)
(* that was not looked at.                                                  *)
FrontInv ==
  pc = "read" =>
    /\ IsScanned(regions[region], request)
    /\ Start <= Address /\ Address < End
    /\ Len(tail) = SmallerOf(Length - 1, Address - Start)
    /\ nextCandidate = Address - Len(tail)
    /\ \A m \in matches : m < nextCandidate

(* A match lies in a region that was taken up.                              *)
PlaceInv ==
  \A m \in matches :
    /\ Aligned(m, request)
    /\ \E r \in DOMAIN regions :
         /\ r < region \/ (r = region /\ pc # "region")
         /\ IsScanned(regions[r], request)
         /\ RegionStart(regions[r], request) <= m
         /\ m + Length <= RegionEnd(regions[r], request)

(* Nothing was read of the regions to come.                                 *)
ToComeInv ==
  \A r \in DOMAIN regions : r > region \/ (r = region /\ pc = "region") => reached[r] = 0

(* As long as no answer came late, each read gets its own answer: what is   *)
(* carried over is what the memory holds, and so is what was found.         *)
TrueInv ==
  ~late =>
    /\ stream = <<>> /\ link # "garbled"
    /\ MatchesAreReal
    /\ pc = "read" => \A i \in 1 .. Len(tail) : tail[i] = memory[Address - Len(tail) + i - 1]

IInv == TypeOK /\ LimitInv /\ FrontInv /\ PlaceInv /\ ToComeInv /\ TrueInv /\ NothingMissed

-----------------------------------------------------------------------------
(* What is asked for, and where a region begins and ends.                   *)
LEMMA Sizes ==
  ASSUME TypeOK
  PROVE  /\ IsRequest(request)
         /\ Length \in Nat \ {0} /\ request.limit \in Nat \ {0}
         /\ regions \in Seq(Region)
         /\ \A r \in DOMAIN regions :
              /\ RegionStart(regions[r], request) \in Nat
              /\ RegionEnd(regions[r], request) \in 0 .. MaxAddress
<1>1. IsRequest(request)
  BY RequestsAssumption DEF TypeOK
<1>2. Length \in Nat \ {0} /\ request.limit \in Nat \ {0}
  BY <1>1, EmptySeq, LenProperties DEF IsRequest, Length
<1>3. regions \in Seq(Region)
  BY RegionListsAssumption DEF TypeOK
<1>4. ASSUME NEW r \in DOMAIN regions
      PROVE  /\ RegionStart(regions[r], request) \in Nat
             /\ RegionEnd(regions[r], request) \in 0 .. MaxAddress
  <2>1. regions[r] \in Region
    BY <1>3, ElementOfSeq
  <2>2. regions[r].base \in Addresses /\ regions[r].size \in Nat
    BY <2>1 DEF Region
  <2>3. request.start \in Nat /\ request.end \in 1 .. MaxAddress
    BY <1>1 DEF IsRequest
  <2> QED
    BY <2>2, <2>3, MaxAddressAssumption
    DEF Addresses, RegionStart, RegionEnd, SaturatingAdd, LargerOf, SmallerOf
<1> QED
  BY <1>1, <1>2, <1>3, <1>4

(* A region ends before the next one begins.                                *)
LEMMA Ordered ==
  ASSUME TypeOK, NEW r \in DOMAIN regions, NEW s \in DOMAIN regions, r < s
  PROVE  RegionEnd(regions[r], request) <= RegionStart(regions[s], request)
<1>1. regions[r].base + regions[r].size <= regions[s].base
  BY RegionOrderAssumption DEF TypeOK
<1>2. regions[r] \in Region /\ regions[s] \in Region
  BY Sizes, ElementOfSeq
<1>3. /\ regions[r].base \in Nat /\ regions[r].size \in Nat
      /\ regions[s].base \in Nat
  BY <1>2, MaxAddressAssumption DEF Region, Addresses
<1>4. request.start \in Nat /\ request.end \in Nat
  BY Sizes, MaxAddressAssumption DEF IsRequest
<1> QED
  BY <1>1, <1>3, <1>4, MaxAddressAssumption
  DEF RegionStart, RegionEnd, SaturatingAdd, LargerOf, SmallerOf

(* The invariant holds when the regions are listed.                         *)
LEMMA InitIInv == Init => IInv
<1> SUFFICES ASSUME Init PROVE IInv
  OBVIOUS
<1>1. IsRequest(request) /\ regions \in Seq(Region)
  BY RequestsAssumption, RegionListsAssumption DEF Init
<1>2. Length \in Nat \ {0} /\ request.limit \in Nat \ {0}
  BY <1>1, EmptySeq, LenProperties DEF IsRequest, Length
<1>3. Len(regions) \in Nat /\ DOMAIN regions = 1 .. Len(regions)
  BY <1>1, LenProperties
<1>4. regions # <<>> => Len(regions) # 0
  BY <1>1, EmptySeq
<1>5. matches = {} /\ Cardinality(matches) = 0
  BY FS_EmptySet DEF Init
<1>6. <<>> \in Seq(Bytes) /\ Len(<<>>) = 0 /\ <<>> \in Seq(Seq(Bytes))
  BY EmptySeq
<1>7. TypeOK
  <2>1. reached \in [DOMAIN regions -> 0 .. MaxAddress]
    BY MaxAddressAssumption DEF Init
  <2>2. /\ pc \in {"region", "read", "done"}
        /\ region \in 1 .. Len(regions) + 1
        /\ pc # "done" => region \in DOMAIN regions
    BY <1>3, <1>4 DEF Init
  <2>3. tail \in Seq(Bytes) /\ Len(tail) < Length /\ stream \in Seq(Seq(Bytes))
    BY <1>2, <1>6 DEF Init
  <2>4. nextCandidate \in 0 .. MaxAddress /\ Cardinality(matches) <= request.limit
    BY <1>2, <1>5, MaxAddressAssumption DEF Init
  <2> QED
    BY <1>5, <2>1, <2>2, <2>3, <2>4 DEF Init, TypeOK
<1>8. LimitInv /\ FrontInv /\ PlaceInv /\ ToComeInv /\ TrueInv
  BY <1>2, <1>5
  DEF Init, LimitInv, FrontInv, PlaceInv, ToComeInv, TrueInv, MatchesAreReal
<1>9. NothingMissed
  BY <1>2, <1>3, <1>7, Sizes
  DEF Init, NothingMissed, MatchesBelow, Addresses, Length
<1> QED
  BY <1>7, <1>8, <1>9 DEF IInv

(* Going on with the next region keeps the invariant, whatever happened to  *)
(* the connection.                                                          *)
LEMMA LeaveIInv ==
  ASSUME IInv, pc # "done", Leave,
         UNCHANGED <<inputs, reached, tail, nextCandidate, matches>>,
         stream' \in Seq(Seq(Bytes)), link' \in {"up", "garbled", "lost"}, late' \in BOOLEAN,
         late => late', ~late' => stream' = <<>> /\ link' # "garbled"
  PROVE  IInv'
<1> USE DEF IInv, Leave, inputs
<1>1. region \in DOMAIN regions /\ region \in 1 .. Len(regions) /\ Len(regions) \in Nat
  BY Sizes, LenProperties DEF TypeOK
<1>2. region' = region + 1 /\ pc' \in {"region", "done"} /\ pc' = "region" => region' \in DOMAIN regions
  BY <1>1, Sizes, LenProperties
<1>3. TypeOK'
  BY <1>1, <1>2 DEF TypeOK, Length
<1>4. LimitInv' /\ FrontInv'
  BY <1>2 DEF LimitInv, FrontInv
<1>5. PlaceInv'
  <2> SUFFICES ASSUME NEW m \in matches
               PROVE  /\ Aligned(m, request)
                      /\ \E r \in DOMAIN regions :
                           /\ r < region'
                           /\ IsScanned(regions[r], request)
                           /\ RegionStart(regions[r], request) <= m
                           /\ m + Length <= RegionEnd(regions[r], request)
    BY DEF PlaceInv, Length
  <2>1. \A r \in DOMAIN regions : (r < region \/ r = region) => r < region'
    BY <1>1, <1>2, Sizes, LenProperties
  <2> QED
    BY <2>1 DEF PlaceInv
<1>6. ToComeInv'
  <2>1. \A r \in DOMAIN regions : r > region' \/ r = region' => r > region
    BY <1>1, <1>2, Sizes, LenProperties
  <2> QED
    BY <2>1 DEF ToComeInv
<1>7. TrueInv'
  BY <1>2 DEF TrueInv, MatchesAreReal
<1>8. NothingMissed'
  BY DEF NothingMissed, TypeOK
<1> QED
  BY <1>3, <1>4, <1>5, <1>6, <1>7, <1>8

(* Entering a region keeps the invariant.                                   *)
LEMMA EnterIInv ==
  ASSUME IInv, EnterRegion
  PROVE  IInv'
<1> USE DEF IInv, EnterRegion, inputs
<1>1. region \in DOMAIN regions /\ region \in Nat
  BY Sizes, LenProperties DEF TypeOK
<1>2. /\ Start \in Nat /\ End \in 0 .. MaxAddress /\ Start < End
      /\ Length \in Nat \ {0}
  BY <1>1, Sizes DEF Start, End, IsScanned
<1>3. /\ reached' \in [DOMAIN regions -> 0 .. MaxAddress]
      /\ reached'[region] = Start
      /\ \A r \in DOMAIN regions : r # region => reached'[r] = reached[r]
  BY <1>1, <1>2, MaxAddressAssumption DEF TypeOK
<1>4. <<>> \in Seq(Bytes) /\ Len(<<>>) = 0
  BY EmptySeq
<1>5. TypeOK'
  BY <1>1, <1>2, <1>3, <1>4, MaxAddressAssumption DEF TypeOK, Length
<1>6. ASSUME NEW m \in matches PROVE m < Start
  <2>1. PICK r \in DOMAIN regions :
          /\ r < region
          /\ m + Length <= RegionEnd(regions[r], request)
    BY DEF PlaceInv
  <2>2. RegionEnd(regions[r], request) <= Start /\ RegionEnd(regions[r], request) \in Nat
    BY <1>1, <2>1, Ordered, Sizes, MaxAddressAssumption DEF Start
  <2>3. m \in Nat
    BY MaxAddressAssumption DEF TypeOK, Addresses
  <2> QED
    BY <1>2, <2>1, <2>2, <2>3
<1>7. FrontInv'
  <2>1. Start' = Start /\ End' = End /\ Address' = Start /\ Length' = Length
    BY <1>3 DEF Start, End, Address, Length
  <2>2. SmallerOf(Length - 1, Start - Start) = 0
    BY <1>2 DEF SmallerOf
  <2> QED
    BY <1>2, <1>4, <1>6, <2>1, <2>2 DEF FrontInv
<1>8. LimitInv' /\ TrueInv'
  <2>1. Address' = Start
    BY <1>3 DEF Address
  <2> QED
    BY <1>4, <2>1 DEF LimitInv, TrueInv, MatchesAreReal
<1>9. PlaceInv' /\ ToComeInv'
  <2>1. PlaceInv'
    BY DEF PlaceInv, Length
  <2>2. ToComeInv'
    BY <1>1, <1>3, Sizes, LenProperties DEF ToComeInv
  <2> QED
    BY <2>1, <2>2
<1>10. NothingMissed'
  <2>1. MatchesBelow(memory, regions[region], request, Start) = {}
    BY <1>2, MaxAddressAssumption DEF MatchesBelow, Start, Length, Addresses
  <2> QED
    BY <1>3, <2>1 DEF NothingMissed
<1> QED
  BY <1>5, <1>7, <1>8, <1>9, <1>10

-----------------------------------------------------------------------------
(* Where the front of the scan is while a region is read.                   *)
LEMMA Front ==
  ASSUME IInv, pc = "read"
  PROVE  /\ region \in DOMAIN regions /\ region \in Nat
         /\ Start \in Nat /\ Address \in Nat /\ End \in 0 .. MaxAddress
         /\ Start <= Address /\ Address < End
         /\ Length \in Nat \ {0}
         /\ Len(tail) \in Nat /\ Len(tail) = SmallerOf(Length - 1, Address - Start)
         /\ nextCandidate = Address - Len(tail) /\ nextCandidate >= Start
         /\ nextCandidate \in Nat
         /\ Requested \in Nat /\ Address + Requested <= End
<1> USE DEF IInv
<1>1. region \in DOMAIN regions /\ region \in Nat
  BY Sizes, LenProperties DEF TypeOK
<1>2. Start \in Nat /\ End \in 0 .. MaxAddress /\ Length \in Nat \ {0}
  BY <1>1, Sizes DEF Start, End
<1>3. Address \in Nat
  BY <1>1, MaxAddressAssumption DEF TypeOK, Address
<1>4. Len(tail) \in Nat
  BY LenProperties DEF TypeOK
<1>5. Start <= Address /\ Address < End
  BY DEF FrontInv
<1>6. Requested \in Nat /\ Address + Requested <= End
  BY <1>2, <1>3, <1>5, ChunkSizeAssumption, MaxAddressAssumption DEF Requested, SmallerOf
<1>7. Len(tail) = SmallerOf(Length - 1, Address - Start) /\ nextCandidate = Address - Len(tail)
  BY DEF FrontInv
<1>8. nextCandidate >= Start
  BY <1>2, <1>3, <1>4, <1>5, <1>7 DEF SmallerOf
<1>9. nextCandidate \in Nat
  BY <1>2, <1>3, <1>4, <1>7, <1>8
<1> QED
  BY <1>1, <1>2, <1>3, <1>4, <1>5, <1>6, <1>7, <1>8, <1>9

(* What one pass of the inner loop adds: matches of the buffer, at most as  *)
(* many as are still wanted, and all of them unless that is the limit.      *)
LEMMA Found ==
  ASSUME IInv, pc = "read", NEW data \in Seq(Bytes), Len(data) \in 1 .. Requested, Scan(data)
  PROVE  /\ IsFiniteSet(matches') /\ Cardinality(matches') \in Nat
         /\ matches \subseteq matches'
         /\ Cardinality(matches') <= request.limit
         /\ \A m \in matches' \ matches :
              /\ m \in nextCandidate .. Address + Len(data) - Length
              /\ Aligned(m, request)
              /\ Fits(tail \o data, request.pattern, m - nextCandidate + 1)
         /\ \A a \in nextCandidate .. Address + Len(data) - Length :
              Aligned(a, request) /\ Fits(tail \o data, request.pattern, a - nextCandidate + 1) =>
                \/ a \in matches'
                \/ Cardinality(matches') = request.limit /\ \A m \in matches' : m < a
<1> DEFINE buffer == tail \o data
           last == Address + Len(data) - Length
           S == {a \in nextCandidate .. last :
                   Aligned(a, request) /\ Fits(buffer, request.pattern, a - nextCandidate + 1)}
           n == request.limit - Cardinality(matches)
           L == Lowest(S, n)
<1>1. tail \in Seq(Bytes) /\ Len(buffer) = Len(tail) + Len(data)
  BY ConcatProperties DEF IInv, TypeOK
<1>2. nextCandidate \in Nat /\ last \in Int /\ Len(data) \in Nat
  <2>1. /\ Start \in Nat /\ Address \in Nat /\ Length \in Nat \ {0} /\ Len(tail) \in Nat
        /\ nextCandidate = Address - Len(tail) /\ nextCandidate >= Start
        /\ Requested \in Nat
    BY Front
  <2> QED
    BY <2>1
<1>3. IsFiniteSet(matches) /\ Cardinality(matches) \in Nat
  <2>1. IsFiniteSet(Addresses)
    <3>1. MaxAddress - 1 \in Int
      BY MaxAddressAssumption
    <3> QED
      BY <3>1, FS_Interval DEF Addresses
  <2>2. IsFiniteSet(matches)
    BY <2>1, FS_Subset DEF IInv, TypeOK
  <2> QED
    BY <2>2, FS_CardinalityType
<1>4. n \in Nat
  BY <1>3, Sizes DEF IInv, LimitInv
<1>5. S \subseteq Int /\ IsFiniteSet(S)
  <2>1. IsFiniteSet(nextCandidate .. last)
    <3> HIDE DEF last
    <3> QED
      BY <1>2, FS_Interval
  <2>2. S \subseteq nextCandidate .. last /\ nextCandidate .. last \subseteq Int
    OBVIOUS
  <2> HIDE DEF S, last
  <2> QED
    BY <2>1, <2>2, FS_Subset
<1>6. ScanBuffer(buffer, Address - Len(tail)) = L
  <2>1. Address - Len(tail) = nextCandidate /\ nextCandidate + Len(buffer) - Length = last
    BY <1>1, <1>2, Front
  <2>2. ScanBuffer(buffer, nextCandidate)
          = Lowest({a \in nextCandidate .. last :
                      /\ a >= nextCandidate
                      /\ Aligned(a, request)
                      /\ Fits(buffer, request.pattern, a - nextCandidate + 1)}, n)
    BY <2>1 DEF ScanBuffer
  <2>3. \A a \in nextCandidate .. last : a >= nextCandidate
    BY <1>2
  <2>4. {a \in nextCandidate .. last :
           /\ a >= nextCandidate
           /\ Aligned(a, request)
           /\ Fits(buffer, request.pattern, a - nextCandidate + 1)} = S
    BY <2>3
  <2> QED
    BY <2>1, <2>2, <2>4
<1>7. matches' = matches \cup L
  BY <1>6 DEF Scan
<1>8. L \subseteq S /\ IsFiniteSet(L) /\ Cardinality(L) \in 0 .. n
  BY <1>4, <1>5, LowestBounded
<1>9. \A m \in matches : m < nextCandidate /\ m \in Nat
  BY MaxAddressAssumption DEF IInv, TypeOK, FrontInv, Addresses
<1>10. matches \cap L = {}
  <2>1. \A m \in L : m \in Int /\ m >= nextCandidate
    BY <1>2, <1>8
  <2> QED
    BY <1>2, <1>9, <2>1
<1>11. /\ IsFiniteSet(matches') /\ Cardinality(matches') = Cardinality(matches) + Cardinality(L)
  <2>1. /\ IsFiniteSet(matches \cup L)
        /\ Cardinality(matches \cup L)
             = Cardinality(matches) + Cardinality(L) - Cardinality(matches \cap L)
    BY <1>3, <1>8, FS_Union
  <2>2. Cardinality(matches \cap L) = 0
    BY <1>10, FS_EmptySet
  <2> HIDE DEF L, n
  <2> QED
    BY <1>3, <1>7, <1>8, <2>1, <2>2, <1>4
<1>12. ASSUME NEW a \in S, a \notin matches'
       PROVE  Cardinality(matches') = request.limit /\ \A m \in matches' : m < a
  <2>1. a \notin L
    BY <1>7, <1>12
  <2>2. Cardinality(L) = n /\ \A m \in L : m < a
    BY <1>4, <1>5, <2>1, LowestFull
  <2>3. \A m \in matches : m < a
    BY <1>2, <1>9
  <2>4. Cardinality(matches') = request.limit
    <3> HIDE DEF L
    <3> QED
      BY <1>3, <1>11, <2>2, Sizes DEF IInv
  <2> QED
    BY <1>7, <2>2, <2>3, <2>4
<1>13. Cardinality(matches') \in Nat /\ Cardinality(matches') <= request.limit
  <2>1. request.limit \in Nat
    BY Sizes DEF IInv
  <2> HIDE DEF L
  <2> QED
    BY <1>3, <1>8, <1>11, <2>1
<1> QED
  BY <1>7, <1>8, <1>11, <1>12, <1>13

(* The bytes carried over, and where the front is after a pass.             *)
LEMMA Carried ==
  ASSUME IInv, pc = "read", NEW data \in Seq(Bytes), Len(data) \in 1 .. Requested, Scan(data)
  PROVE  /\ reached' \in [DOMAIN regions -> 0 .. MaxAddress]
         /\ reached'[region] = Address + Len(data) /\ Address + Len(data) <= End
         /\ \A r \in DOMAIN regions : r # region => reached'[r] = reached[r]
         /\ tail' \in Seq(Bytes) /\ Len(tail') \in Nat
         /\ Len(tail') = SmallerOf(Length - 1, Address + Len(data) - Start)
         /\ nextCandidate' = Address + Len(data) - Len(tail')
         /\ nextCandidate' >= nextCandidate
         /\ nextCandidate' - nextCandidate = Len(tail) + Len(data) - Len(tail')
         /\ nextCandidate' - nextCandidate \in Nat
         /\ nextCandidate' > Address + Len(data) - Length
         /\ \A i \in 1 .. Len(tail') :
              tail'[i] = (tail \o data)[nextCandidate' - nextCandidate + i]
<1> DEFINE buffer == tail \o data
           d == Len(data)
           t == Len(tail)
           n == SmallerOf(Length - 1, Len(buffer))
<1>1. /\ buffer \in Seq(Bytes) /\ Len(buffer) = t + d
      /\ \A i \in 1 .. t + d : buffer[i] \in Bytes
  <2>1. buffer \in Seq(Bytes) /\ Len(buffer) = t + d
    BY ConcatProperties DEF IInv, TypeOK
  <2> HIDE DEF buffer
  <2> QED
    BY <2>1, LenProperties
<1>2. t \in Nat /\ d \in Nat \ {0} /\ d <= Requested
  BY Front
<1>3. Address + d <= End /\ Address + d \in 0 .. MaxAddress
  <2>1. /\ Address \in Nat /\ End \in 0 .. MaxAddress /\ Requested \in Nat
        /\ Address + Requested <= End
    BY Front
  <2> HIDE DEF d
  <2> QED
    BY <1>2, <2>1, MaxAddressAssumption
<1>4. /\ reached' \in [DOMAIN regions -> 0 .. MaxAddress]
      /\ reached'[region] = Address + d
      /\ \A r \in DOMAIN regions : r # region => reached'[r] = reached[r]
  BY <1>3, Front DEF IInv, TypeOK, Scan, Address
<1>5. n \in Nat /\ n <= t + d
  <2>1. Length \in Nat \ {0}
    BY Front
  <2>2. n = SmallerOf(Length - 1, t + d)
    BY <1>1
  <2> HIDE DEF n, t, d
  <2> QED
    BY <1>2, <2>1, <2>2 DEF SmallerOf
<1>6. tail' = SubSeq(buffer, Len(buffer) - n + 1, Len(buffer))
  <2>1. tail' = TailOf(buffer)
    BY DEF Scan
  <2> HIDE DEF buffer
  <2>2. TailOf(buffer) = SubSeq(buffer, Len(buffer) - n + 1, Len(buffer))
    BY DEF TailOf
  <2> QED
    BY <2>1, <2>2, Zenon
<1>7. /\ tail' \in Seq(Bytes) /\ Len(tail') = n
      /\ \A i \in 1 .. n : tail'[i] = buffer[t + d - n + i]
  <2> HIDE DEF buffer, n, t, d
  <2> DEFINE lo == Len(buffer) - n + 1
             hi == Len(buffer)
  <2>1. \A i \in lo .. hi : buffer[i] \in Bytes
    BY <1>1, <1>2, <1>5
  <2>2. lo \in Int /\ hi \in Int /\ hi - lo + 1 = n /\ lo <= hi + 1
    BY <1>1, <1>2, <1>5
  <2>3. \A i \in 1 .. n : lo + i - 1 = t + d - n + i
    BY <1>1, <1>2, <1>5
  <2>4. tail' = SubSeq(buffer, lo, hi)
    BY <1>6
  <2> HIDE DEF lo, hi
  <2>5. /\ tail' \in Seq(Bytes)
        /\ Len(tail') = IF lo <= hi THEN hi - lo + 1 ELSE 0
        /\ \A i \in 1 .. hi - lo + 1 : tail'[i] = buffer[lo + i - 1]
    BY <2>1, <2>2, <2>4, SubSeqProperties
  <2>6. Len(tail') = n
    BY <2>2, <2>5
  <2> QED
    BY <2>2, <2>3, <2>5, <2>6
<1>8. n = SmallerOf(Length - 1, Address + d - Start)
  <2>1. /\ Start \in Nat /\ Address \in Nat /\ Start <= Address /\ Length \in Nat \ {0}
        /\ t = SmallerOf(Length - 1, Address - Start)
    BY Front
  <2>2. n = SmallerOf(Length - 1, t + d)
    BY <1>1
  <2> HIDE DEF buffer, n, t, d
  <2> QED
    BY <1>2, <2>1, <2>2 DEF SmallerOf
<1>9. nextCandidate' = Address + d - n
  <2>1. nextCandidate' = IF t + d >= Length THEN Address - t + (t + d) - Length + 1
                         ELSE nextCandidate
    BY <1>1 DEF Scan
  <2>2. n = SmallerOf(Length - 1, t + d)
    BY <1>1
  <2>3. nextCandidate = Address - t /\ Address \in Nat /\ Length \in Nat \ {0}
    BY Front
  <2> HIDE DEF n, t, d
  <2> QED
    BY <1>2, <2>1, <2>2, <2>3 DEF SmallerOf
<1>10. /\ nextCandidate' >= nextCandidate /\ nextCandidate' > Address + d - Length
       /\ nextCandidate' - nextCandidate = t + d - n /\ t + d - n \in Nat
  <2>1. n = SmallerOf(Length - 1, t + d)
    BY <1>1
  <2>2. nextCandidate = Address - t /\ Address \in Nat /\ Length \in Nat \ {0}
    BY Front
  <2>3. n <= Length - 1 /\ n <= t + d
    <3> HIDE DEF n, t, d
    <3> QED
      BY <1>2, <2>1, <2>2 DEF SmallerOf
  <2> HIDE DEF n, t, d
  <2> QED
    BY <1>2, <1>5, <1>9, <2>2, <2>3
<1> HIDE DEF buffer, n, d, t
<1>11. \A i \in 1 .. n : tail'[i] = buffer[nextCandidate' - nextCandidate + i]
  BY <1>7, <1>10
<1> QED
  BY <1>3, <1>4, <1>5, <1>7, <1>8, <1>9, <1>10, <1>11 DEF buffer, d, t

(* What a read that no late answer preceded brings.                         *)
IsAnswer(data) == ~late => \A i \in 1 .. Len(data) : data[i] = memory[Address + i - 1]

(* As long as no answer came late, the buffer is what the memory holds.     *)
LEMMA BufferIsMemory ==
  ASSUME IInv, pc = "read", ~late, NEW data \in Seq(Bytes), IsAnswer(data)
  PROVE  \A i \in 1 .. Len(tail) + Len(data) : (tail \o data)[i] = memory[nextCandidate + i - 1]
<1> SUFFICES ASSUME NEW i \in 1 .. Len(tail) + Len(data)
             PROVE  (tail \o data)[i] = memory[nextCandidate + i - 1]
  OBVIOUS
<1>1. tail \in Seq(Bytes) /\ Len(tail) \in Nat /\ Len(data) \in Nat
  BY Front, LenProperties DEF IInv, TypeOK
<1>2. nextCandidate = Address - Len(tail) /\ Address \in Nat
  BY Front
<1>3. (tail \o data)[i] = IF i <= Len(tail) THEN tail[i] ELSE data[i - Len(tail)]
  BY <1>1, ConcatProperties
<1>4. CASE i <= Len(tail)
  <2>1. i \in 1 .. Len(tail)
    BY <1>1, <1>4
  <2>2. tail[i] = memory[nextCandidate + i - 1]
    BY <1>2, <2>1 DEF IInv, TrueInv
  <2> QED
    BY <1>3, <1>4, <2>2
<1>5. CASE ~(i <= Len(tail))
  <2>1. i - Len(tail) \in 1 .. Len(data)
    BY <1>1, <1>5
  <2>2. Address + (i - Len(tail)) - 1 = nextCandidate + i - 1
    BY <1>1, <1>2
  <2>3. data[i - Len(tail)] = memory[Address + (i - Len(tail)) - 1]
    BY <2>1 DEF IsAnswer
  <2> QED
    BY <1>3, <1>5, <2>2, <2>3
<1> QED
  BY <1>4, <1>5

(* Pass and continuation keep the invariant; while no answer was late, the  *)
(* bytes read are those of the memory.                                      *)
LEMMA ScanIInv ==
  ASSUME IInv, pc = "read", NEW data \in Seq(Bytes), Len(data) \in 1 .. Requested,
         Scan(data), Continue(data), UNCHANGED <<inputs, link, late>>,
         stream' \in Seq(Seq(Bytes)), ~late => stream' = <<>>,
         IsAnswer(data)
  PROVE  IInv'
<1> USE DEF inputs
<1>1. /\ region \in DOMAIN regions /\ region \in 1 .. Len(regions) /\ Len(regions) \in Nat
      /\ DOMAIN regions = 1 .. Len(regions)
  BY Sizes, LenProperties DEF IInv, TypeOK
<1>2. Length' = Length /\ Len(data) \in Nat \ {0}
  BY Front DEF Length
<1>3. \A m \in matches' \ matches : m \in nextCandidate .. Address + Len(data) - Length
  BY Found
<1>4. /\ pc' \in {"region", "read", "done"}
      /\ pc' = "read" => region' = region /\ Address + Len(data) < End
      /\ region' \in {region, region + 1}
      /\ pc' = "region" => region' = region + 1 /\ region' \in DOMAIN regions
      /\ pc' # "done" => Cardinality(matches') < request.limit
      /\ region' = region + 1 => pc' # "read"
  BY <1>1 DEF Continue, Leave
<1>5. /\ Start \in Nat /\ Address \in Nat /\ End \in 0 .. MaxAddress /\ Length \in Nat \ {0}
      /\ Start <= Address /\ nextCandidate \in Nat /\ nextCandidate >= Start
      /\ nextCandidate = Address - Len(tail) /\ Len(tail) \in Nat
  BY Front
<1>6. /\ reached' \in [DOMAIN regions -> 0 .. MaxAddress]
      /\ reached'[region] = Address + Len(data) /\ Address + Len(data) <= End
      /\ \A r \in DOMAIN regions : r # region => reached'[r] = reached[r]
  BY Carried
<1>7. /\ tail' \in Seq(Bytes) /\ Len(tail') \in Nat
      /\ Len(tail') = SmallerOf(Length - 1, Address + Len(data) - Start)
      /\ nextCandidate' = Address + Len(data) - Len(tail')
      /\ nextCandidate' >= nextCandidate
      /\ nextCandidate' > Address + Len(data) - Length
  BY Carried
<1>8. nextCandidate' \in Nat /\ nextCandidate' <= Address + Len(data) /\ Len(tail') < Length
  <2>1. Len(tail') < Length
    BY <1>2, <1>5, <1>7 DEF SmallerOf
  <2>2. nextCandidate' \in Int
    BY <1>2, <1>5, <1>7
  <2>3. nextCandidate' <= Address + Len(data)
    BY <1>2, <1>5, <1>7
  <2>4. nextCandidate' >= 0
    BY <1>5, <1>7, <2>2
  <2> QED
    BY <2>1, <2>2, <2>3, <2>4
<1>9. \A m \in matches' \ matches : /\ m \in Nat /\ m >= Start /\ m < nextCandidate'
                                     /\ m + Length <= Address + Len(data)
  <2> SUFFICES ASSUME NEW m \in matches' \ matches
               PROVE  /\ m \in Nat /\ m >= Start /\ m < nextCandidate'
                      /\ m + Length <= Address + Len(data)
    OBVIOUS
  <2>1. m \in Int /\ m >= nextCandidate /\ m <= Address + Len(data) - Length
    BY <1>2, <1>3, <1>5
  <2>2. m \in Nat /\ m >= Start
    BY <1>5, <2>1
  <2>3. m < nextCandidate'
    BY <1>2, <1>5, <1>7, <1>8, <2>1
  <2>4. m + Length <= Address + Len(data)
    BY <1>2, <1>5, <2>1
  <2> QED
    BY <2>2, <2>3, <2>4
<1>10. \A m \in matches : m < nextCandidate /\ m \in Nat
  BY MaxAddressAssumption DEF IInv, TypeOK, FrontInv, Addresses
<1>11. TypeOK'
  <2>1. region' \in 1 .. Len(regions) + 1 /\ (pc' # "done" => region' \in DOMAIN regions)
    BY <1>1, <1>4
  <2>2. nextCandidate' \in 0 .. MaxAddress
    BY <1>2, <1>5, <1>6, <1>8, MaxAddressAssumption
  <2>3. matches' \subseteq Addresses
    <3>1. ASSUME NEW m \in matches' \ matches PROVE m \in Addresses
      BY <1>2, <1>5, <1>6, <1>9, MaxAddressAssumption DEF Addresses
    <3> QED
      BY <3>1 DEF IInv, TypeOK
  <2>4. Cardinality(matches') <= request.limit
    BY Found
  <2> QED
    BY <1>2, <1>4, <1>6, <1>7, <1>8, <2>1, <2>2, <2>3, <2>4 DEF IInv, TypeOK
<1>12. LimitInv'
  BY <1>4 DEF LimitInv
<1>13. IsScanned(regions[region], request)
  BY DEF IInv, FrontInv
<1>14. FrontInv'
  <2> SUFFICES ASSUME pc' = "read" PROVE FrontInv'
    BY DEF FrontInv
  <2>1. region' = region /\ Start' = Start /\ End' = End /\ Address' = Address + Len(data)
    BY <1>4, <1>6 DEF Start, End, Address
  <2>2. \A m \in matches' : m < nextCandidate'
    <3>1. ASSUME NEW m \in matches PROVE m < nextCandidate'
      <4>1. m \in Nat /\ m < nextCandidate
        BY <1>10
      <4> QED
        BY <1>5, <1>7, <1>8, <4>1
    <3> QED
      BY <1>9, <3>1
  <2>3. Start <= Address + Len(data)
    BY <1>2, <1>5
  <2>4. /\ IsScanned(regions[region], request)'
        /\ Start' <= Address' /\ Address' < End'
    BY <1>4, <1>13, <2>1, <2>3
  <2>5. /\ Len(tail') = SmallerOf(Length' - 1, Address' - Start')
        /\ nextCandidate' = Address' - Len(tail')
    <3>1. Length' - 1 = Length - 1 /\ Address' - Start' = Address + Len(data) - Start
      BY <1>2, <1>5, <2>1
    <3>2. Len(tail') = SmallerOf(Length' - 1, Address' - Start')
      BY <1>7, <3>1 DEF SmallerOf
    <3>3. nextCandidate' = Address' - Len(tail')
      BY <1>2, <1>5, <1>7, <2>1
    <3> QED
      BY <3>2, <3>3
  <2> QED
    BY <2>2, <2>4, <2>5 DEF FrontInv
<1>15. PlaceInv'
  <2> SUFFICES ASSUME NEW m \in matches'
               PROVE  /\ Aligned(m, request)
                      /\ \E r \in DOMAIN regions :
                           /\ r < region' \/ (r = region' /\ pc' # "region")
                           /\ IsScanned(regions[r], request)
                           /\ RegionStart(regions[r], request) <= m
                           /\ m + Length <= RegionEnd(regions[r], request)
    BY <1>2 DEF PlaceInv
  <2>1. \A r \in DOMAIN regions : r < region \/ r = region =>
          r < region' \/ (r = region' /\ pc' # "region")
    BY <1>1, <1>4
  <2>2. CASE m \in matches
    BY <2>1, <2>2 DEF IInv, PlaceInv
  <2>3. CASE m \notin matches
    <3>1. Aligned(m, request)
      BY <2>3, Found
    <3>2. Start <= m /\ m + Length <= End
      BY <1>2, <1>5, <1>6, <1>9, <2>3
    <3> QED
      BY <1>1, <1>13, <2>1, <3>1, <3>2 DEF Start, End
  <2> QED
    BY <2>2, <2>3
<1>16. ToComeInv'
  <2>1. \A r \in DOMAIN regions :
          r > region' \/ (r = region' /\ pc' = "region") => r > region
    BY <1>1, <1>4
  <2>2. \A r \in DOMAIN regions : r > region => reached'[r] = 0
    BY <1>1, <1>6 DEF IInv, ToComeInv
  <2> QED
    BY <2>1, <2>2 DEF ToComeInv
<1>17. ASSUME ~late, NEW a \in nextCandidate .. Address + Len(data) - Length
       PROVE  Fits(tail \o data, request.pattern, a - nextCandidate + 1)
                <=> HoldsAt(memory, request.pattern, a)
  <2> DEFINE buffer == tail \o data
  <2>1. \A i \in 1 .. Len(tail) + Len(data) : buffer[i] = memory[nextCandidate + i - 1]
    BY <1>17, BufferIsMemory
  <2>2. ASSUME NEW k \in 1 .. Len(request.pattern)
        PROVE  buffer[(a - nextCandidate + 1) + k - 1] = memory[a + k - 1]
    <3> DEFINE i == (a - nextCandidate + 1) + k - 1
    <3>1. i \in 1 .. Len(tail) + Len(data) /\ nextCandidate + i - 1 = a + k - 1
      <4>1. a \in Int /\ a >= nextCandidate /\ a <= Address + Len(data) - Length
        BY <1>2, <1>5
      <4>2. k \in Int /\ 1 <= k /\ k <= Length
        BY <1>5 DEF Length
      <4>3. Address = nextCandidate + Len(tail)
        BY <1>5
      <4>4. i \in Int /\ i >= 1 /\ nextCandidate + i - 1 = a + k - 1
        BY <1>5, <4>1, <4>2
      <4>5. i <= Len(tail) + Len(data)
        BY <1>2, <1>5, <4>1, <4>2, <4>3
      <4> HIDE DEF i
      <4> QED
        BY <1>2, <1>5, <4>4, <4>5
    <3> HIDE DEF buffer, i
    <3>2. buffer[i] = memory[a + k - 1]
      BY <2>1, <3>1
    <3> QED
      BY <3>2 DEF i
  <2> HIDE DEF buffer
  <2>3. Fits(buffer, request.pattern, a - nextCandidate + 1) <=> HoldsAt(memory, request.pattern, a)
    BY <2>2, Zenon DEF Fits, HoldsAt
  <2> QED
    BY <2>3 DEF buffer
<1>18. TrueInv'
  <2> SUFFICES ASSUME ~late PROVE TrueInv'
    BY DEF TrueInv
  <2>1. link' # "garbled"
    BY DEF IInv, TrueInv
  <2>2. ASSUME NEW m \in matches' PROVE HoldsAt(memory, request.pattern, m)
    <3>1. CASE m \in matches
      BY <3>1 DEF IInv, TrueInv, MatchesAreReal
    <3>2. CASE m \notin matches
      <4>1. /\ m \in nextCandidate .. Address + Len(data) - Length
            /\ Fits(tail \o data, request.pattern, m - nextCandidate + 1)
        BY <3>2, Found
      <4> QED
        BY <1>17, <4>1
    <3> QED
      BY <3>1, <3>2
  <2>3. ASSUME pc' = "read", NEW i \in 1 .. Len(tail')
        PROVE  tail'[i] = memory[Address' - Len(tail') + i - 1]
    <3> DEFINE j == nextCandidate' - nextCandidate + i
               buffer == tail \o data
    <3>1. Address' = Address + Len(data)
      BY <1>4, <1>6, <2>3 DEF Address
    <3>2. Address' - Len(tail') + i - 1 = nextCandidate' + i - 1
      <4>1. nextCandidate' = Address' - Len(tail')
        BY <1>2, <1>5, <1>7, <3>1
      <4> QED
        BY <4>1
    <3>3. tail'[i] = buffer[j]
      BY <2>3, Carried
    <3>4. j \in 1 .. Len(tail) + Len(data) /\ nextCandidate + j - 1 = nextCandidate' + i - 1
      <4>1. i \in Int /\ 1 <= i /\ i <= Len(tail')
        BY <1>7
      <4>2. /\ nextCandidate' - nextCandidate \in Nat
            /\ nextCandidate' - nextCandidate = Len(tail) + Len(data) - Len(tail')
        BY Carried
      <4>3. nextCandidate' \in Nat /\ nextCandidate \in Nat
        BY <1>5, <1>8
      <4>4. j \in Int /\ 1 <= j
        BY <4>1, <4>2
      <4>5. nextCandidate + j - 1 = nextCandidate' + i - 1
        BY <4>1, <4>3
      <4>6. j <= Len(tail) + Len(data)
        <5>1. Len(data) \in Nat /\ Len(tail) \in Nat /\ Len(tail') \in Nat
          BY <1>2, <1>5, <1>7
        <5>2. j = Len(tail) + Len(data) - Len(tail') + i
          BY <4>2
        <5> HIDE DEF j
        <5> QED
          BY <4>1, <5>1, <5>2
      <4> HIDE DEF j
      <4> QED
        BY <1>2, <1>5, <4>4, <4>5, <4>6
    <3> HIDE DEF j
    <3>5. buffer[j] = memory[nextCandidate + j - 1]
      BY <3>4, BufferIsMemory
    <3> HIDE DEF buffer
    <3> QED
      BY <3>2, <3>3, <3>4, <3>5
  <2> QED
    BY <2>1, <2>2, <2>3 DEF TrueInv, MatchesAreReal
<1>19. NothingMissed'
  <2> SUFFICES ASSUME ~late, NEW r \in DOMAIN regions, IsScanned(regions[r], request),
                      NEW a \in MatchesBelow(memory, regions[r], request, reached'[r]),
                      a \notin matches'
               PROVE  Cardinality(matches') = request.limit /\ \A m \in matches' : m < a
    BY DEF NothingMissed
  <2>1. a \notin MatchesBelow(memory, regions[r], request, reached[r])
    <3>1. a \notin matches /\ Cardinality(matches) # request.limit
      BY Found, Sizes DEF IInv, LimitInv
    <3> QED
      BY <3>1 DEF IInv, NothingMissed
  <2>2. r = region
    BY <1>6, <2>1
  <2>3. /\ a \in Nat /\ Start <= a /\ a + Length <= Address + Len(data)
        /\ Aligned(a, request) /\ HoldsAt(memory, request.pattern, a)
    BY <1>6, <2>2, MaxAddressAssumption DEF MatchesBelow, Start, Length, Addresses
  <2>4. a + Length > Address
    <3>1. ~(a + Length <= Address)
      BY <2>1, <2>2, <2>3 DEF MatchesBelow, Start, Length, Address
    <3> QED
      BY <1>5, <2>3, <3>1
  <2>5. a \in nextCandidate .. Address + Len(data) - Length
    <3>1. Len(tail) = SmallerOf(Length - 1, Address - Start)
      BY Front
    <3>2. a >= nextCandidate
      BY <1>5, <2>3, <2>4, <3>1 DEF SmallerOf
    <3> QED
      BY <1>2, <1>5, <2>3, <3>2
  <2>6. Fits(tail \o data, request.pattern, a - nextCandidate + 1)
    BY <1>17, <2>3, <2>5
  <2> QED
    BY <2>3, <2>5, <2>6, Found
<1> QED
  BY <1>11, <1>12, <1>14, <1>15, <1>16, <1>18, <1>19 DEF IInv

-----------------------------------------------------------------------------
(* What the client finds in the stream: its own answer, unless one came     *)
(* late.                                                                    *)
LEMMA Answers ==
  ASSUME IInv, pc = "read", NEW n \in 0 .. Requested
  PROVE  /\ Unread(n) \in Seq(Seq(Bytes))
         /\ Head(Unread(n)) \in Seq(Bytes) /\ Tail(Unread(n)) \in Seq(Seq(Bytes))
         /\ ~late => /\ Tail(Unread(n)) = <<>> /\ Len(Head(Unread(n))) = n
                     /\ \A i \in 1 .. n : Head(Unread(n))[i] = memory[Address + i - 1]
<1> DEFINE bytes == BytesAt(Address, n)
<1>1. /\ n \in Nat /\ Address \in Nat /\ Address + n <= MaxAddress
      /\ \A i \in 1 .. n : Address + i - 1 \in Addresses
  <2>1. /\ Address \in Nat /\ End \in 0 .. MaxAddress /\ Requested \in Nat
        /\ Address + Requested <= End
    BY Front
  <2> QED
    BY <2>1, MaxAddressAssumption DEF Addresses
<1>2. bytes \in [1 .. n -> Bytes]
  BY <1>1 DEF BytesAt, IInv, TypeOK, Memories
<1>3. bytes \in Seq(Bytes) /\ Len(bytes) = n /\ \A i \in 1 .. n : bytes[i] = memory[Address + i - 1]
  BY <1>1, <1>2 DEF BytesAt
<1>4. stream \in Seq(Seq(Bytes))
  BY DEF IInv, TypeOK
<1> HIDE DEF bytes
<1>5. Unread(n) = Append(stream, bytes)
  BY DEF Unread, bytes
<1>6. Unread(n) \in Seq(Seq(Bytes)) /\ Unread(n) # <<>>
  BY <1>3, <1>4, <1>5, AppendProperties
<1>7. Head(Unread(n)) \in Seq(Bytes) /\ Tail(Unread(n)) \in Seq(Seq(Bytes))
  BY <1>6, HeadTailProperties
<1>8. ASSUME ~late PROVE Head(Unread(n)) = bytes /\ Tail(Unread(n)) = <<>>
  BY <1>4, <1>5, <1>8, HeadTailAppend DEF IInv, TrueInv
<1> QED
  BY <1>3, <1>6, <1>7, <1>8

(* Every step keeps the invariant.                                          *)
LEMMA NextIInv == IInv /\ [Next]_vars => IInv'
<1> SUFFICES ASSUME IInv, [Next]_vars PROVE IInv'
  OBVIOUS
<1>1. CASE SkipRegion
  BY <1>1, LeaveIInv DEF SkipRegion, IInv, TypeOK, TrueInv
<1>2. CASE EnterRegion
  BY <1>2, EnterIInv
<1>3. CASE ReadLost
  <2>1. <<>> \in Seq(Seq(Bytes))
    BY EmptySeq
  <2> QED
    BY <1>3, <2>1, LeaveIInv DEF ReadLost, IInv, TypeOK, TrueInv
<1>4. CASE ReadFails
  BY <1>4, LeaveIInv DEF ReadFails, IInv, TypeOK, TrueInv
<1>5. ASSUME pc = "read", NEW n \in 0 .. Requested, ReadChunk(n) PROVE IInv'
  <2> DEFINE data == Head(Unread(n))
  <2>1. data \in Seq(Bytes) /\ Tail(Unread(n)) \in Seq(Seq(Bytes))
    BY <1>5, Answers
  <2>2. /\ data # <<>> /\ Len(data) <= Requested /\ Scan(data) /\ Continue(data)
        /\ stream' = Tail(Unread(n)) /\ UNCHANGED <<inputs, link, late>>
    BY <1>5 DEF ReadChunk
  <2>3. (~late => stream' = <<>>) /\ IsAnswer(data)
    BY <1>5, <2>2, Answers DEF IsAnswer
  <2> HIDE DEF data
  <2>4. Len(data) \in 1 .. Requested
    BY <1>5, <2>1, <2>2, EmptySeq, Front
  <2> QED
    BY <1>5, <2>1, <2>2, <2>3, <2>4, ScanIInv
<1>6. ASSUME pc = "read", NEW n \in 0 .. Requested, ReadNothing(n) PROVE IInv'
  BY <1>6, Answers, LeaveIInv DEF ReadNothing, IInv, TypeOK, TrueInv
<1>7. ASSUME pc = "read", NEW n \in 0 .. Requested, ReadTimesOut(n) PROVE IInv'
  BY <1>7, Answers, LeaveIInv DEF ReadTimesOut, IInv, TypeOK, TrueInv
<1>8. ASSUME pc = "read", NEW n \in 0 .. Requested, ReadRefused(n) PROVE IInv'
  <2>1. <<>> \in Seq(Seq(Bytes))
    BY EmptySeq
  <2>2. late
    <3>1. Requested \in Nat
      BY <1>8, Front
    <3>2. ~late => Len(Head(Unread(n))) = n
      BY <1>8, Answers
    <3>3. Len(Head(Unread(n))) > Requested
      BY <1>8 DEF ReadRefused
    <3> QED
      BY <1>8, <3>1, <3>2, <3>3
  <2> QED
    BY <1>8, <2>1, <2>2, LeaveIInv DEF ReadRefused, IInv, TypeOK
<1>9. ASSUME pc = "read", NEW n \in 0 .. Requested, NEW data \in [1 .. n -> Bytes],
             data # <<>>, ReadGarbled(data)
      PROVE  IInv'
  <2>1. n \in Nat /\ n <= Requested
    BY <1>9, Front
  <2>2. data \in Seq(Bytes) /\ Len(data) = n
    BY <2>1
  <2>3. Len(data) \in 1 .. Requested
    BY <1>9, <2>1, <2>2, EmptySeq
  <2>4. late
    BY <1>9 DEF ReadGarbled, IInv, TrueInv
  <2>5. stream' \in Seq(Seq(Bytes))
    BY <1>9 DEF ReadGarbled, IInv, TypeOK
  <2> QED
    BY <1>9, <2>2, <2>3, <2>4, <2>5, ScanIInv DEF ReadGarbled, IsAnswer
<1>10. CASE UNCHANGED vars
  BY <1>10 DEF vars, inputs, IInv, TypeOK, LimitInv, FrontInv, PlaceInv, ToComeInv, TrueInv,
               NothingMissed, MatchesAreReal, Start, End, Address, Length
<1> QED
  BY <1>1, <1>2, <1>3, <1>4, <1>5, <1>6, <1>7, <1>8, <1>9, <1>10 DEF Next, Step, Read, Finished

(* The parts of the invariant hold in every state of a scan.                *)
THEOREM Invariance == Spec => []IInv
<1> QED
  BY InitIInv, NextIInv, PTL DEF Spec

(* Every variable keeps its type: the front never passes the largest        *)
(* address, and the limit is never exceeded.                                *)
THEOREM TypeCorrect == Spec => []TypeOK
<1>1. IInv => TypeOK
  BY DEF IInv
<1> QED
  BY <1>1, Invariance, PTL

(* Every reported address is aligned and lies inside a region that was to   *)
(* be scanned, also after late answers.                                     *)
THEOREM InBounds == Spec => []MatchesInBounds
<1>1. IInv => MatchesInBounds
  BY DEF IInv, PlaceInv, MatchesInBounds
<1> QED
  BY <1>1, Invariance, PTL

(* As long as no answer came late, nothing is missed in what was read.      *)
THEOREM NothingIsMissed == Spec => []NothingMissed
<1>1. IInv => NothingMissed
  BY DEF IInv
<1> QED
  BY <1>1, Invariance, PTL

(* As long as no answer came late, the memory holds the pattern at every    *)
(* address that is reported; the run on late answers shows that this is as  *)
(* far as it goes.                                                          *)
THEOREM RealUntilLate == Spec => [](~late => MatchesAreReal)
<1>1. IInv => (~late => MatchesAreReal)
  BY DEF IInv, TrueInv
<1> QED
  BY <1>1, Invariance, PTL

-----------------------------------------------------------------------------
(* The scanner implements the exact scan: its steps only add matches, and   *)
(* when it ends undisturbed it has them all or as many as were asked for.   *)
THEOREM Refinement == Spec => IsExactScan
<1> USE DEF inputs
<1>1. Init => Abstract!Init
  <2> SUFFICES ASSUME Init PROVE Abstract!Init
    OBVIOUS
  <2>1. pc = "done" => DOMAIN regions = {}
    <3>1. regions \in Seq(Region)
      BY RegionListsAssumption DEF Init
    <3> QED
      BY <3>1 DEF Init
  <2> QED
    BY <2>1 DEF Init, Abstract!Init, Abstract!Complete
<1>2. ASSUME IInv, IInv', Step PROVE Abstract!Proceed
  <2> DEFINE whole == {r \in DOMAIN regions : reached[r] >= RegionEnd(regions[r], request)}
  <2>0. \A r : Abstract!Matches(r) = MatchesOf(memory, regions[r], request)
    BY Zenon
    DEF Abstract!Matches, Abstract!MatchesOf, Abstract!MatchesBelow, Abstract!IsScanned,
        Abstract!RegionStart, Abstract!RegionEnd, Abstract!SaturatingAdd, Abstract!SmallerOf,
        Abstract!LargerOf, Abstract!Aligned, Abstract!HoldsAt, Abstract!Addresses,
        MatchesOf, MatchesBelow, IsScanned, RegionStart, RegionEnd, SaturatingAdd, SmallerOf,
        LargerOf, Aligned, HoldsAt, Addresses
  <2>a. \A S : Abstract!Cardinality(S) = Cardinality(S)
    BY Zenon DEF Abstract!Cardinality, Cardinality
  <2>1. pc # "done" /\ UNCHANGED inputs
    BY <1>2 DEF Step, SkipRegion, EnterRegion, ReadLost, ReadFails, Read, ReadChunk, ReadNothing,
                ReadTimesOut, ReadRefused, ReadGarbled
  <2>2. matches \subseteq matches'
    BY <1>2 DEF Step, SkipRegion, EnterRegion, ReadLost, ReadFails, Read, ReadChunk, ReadNothing,
                ReadTimesOut, ReadRefused, ReadGarbled, Scan
  <2>3. late => late'
    BY <1>2 DEF Step, SkipRegion, EnterRegion, ReadLost, ReadFails, Read, ReadChunk, ReadNothing,
                ReadTimesOut, ReadRefused, ReadGarbled
  <2>4. Cardinality(matches') <= request.limit
    BY <1>2, <2>1 DEF IInv, TypeOK
  <2>5. ASSUME ~late' PROVE matches' \subseteq Abstract!AllMatches
    <3> SUFFICES ASSUME NEW a \in matches' PROVE \E r \in DOMAIN regions : a \in Abstract!Matches(r)
      BY DEF Abstract!AllMatches
    <3>1. /\ a \in Addresses /\ Aligned(a, request) /\ HoldsAt(memory, request.pattern, a)
      BY <1>2, <2>1, <2>5 DEF IInv, TypeOK, PlaceInv, TrueInv, MatchesAreReal
    <3>2. PICK r \in DOMAIN regions :
            /\ IsScanned(regions[r], request)
            /\ RegionStart(regions[r], request) <= a
            /\ a + Length <= RegionEnd(regions[r], request)
      BY <1>2, <2>1 DEF IInv, PlaceInv, Length
    <3> QED
      BY <2>0, <3>1, <3>2 DEF MatchesOf, MatchesBelow, Length
  <2>6. ASSUME ~late' PROVE Abstract!Complete(matches', whole')
    <3> SUFFICES ASSUME Cardinality(matches') # request.limit, NEW r \in whole',
                        NEW a \in Abstract!Matches(r)
                 PROVE  a \in matches'
      BY <2>a, <2>1 DEF Abstract!Complete
    <3>1. /\ r \in DOMAIN regions /\ IsScanned(regions[r], request)
          /\ a \in MatchesBelow(memory, regions[r], request, RegionEnd(regions[r], request))
          /\ reached'[r] >= RegionEnd(regions[r], request)
      BY <2>0, <2>1 DEF MatchesOf
    <3>2. reached'[r] \in Nat /\ RegionEnd(regions[r], request) \in Nat
      BY <1>2, <2>1, <3>1, Sizes, MaxAddressAssumption DEF IInv, TypeOK
    <3>3. a \in Addresses /\ a \in Nat /\ Length \in Nat
      BY <1>2, <3>1, Sizes, MaxAddressAssumption DEF MatchesBelow, Addresses, IInv
    <3>4. a \in MatchesBelow(memory, regions[r], request, reached'[r])
      BY <3>1, <3>2, <3>3 DEF MatchesBelow, Length
    <3> QED
      BY <1>2, <2>1, <2>6, <3>1, <3>4 DEF IInv, NothingMissed
  <2> QED
    BY <2>a, <2>1, <2>2, <2>3, <2>4, <2>5, <2>6 DEF Abstract!Proceed, Abstract!inputs
<1>3. UNCHANGED vars => UNCHANGED Abstract!vars
  BY DEF vars, Abstract!vars, Abstract!inputs
<1>4. IInv /\ IInv' /\ [Next]_vars => [Abstract!Proceed]_(Abstract!vars)
  BY <1>2, <1>3 DEF Next, Finished
<1> QED
  BY <1>1, <1>4, Invariance, PTL DEF Spec, IsExactScan, Abstract!Spec
=============================================================================
