--------------------------- MODULE HandleListProofs ---------------------------
(***************************************************************************)
(* Proofs about HandleList, for any connections, processes and bounds.     *)
(* Commands may overlap; what is proved holds until the first time a       *)
(* command that opens or closes a handle starts while another one is under *)
(* way.  Commands that use a handle, and the ends of connections, may come *)
(* between any two steps of an open or a close.                            *)
(***************************************************************************)
EXTENDS HandleList, FiniteSetTheorems, FunctionTheorems, SequenceTheorems,
        WellFoundedInduction, TLAPS

(* The steps of a command that ends with a handle for the client, and those *)
(* of CreateHandleFromPointer.                                              *)
Placing == {"find", "grow", "storePointer", "storeType"}
Opening == {"search", "addRef", "alloc", "firstModule"} \cup Placing

Listed(i) == list[i].type # "empty"

(* A command is about to give the place back.                               *)
Removing(i) == \E t \in Threads : pc[t] = "remove" /\ reg[t].handle = i

(* A command has taken a reference off the object and is to look at it.     *)
Freeing(i) == \E t \in Threads : pc[t] \in {"free", "remove"} /\ reg[t].handle = i

(* The holds on a place, given who holds what.                              *)
HoldsIn(h, i) ==
  {p \in Threads \X (1 .. MaxHeld) : p[2] <= Len(h[p[1]]) /\ h[p[1]][p[2]].handle = i}

(* A hold leads to what it was opened for, and a client stands where the    *)
(* iterator of its snapshot does.                                           *)
LeadsIn(places, objects, e) ==
  /\ e.handle \in DOMAIN places /\ places[e.handle].type = e.kind
  /\ objects[places[e.handle].ptr].key = e.key
  /\ e.kind = "snapshot" => objects[places[e.handle].ptr].iterator = e.seen

(* The references to an object.  A pipe has always one.                     *)
Weight(i) == IF list[i].type = "pipe" THEN 1 ELSE Target(i).refs

(* The reference of a command that will return the handle or is closing it. *)
Owing(i) ==
  \E t \in Threads :
    /\ reg[t].handle = i
    /\ pc[t] \in {"unref", "firstModule"} \/ (pc[t] = "free" /\ list[i].type = "pipe")
Owed(i) == IF Owing(i) THEN 1 ELSE 0

-----------------------------------------------------------------------------
(* One open or close at a time.                                             *)
SerialInv ==
  /\ \A t \in Threads : pc[t] # "idle" => t \in up
  /\ \A t, u \in Threads : pc[t] # "idle" /\ pc[u] # "idle" => t = u
  /\ \A t \in Threads : /\ Len(held[t]) <= MaxHeld
                        /\ pc[t] \in Opening => Len(held[t]) < MaxHeld
  /\ Len(heap) <= MaxObjects

(* A place in use leads to an object of its kind that is not freed.         *)
ListInv ==
  \A i \in DOMAIN list : Listed(i) =>
    /\ list[i].ptr \in DOMAIN heap
    /\ Target(i).kind = list[i].type
    /\ Target(i).live \/ Removing(i)
    /\ list[i].type # "pipe" => Target(i).refs >= 1 \/ Freeing(i)
    /\ list[i].type = "snapshot" => Target(i).refs <= 1
    /\ list[i].type = "pipe" => Target(i).refs = 0

(* No two places lead to one object or stand for one process.               *)
UniqueInv ==
  \A i, j \in DOMAIN list : Listed(i) /\ Listed(j) =>
    /\ list[i].ptr = list[j].ptr => i = j
    /\ IsProcessOf(i, Target(j).key) /\ list[j].type = "process" => i = j

(* What the command of a thread knows, by the step it is at.                *)
RegInv(t) ==
  LET r == reg[t] IN
  /\ pc[t] \in {"search", "addRef", "firstModule"} => r.kind = "process"
  /\ pc[t] \in {"addRef", "firstModule"} => r.handle \in DOMAIN list /\ IsProcessOf(r.handle, r.key)
  /\ pc[t] \in {"alloc"} \cup Placing /\ r.kind = "process" =>
       \A i \in DOMAIN list : ~IsProcessOf(i, r.key)
  /\ pc[t] \in Placing => /\ r.object \in DOMAIN heap
                          /\ heap[r.object] = NewObject(t)
                          /\ \A i \in DOMAIN list : Listed(i) => list[i].ptr # r.object
  /\ pc[t] \in {"storePointer", "storeType"} => r.handle \in DOMAIN list /\ IsEmpty(r.handle)
  /\ pc[t] = "storeType" => list[r.handle].ptr = r.object
  /\ pc[t] \in {"firstModule", "unref", "free", "remove"} =>
       r.handle \in DOMAIN list /\ Listed(r.handle) /\ list[r.handle].ptr = r.object
  /\ pc[t] = "unref" => list[r.handle].type # "pipe"
  /\ pc[t] = "remove" => ~heap[r.object].live

(* References and holds are the same number, but for what growing the list  *)
(* and connections that ended left behind.                                  *)
CountInv ==
  \A i \in DOMAIN list : Listed(i) /\ ~Removing(i) =>
    /\ grown = 0 => Cardinality(HoldsIn(held, i)) + Owed(i) <= Weight(i)
    /\ lost = 0 => Weight(i) <= Cardinality(HoldsIn(held, i)) + Owed(i)

(* A handle that is held leads to what it was opened for.                   *)
HeldInv ==
  grown = 0 => \A t \in Threads : \A k \in 1 .. Len(held[t]) :
    LeadsIn(list, heap, held[t][k]) /\ ~Removing(held[t][k].handle)

(* A pipe that is open is in the list or on its way there.                  *)
PipeInv ==
  /\ grown = 0 => \A o \in DOMAIN heap : heap[o].kind = "pipe" /\ heap[o].live =>
       \/ \E i \in DOMAIN list : list[i].type = "pipe" /\ list[i].ptr = o
       \/ \E t \in Threads : pc[t] \in Placing /\ reg[t].object = o
  /\ up = {} => \A i \in DOMAIN list : list[i].type # "pipe"

(* A connection that has ended holds nothing.                               *)
GoneInv == \A t \in Threads : t \notin up => held[t] = <<>>

FaultInv == fault = "none" \/ (fault = "mistaken" /\ grown # 0)

IInv ==
  /\ DataOK /\ SerialInv /\ ListInv /\ UniqueInv /\ CountInv /\ HeldInv /\ PipeInv /\ FaultInv
  /\ \A t \in Threads : RegInv(t)

-----------------------------------------------------------------------------
(* Counting holds.                                                          *)

LEMMA HoldsFinite ==
  ASSUME NEW h, NEW i
  PROVE  /\ IsFiniteSet(HoldsIn(h, i)) /\ Cardinality(HoldsIn(h, i)) \in Nat
         /\ Cardinality(HoldsIn(h, i)) = 0 <=> HoldsIn(h, i) = {}
<1>1. IsFiniteSet(1 .. MaxHeld)
  BY FS_Interval, BoundsAssumption
<1>2. IsFiniteSet(Threads \X (1 .. MaxHeld))
  BY <1>1, FS_Product, ThreadsAssumption
<1>3. HoldsIn(h, i) \in SUBSET (Threads \X (1 .. MaxHeld))
  BY DEF HoldsIn
<1> QED
  BY <1>2, <1>3, FS_Subset, FS_CardinalityType, FS_EmptySet

(* A connection is given a handle.                                          *)
Plus(h, t, e) == [h EXCEPT ![t] = Append(h[t], e)]

LEMMA Appended ==
  ASSUME NEW h \in [Threads -> Seq(Held)], NEW t \in Threads, Len(h[t]) < MaxHeld,
         NEW e \in Held, NEW i
  PROVE  Cardinality(HoldsIn(Plus(h, t, e), i)) =
           Cardinality(HoldsIn(h, i)) + (IF e.handle = i THEN 1 ELSE 0)
<1> DEFINE g == Plus(h, t, e)
           n == Len(h[t]) + 1
<1>1. /\ Len(h[t]) \in Nat /\ n \in 1 .. MaxHeld
      /\ Len(g[t]) = n /\ g[t][n] = e
      /\ \A k \in 1 .. Len(h[t]) : g[t][k] = h[t][k]
      /\ \A u \in Threads : u # t => g[u] = h[u]
  BY AppendProperties, LenProperties, BoundsAssumption DEF Plus
<1> HIDE DEF g
<1>2. HoldsIn(g, i) = IF e.handle = i THEN HoldsIn(h, i) \cup {<<t, n>>} ELSE HoldsIn(h, i)
  <2> SUFFICES ASSUME NEW u \in Threads, NEW k \in 1 .. MaxHeld
               PROVE  (k <= Len(g[u]) /\ g[u][k].handle = i) <=>
                        \/ k <= Len(h[u]) /\ h[u][k].handle = i
                        \/ e.handle = i /\ u = t /\ k = n
    BY <1>1 DEF HoldsIn
  <2>1. CASE u # t
    BY <1>1, <2>1
  <2>2. CASE u = t
    BY <1>1, <2>2, BoundsAssumption
  <2> QED
    BY <2>1, <2>2
<1>3. <<t, n>> \notin HoldsIn(h, i)
  BY <1>1 DEF HoldsIn
<1>4. IsFiniteSet(HoldsIn(h, i)) /\ Cardinality(HoldsIn(h, i)) \in Nat
  BY HoldsFinite
<1> HIDE DEF n
<1>5. Cardinality(HoldsIn(h, i) \cup {<<t, n>>}) = Cardinality(HoldsIn(h, i)) + 1
  BY <1>3, <1>4, FS_AddElement
<1> QED
  BY <1>2, <1>4, <1>5 DEF g

(* A connection closes the k-th of the handles it holds.                    *)
Without(s, k) == SubSeq(s, 1, k - 1) \o SubSeq(s, k + 1, Len(s))

LEMMA WithoutProperties ==
  ASSUME NEW S, NEW s \in Seq(S), NEW k \in 1 .. Len(s)
  PROVE  /\ Without(s, k) \in Seq(S) /\ Len(Without(s, k)) = Len(s) - 1
         /\ Len(s) \in Nat \ {0} /\ Len(Without(s, k)) \in Nat
         /\ \A j \in 1 .. Len(s) - 1 : Without(s, k)[j] = IF j < k THEN s[j] ELSE s[j + 1]
<1> DEFINE a == SubSeq(s, 1, k - 1)
           b == SubSeq(s, k + 1, Len(s))
<1>1. Len(s) \in Nat /\ k \in Nat /\ 1 <= k /\ k <= Len(s) /\ \A j \in 1 .. Len(s) : s[j] \in S
  BY LenProperties
<1>2. /\ a \in Seq(S) /\ Len(a) = k - 1
      /\ \A j \in 1 .. k - 1 : a[j] = s[j]
  <2>1. \A j \in 1 .. k - 1 : s[j] \in S
    BY <1>1
  <2>2. /\ a \in Seq(S) /\ Len(a) = IF 1 <= k - 1 THEN (k - 1) - 1 + 1 ELSE 0
        /\ \A j \in 1 .. (k - 1) - 1 + 1 : a[j] = s[1 + j - 1]
    BY <1>1, <2>1, SubSeqProperties
  <2> HIDE DEF a
  <2> QED
    BY <1>1, <2>2
<1>3. /\ b \in Seq(S) /\ Len(b) = Len(s) - k
      /\ \A j \in 1 .. Len(s) - k : b[j] = s[k + j]
  <2>1. \A j \in k + 1 .. Len(s) : s[j] \in S
    BY <1>1
  <2>2. /\ b \in Seq(S) /\ Len(b) = IF k + 1 <= Len(s) THEN Len(s) - (k + 1) + 1 ELSE 0
        /\ \A j \in 1 .. Len(s) - (k + 1) + 1 : b[j] = s[(k + 1) + j - 1]
    BY <1>1, <2>1, SubSeqProperties
  <2> HIDE DEF b
  <2>3. Len(s) - (k + 1) + 1 = Len(s) - k
    BY <1>1
  <2>4. Len(b) = Len(s) - k
    BY <1>1, <2>2
  <2>5. ASSUME NEW j \in 1 .. Len(s) - k PROVE b[j] = s[k + j]
    <3>1. (k + 1) + j - 1 = k + j
      BY <1>1
    <3>2. b[j] = s[(k + 1) + j - 1]
      BY <2>2, <2>3
    <3> QED
      BY <3>1, <3>2, Zenon
  <2> QED
    BY <2>2, <2>4, <2>5
<1>4. Without(s, k) = a \o b
  BY DEF Without
<1> HIDE DEF a, b
<1>5. /\ a \o b \in Seq(S) /\ Len(a \o b) = Len(a) + Len(b)
      /\ \A j \in 1 .. Len(a) + Len(b) : (a \o b)[j] = IF j <= Len(a) THEN a[j] ELSE b[j - Len(a)]
  BY <1>2, <1>3, ConcatProperties
<1>6. Len(a) + Len(b) = Len(s) - 1
  BY <1>1, <1>2, <1>3
<1>7. ASSUME NEW j \in 1 .. Len(s) - 1
      PROVE  (a \o b)[j] = IF j < k THEN s[j] ELSE s[j + 1]
  <2>1. (a \o b)[j] = IF j <= k - 1 THEN a[j] ELSE b[j - (k - 1)]
    BY <1>2, <1>5, <1>6
  <2>2. CASE j < k
    BY <1>1, <1>2, <2>1, <2>2
  <2>3. CASE j >= k
    <3>1. j - (k - 1) \in 1 .. Len(s) - k /\ k + (j - (k - 1)) = j + 1 /\ ~(j <= k - 1)
      BY <1>1, <2>3
    <3>2. b[j - (k - 1)] = s[k + (j - (k - 1))]
      BY <1>3, <3>1
    <3>3. (a \o b)[j] = b[j - (k - 1)] /\ ~(j < k)
      BY <1>1, <2>1, <2>3, <3>1
    <3>4. b[j - (k - 1)] = s[j + 1]
      BY <3>1, <3>2, Zenon
    <3> QED
      BY <3>3, <3>4
  <2>4. j < k \/ j >= k
    BY <1>1
  <2> QED
    BY <2>2, <2>3, <2>4, Zenon
<1> QED
  BY <1>1, <1>4, <1>5, <1>6, <1>7

Minus(h, t, k) == [h EXCEPT ![t] = Without(h[t], k)]

LEMMA Removed ==
  ASSUME NEW h \in [Threads -> Seq(Held)], NEW t \in Threads, NEW k \in 1 .. Len(h[t]),
         Len(h[t]) <= MaxHeld,
         NEW i
  PROVE  Cardinality(HoldsIn(h, i)) =
           Cardinality(HoldsIn(Minus(h, t, k), i)) + (IF h[t][k].handle = i THEN 1 ELSE 0)
<1> DEFINE g == Minus(h, t, k)
           S == HoldsIn(g, i)
           T == HoldsIn(h, i) \ {<<t, k>>}
           move(p) == IF p[1] = t /\ p[2] >= k THEN <<t, p[2] + 1>> ELSE p
           f == [p \in S |-> move(p)]
<1>1. /\ Len(h[t]) \in Nat \ {0} /\ k \in Nat /\ 1 <= k /\ k <= Len(h[t])
      /\ Len(g[t]) = Len(h[t]) - 1
      /\ \A j \in 1 .. Len(h[t]) - 1 : g[t][j] = IF j < k THEN h[t][j] ELSE h[t][j + 1]
      /\ \A u \in Threads : u # t => g[u] = h[u]
  BY WithoutProperties, LenProperties DEF Minus
<1> HIDE DEF g
<1>2. \A p : p \in S <=> /\ p \in Threads \X (1 .. MaxHeld)
                         /\ p[2] <= Len(g[p[1]]) /\ g[p[1]][p[2]].handle = i
  BY DEF HoldsIn
<1>3. \A p : p \in HoldsIn(h, i) <=> /\ p \in Threads \X (1 .. MaxHeld)
                         /\ p[2] <= Len(h[p[1]]) /\ h[p[1]][p[2]].handle = i
  BY DEF HoldsIn
<1> HIDE DEF S
<1>4. ASSUME NEW p \in S PROVE move(p) \in T
  <2>1. p \in Threads \X (1 .. MaxHeld) /\ p[2] <= Len(g[p[1]]) /\ g[p[1]][p[2]].handle = i
    BY <1>2
  <2>2. p = <<p[1], p[2]>> /\ p[1] \in Threads /\ p[2] \in Nat /\ 1 <= p[2] /\ p[2] <= MaxHeld
    BY <2>1, BoundsAssumption
  <2>3. CASE p[1] # t
    BY <1>1, <1>3, <2>1, <2>2, <2>3
  <2>4. CASE p[1] = t /\ p[2] < k
    <3>1. p[2] <= Len(h[t]) /\ h[t][p[2]].handle = i
      BY <1>1, <2>1, <2>2, <2>4
    <3>2. p \in HoldsIn(h, i) /\ p # <<t, k>>
      BY <1>1, <1>3, <2>1, <2>2, <2>4, <3>1
    <3>3. move(p) = p
      BY <1>1, <2>2, <2>4
    <3> QED
      BY <3>2, <3>3
  <2>5. CASE p[1] = t /\ p[2] >= k
    <3> DEFINE q == <<t, p[2] + 1>>
    <3>1. q \in Threads \X (1 .. MaxHeld) /\ q[1] = t /\ q[2] = p[2] + 1
      BY <1>1, <2>1, <2>2, <2>5, BoundsAssumption
    <3>2. p[2] + 1 <= Len(h[t]) /\ h[t][p[2] + 1].handle = i
      BY <1>1, <2>1, <2>2, <2>5
    <3>3. q # <<t, k>>
      BY <1>1, <2>2, <2>5
    <3> QED
      BY <1>3, <2>5, <3>1, <3>2, <3>3
  <2> QED
    BY <1>1, <2>2, <2>3, <2>4, <2>5
<1>5. ASSUME NEW p \in S, NEW q \in S, move(p) = move(q) PROVE p = q
  <2>1. /\ p = <<p[1], p[2]>> /\ q = <<q[1], q[2]>>
        /\ p[2] \in Int /\ q[2] \in Int
    BY <1>2, BoundsAssumption
  <2> QED
    BY <1>1, <1>5, <2>1
<1>6. ASSUME NEW q \in T PROVE \E p \in S : move(p) = q
  <2>1. /\ q \in Threads \X (1 .. MaxHeld) /\ q[2] <= Len(h[q[1]]) /\ h[q[1]][q[2]].handle = i
        /\ q # <<t, k>>
    BY <1>3
  <2>2. q = <<q[1], q[2]>> /\ q[1] \in Threads /\ q[2] \in Nat /\ 1 <= q[2] /\ q[2] <= MaxHeld
    BY <2>1, BoundsAssumption
  <2>3. CASE q[1] # t
    <3>1. q \in S
      BY <1>1, <1>2, <2>1, <2>2, <2>3
    <3> QED
      BY <2>3, <3>1
  <2>4. CASE q[1] = t /\ q[2] < k
    <3>1. q \in S
      BY <1>1, <1>2, <2>1, <2>2, <2>4
    <3> QED
      BY <1>1, <2>2, <2>4, <3>1
  <2>5. CASE q[1] = t /\ q[2] >= k
    <3> DEFINE p == <<t, q[2] - 1>>
    <3>1. q[2] > k
      BY <1>1, <2>1, <2>2, <2>5
    <3>2. p \in Threads \X (1 .. MaxHeld) /\ p[1] = t /\ p[2] = q[2] - 1
      BY <1>1, <2>2, <3>1, BoundsAssumption
    <3>3. q[2] - 1 <= Len(g[t]) /\ g[t][q[2] - 1].handle = i
      BY <1>1, <2>1, <2>2, <2>5, <3>1
    <3>4. p \in S
      BY <1>2, <3>2, <3>3
    <3>5. move(p) = q
      BY <1>1, <2>2, <2>5, <3>1, <3>2
    <3> QED
      BY <3>4, <3>5
  <2> QED
    BY <1>1, <2>2, <2>3, <2>4, <2>5
<1>7. f \in Bijection(S, T)
  <2> HIDE DEF T, move
  <2>1. f \in [S -> T] /\ \A p \in S : f[p] = move(p)
    BY <1>4
  <2> HIDE DEF f
  <2> QED
    BY <1>5, <1>6, <2>1, Fun_IsBij
<1>8. IsFiniteSet(S) /\ IsFiniteSet(HoldsIn(h, i)) /\ Cardinality(HoldsIn(h, i)) \in Nat
  BY HoldsFinite DEF S
<1>9. Cardinality(T) = Cardinality(S)
  BY <1>7, <1>8, FS_Bijection DEF ExistsBijection
<1>10. Cardinality(T) = IF <<t, k>> \in HoldsIn(h, i) THEN Cardinality(HoldsIn(h, i)) - 1
                        ELSE Cardinality(HoldsIn(h, i))
  BY <1>8, FS_RemoveElement
<1>11. <<t, k>> \in HoldsIn(h, i) <=> h[t][k].handle = i
  BY <1>1, <1>3, BoundsAssumption
<1>12. Cardinality(HoldsIn(Minus(h, t, k), i)) = Cardinality(S)
  BY DEF S, g
<1> HIDE DEF T
<1>13. CASE h[t][k].handle = i
  <2>1. Cardinality(S) = Cardinality(HoldsIn(h, i)) - 1
    BY <1>9, <1>10, <1>11, <1>13
  <2> QED
    BY <1>8, <1>12, <1>13, <2>1
<1>14. CASE h[t][k].handle # i
  <2>1. Cardinality(S) = Cardinality(HoldsIn(h, i))
    BY <1>9, <1>10, <1>11, <1>14
  <2> QED
    BY <1>8, <1>12, <1>14, <2>1
<1> QED
  BY <1>13, <1>14

(* A connection ends.                                                       *)
Nothing(h, t) == [h EXCEPT ![t] = <<>>]

LEMMA Dropped ==
  ASSUME NEW h \in [Threads -> Seq(Held)], NEW t \in Threads, NEW i
  PROVE  /\ Cardinality(HoldsIn(Nothing(h, t), i)) <= Cardinality(HoldsIn(h, i))
         /\ h[t] = <<>> => Cardinality(HoldsIn(Nothing(h, t), i)) = Cardinality(HoldsIn(h, i))
<1> DEFINE g == Nothing(h, t)
<1>1. HoldsIn(g, i) \in SUBSET HoldsIn(h, i)
  <2> USE DEF Nothing
  <2> SUFFICES ASSUME NEW u \in Threads, NEW k \in 1 .. MaxHeld, k <= Len(g[u]), g[u][k].handle = i
               PROVE  k <= Len(h[u]) /\ h[u][k].handle = i
    BY DEF HoldsIn
  <2>1. u # t
    BY EmptySeq, BoundsAssumption
  <2> QED
    BY <2>1
<1>2. h[t] = <<>> => g = h
  BY DEF Nothing
<1> HIDE DEF g
<1> QED
  BY <1>1, <1>2, HoldsFinite, FS_Subset DEF g

-----------------------------------------------------------------------------
(* What follows from the invariant in every state.                          *)

Registers == [handle : Nat, object : Nat, kind : Kinds, key : Keys]

LEMMA Shape ==
  ASSUME DataOK
  PROVE  /\ Len(list) \in Nat /\ DOMAIN list = 1 .. Len(list)
         /\ \A i \in DOMAIN list : list[i] \in Entry
         /\ Len(heap) \in Nat /\ DOMAIN heap = 1 .. Len(heap)
         /\ \A o \in DOMAIN heap : heap[o] \in Object
         /\ \A t \in Threads : /\ pc[t] \in Steps /\ reg[t] \in Registers
                               /\ held[t] \in Seq(Held)
                               /\ Len(held[t]) \in Nat /\ DOMAIN held[t] = 1 .. Len(held[t])
         /\ \A t \in Threads : \A k \in 1 .. Len(held[t]) : held[t][k] \in Held
<1>1. /\ Len(list) \in Nat /\ DOMAIN list = 1 .. Len(list)
      /\ \A i \in DOMAIN list : list[i] \in Entry
  BY LenProperties DEF DataOK
<1>2. /\ Len(heap) \in Nat /\ DOMAIN heap = 1 .. Len(heap)
      /\ \A o \in DOMAIN heap : heap[o] \in Object
  BY LenProperties DEF DataOK
<1>3. \A t \in Threads : pc[t] \in Steps /\ reg[t] \in Registers /\ held[t] \in Seq(Held)
  BY DEF DataOK, Registers
<1>4. \A t \in Threads : /\ Len(held[t]) \in Nat /\ DOMAIN held[t] = 1 .. Len(held[t])
                         /\ \A k \in 1 .. Len(held[t]) : held[t][k] \in Held
  BY <1>3, LenProperties
<1> QED
  BY <1>1, <1>2, <1>3, <1>4

(* While a command runs the other threads are idle.                         *)
LEMMA Acting ==
  ASSUME IInv, NEW t \in Threads, pc[t] # "idle"
  PROVE  t \in up /\ \A u \in Threads : u # t => pc[u] = "idle"
  BY DEF IInv, SerialInv

LEMMA Starting ==
  ASSUME NEW t \in Threads, StartChange(t), ~overlapped'
  PROVE  t \in up /\ fault = "none" /\ \A u \in Threads : pc[u] = "idle"
  BY DEF StartChange, Start, Clash, Quiet, At

LEMMA Using ==
  ASSUME NEW t \in Threads, StartUse(t), ~overlapped'
  PROVE  /\ t \in up /\ fault = "none" /\ pc[t] = "idle"
         /\ (\A u \in Threads : pc[u] = "idle") \/ grown = 0
  BY DEF StartUse, Start, Clash, Quiet, At

(* The steps at which a command has a place to itself.                      *)
Taking == {"unref", "firstModule", "free", "remove"}

LEMMA Calm ==
  ASSUME \A t \in Threads : pc[t] \notin Taking
  PROVE  \A i : ~Removing(i) /\ ~Freeing(i) /\ ~Owing(i)
  BY DEF Taking, Removing, Freeing, Owing

LEMMA CalmAfter ==
  ASSUME \A t \in Threads : pc'[t] \notin Taking
  PROVE  \A i : ~Removing(i)' /\ ~Freeing(i)' /\ ~Owing(i)'
  BY DEF Taking, Removing, Freeing, Owing

LEMMA OnlyActor ==
  ASSUME NEW t \in Threads, \A u \in Threads : u # t => pc[u] = "idle"
  PROVE  \A i : /\ Removing(i) <=> pc[t] = "remove" /\ reg[t].handle = i
                /\ Freeing(i) <=> pc[t] \in {"free", "remove"} /\ reg[t].handle = i
                /\ Owing(i) <=> /\ reg[t].handle = i
                                /\ \/ pc[t] \in {"unref", "firstModule"}
                                   \/ pc[t] = "free" /\ list[i].type = "pipe"
  BY DEF Removing, Freeing, Owing

LEMMA OnlyActorAfter ==
  ASSUME NEW t \in Threads, \A u \in Threads : u # t => pc'[u] = "idle"
  PROVE  \A i : /\ Removing(i)' <=> pc'[t] = "remove" /\ reg'[t].handle = i
                /\ Freeing(i)' <=> pc'[t] \in {"free", "remove"} /\ reg'[t].handle = i
                /\ Owing(i)' <=> /\ reg'[t].handle = i
                                 /\ \/ pc'[t] \in {"unref", "firstModule"}
                                    \/ pc'[t] = "free" /\ list'[i].type = "pipe"
  BY DEF Removing, Freeing, Owing

LEMMA IdleReg ==
  ASSUME NEW u \in Threads, pc'[u] = "idle"
  PROVE  RegInv(u)'
  BY DEF RegInv, Placing

-----------------------------------------------------------------------------
(* Steps that only move a thread on.                                        *)
LEMMA Moves ==
  ASSUME IInv, NEW t \in Threads, \A u \in Threads : u # t => pc[u] = "idle",
         NEW s \in Steps \ Taking, NEW r \in Registers, pc[t] \notin Taking,
         pc[t] \in Placing => s \in Placing /\ r.object = reg[t].object,
         pc' = [pc EXCEPT ![t] = s], reg' = [reg EXCEPT ![t] = r],
         UNCHANGED <<list, heap, held, up, grown, lost>>, FaultInv',
         s # "idle" => t \in up, s \in Opening => Len(held[t]) < MaxHeld,
         RegInv(t)'
  PROVE  IInv'
<1>1. /\ pc'[t] = s /\ \A u \in Threads : u # t => pc'[u] = "idle"
      /\ pc' \in [Threads -> Steps] /\ reg' \in [Threads -> Registers]
  BY DEF IInv, DataOK, Registers
<1>2. \A i : ~Removing(i) /\ ~Freeing(i) /\ ~Owing(i)
  BY Calm DEF Taking
<1>3. \A i : ~Removing(i)' /\ ~Freeing(i)' /\ ~Owing(i)'
  BY <1>1, CalmAfter DEF Taking
<1>4. DataOK'
  BY <1>1 DEF IInv, DataOK, Registers, FaultInv
<1>5. SerialInv'
  BY <1>1 DEF IInv, SerialInv, Opening, Placing
<1>6. ListInv'
  BY <1>2, <1>3 DEF IInv, ListInv, Listed, Target
<1>7. UniqueInv'
  BY DEF IInv, UniqueInv, Listed, Target, IsProcessOf
<1>8. CountInv'
  BY <1>2, <1>3 DEF IInv, CountInv, Listed, Target, Weight, Owed
<1>9. HeldInv'
  BY <1>2, <1>3 DEF IInv, HeldInv, LeadsIn, Target
<1>10. PipeInv'
  <2>1. \A u \in Threads : pc[u] \in Placing =>
                             pc'[u] \in Placing /\ reg'[u].object = reg[u].object
    BY <1>1 DEF Placing, IInv, DataOK
  <2> QED
    BY <2>1 DEF IInv, PipeInv
<1>11. \A u \in Threads : RegInv(u)'
  BY <1>1, IdleReg
<1> QED
  BY <1>4, <1>5, <1>6, <1>7, <1>8, <1>9, <1>10, <1>11 DEF IInv

(* The first of a set of places is one of them.                             *)
LEMMA FirstPlace ==
  ASSUME NEW S \in SUBSET (Nat \ {0})
  PROVE  /\ S = {} => First(S) = 0
         /\ S # {} => First(S) \in S /\ First(S) # 0
<1>1. CASE S # {}
  <2> DEFINE R == OpToRel(<, Nat)
  <2>1. IsWellFoundedOn(R, Nat)
    BY NatLessThanWellFounded
  <2>2. \A i, j \in Nat : i < j => <<i, j>> \in R
    BY DEF OpToRel
  <2> HIDE DEF R
  <2>3. PICK i \in S : \A j \in S : ~(<<j, i>> \in R)
    BY <1>1, <2>1, WFMin
  <2>4. ASSUME NEW j \in S PROVE i <= j
    <3>1. i \in Nat /\ j \in Nat
      OBVIOUS
    <3>2. ~(j < i)
      BY <2>2, <2>3, <3>1
    <3> QED
      BY <3>1, <3>2
  <2> QED
    BY <1>1, <2>4 DEF First
<1>2. CASE S = {}
  BY <1>2 DEF First
<1> QED
  BY <1>1, <1>2

LEMMA OpenProcessStep ==
  ASSUME IInv, NEW t \in Threads, NEW p \in Pids, OpenProcess(t, p), ~overlapped'
  PROVE  IInv'
<1> DEFINE r == [NoRegister EXCEPT !.key = p]
<1>1. t \in up /\ fault = "none" /\ \A u \in Threads : pc[u] = "idle"
  BY Starting DEF OpenProcess
<1>2. /\ pc' = [pc EXCEPT ![t] = "search"] /\ reg' = [reg EXCEPT ![t] = r]
      /\ Len(held[t]) < MaxHeld
      /\ UNCHANGED <<list, heap, held, up, grown, lost, fault>>
  BY DEF OpenProcess, Goto
<1>3. r \in Registers /\ r.kind = "process"
  BY DEF NoRegister, Registers, Kinds, Keys
<1>4. RegInv(t)'
  BY <1>2, <1>3 DEF RegInv, Placing, IInv, DataOK
<1> HIDE DEF r
<1> QED
  BY <1>1, <1>2, <1>3, <1>4, Moves DEF Steps, Taking, Placing, FaultInv, IInv

LEMMA CreateOwnStep ==
  ASSUME IInv, NEW t \in Threads, NEW kind \in {"snapshot", "pipe"}, CreateOwn(t, kind), ~overlapped'
  PROVE  IInv'
<1> DEFINE r == [NoRegister EXCEPT !.kind = kind, !.key = t]
<1>1. t \in up /\ fault = "none" /\ \A u \in Threads : pc[u] = "idle"
  BY Starting DEF CreateOwn
<1>2. /\ pc' = [pc EXCEPT ![t] = "alloc"] /\ reg' = [reg EXCEPT ![t] = r]
      /\ Len(held[t]) < MaxHeld
      /\ UNCHANGED <<list, heap, held, up, grown, lost, fault>>
  BY DEF CreateOwn, Goto
<1>3. r \in Registers /\ r.kind # "process"
  BY DEF NoRegister, Registers, Kinds, Keys
<1>4. RegInv(t)'
  BY <1>2, <1>3 DEF RegInv, Placing, IInv, DataOK
<1> HIDE DEF r
<1> QED
  BY <1>1, <1>2, <1>3, <1>4, Moves DEF Steps, Taking, Placing, FaultInv, IInv

LEMMA SearchStep ==
  ASSUME IInv, NEW t \in Threads, Search(t)
  PROVE  IInv'
<1> DEFINE S == {i \in DOMAIN list : IsProcessOf(i, reg[t].key)}
           h == First(S)
           r == [reg[t] EXCEPT !.handle = h]
           s == IF h = 0 THEN "alloc" ELSE "addRef"
<1>1. /\ pc[t] = "search" /\ fault = "none" /\ t \in up
      /\ \A u \in Threads : u # t => pc[u] = "idle"
  BY Acting DEF Search, At
<1>2. \A i : ~Removing(i)
  BY <1>1, Calm DEF Taking
<1>3. /\ pc' = [pc EXCEPT ![t] = s] /\ reg' = [reg EXCEPT ![t] = r]
      /\ UNCHANGED <<list, heap, held, up, grown, lost>>
  BY DEF Search, Goto
<1>4. fault' = "none"
  <2>1. \A i \in DOMAIN list : list[i].type = "process" => Target(i).live
    BY <1>2 DEF IInv, ListInv, Listed
  <2> QED
    BY <2>1 DEF Search
<1>5. reg[t] \in Registers /\ reg[t].kind = "process" /\ Len(held[t]) < MaxHeld
  BY <1>1, Shape DEF IInv, RegInv, SerialInv, Opening
<1>6. (S = {} => h = 0) /\ (S # {} => h \in S /\ h # 0) /\ h \in Nat
  <2>1. S \in SUBSET (Nat \ {0})
    BY Shape DEF IInv
  <2> HIDE DEF S
  <2>2. (S = {} => h = 0) /\ (S # {} => h \in S /\ h # 0)
    BY <2>1, FirstPlace
  <2>3. \A i \in S : i \in Nat
    BY <2>1
  <2> HIDE DEF h
  <2> QED
    BY <2>2, <2>3
<1>7. r \in Registers /\ r.kind = "process" /\ r.key = reg[t].key /\ r.handle = h
  BY <1>5, <1>6 DEF Registers
<1>8. RegInv(t)'
  <2>1. pc'[t] = s /\ reg'[t] = r
    BY <1>3 DEF IInv, DataOK
  <2>2. CASE S = {}
    <3>1. s = "alloc" /\ \A i \in DOMAIN list : ~IsProcessOf(i, reg[t].key)
      BY <1>6, <2>2
    <3> HIDE DEF S, h, s, r
    <3> QED
      BY <1>3, <1>7, <2>1, <3>1 DEF RegInv, Placing, IsProcessOf, Target
  <2>3. CASE S # {}
    <3>1. h \in DOMAIN list /\ IsProcessOf(h, reg[t].key) /\ s = "addRef"
      BY <1>6, <2>3
    <3> HIDE DEF S, h, s, r
    <3> QED
      BY <1>3, <1>7, <2>1, <3>1 DEF RegInv, Placing, IsProcessOf, Target
  <2> QED
    BY <2>2, <2>3
<1> HIDE DEF r, h
<1> QED
  BY <1>1, <1>3, <1>4, <1>5, <1>7, <1>8, Moves DEF Steps, Taking, Placing, FaultInv

LEMMA AllocFailsStep ==
  ASSUME IInv, NEW t \in Threads, AllocFails(t)
  PROVE  IInv'
<1>1. /\ pc[t] = "alloc" /\ fault = "none"
      /\ \A u \in Threads : u # t => pc[u] = "idle"
  BY Acting DEF AllocFails, At
<1>2. /\ pc' = [pc EXCEPT ![t] = "idle"] /\ reg' = [reg EXCEPT ![t] = NoRegister]
      /\ UNCHANGED <<list, heap, held, up, grown, lost, fault>>
  BY DEF AllocFails, Finish, Goto
<1>3. NoRegister \in Registers
  BY DEF NoRegister, Registers, Kinds, Keys
<1>4. RegInv(t)'
  BY <1>2, IdleReg DEF IInv, DataOK
<1> QED
  BY <1>1, <1>2, <1>3, <1>4, Moves DEF Steps, Taking, Placing, Opening, FaultInv, IInv

LEMMA FindStep ==
  ASSUME IInv, NEW t \in Threads, Find(t)
  PROVE  IInv'
<1> DEFINE h == FirstEmpty
           r == [reg[t] EXCEPT !.handle = h]
           s == IF h = 0 THEN "grow" ELSE "storePointer"
<1>1. /\ pc[t] = "find" /\ fault = "none" /\ t \in up
      /\ \A u \in Threads : u # t => pc[u] = "idle"
  BY Acting DEF Find, At
<1>2. /\ pc' = [pc EXCEPT ![t] = s] /\ reg' = [reg EXCEPT ![t] = r]
      /\ UNCHANGED <<list, heap, held, up, grown, lost, fault>>
  BY DEF Find, Goto
<1>3. reg[t] \in Registers /\ Len(held[t]) < MaxHeld
  BY <1>1, Shape DEF IInv, SerialInv, Opening, Placing
<1>4. h \in Nat /\ (h # 0 => h \in DOMAIN list /\ IsEmpty(h))
  <2> DEFINE S == {i \in DOMAIN list : IsEmpty(i)}
  <2>1. S \in SUBSET (Nat \ {0})
    BY Shape DEF IInv
  <2>2. (S = {} => First(S) = 0) /\ (S # {} => First(S) \in S /\ First(S) # 0)
    <3> HIDE DEF S
    <3> QED
      BY <2>1, FirstPlace
  <2> QED
    BY <2>1, <2>2 DEF FirstEmpty
<1> HIDE DEF h
<1>5. /\ r \in Registers /\ r.kind = reg[t].kind /\ r.key = reg[t].key
      /\ r.object = reg[t].object /\ r.handle = h
  BY <1>3, <1>4 DEF Registers
<1>6. RegInv(t)'
  <2>1. pc'[t] = s /\ reg'[t] = r /\ s \in {"grow", "storePointer"} /\ (s = "storePointer" => h # 0)
    BY <1>2 DEF IInv, DataOK
  <2>2. NewObject(t)' = NewObject(t)
    BY <1>5, <2>1 DEF NewObject
  <2>3. RegInv(t)
    BY DEF IInv
  <2> HIDE DEF r, s
  <2> QED
    BY <1>1, <1>2, <1>4, <1>5, <2>1, <2>2, <2>3
    DEF RegInv, Placing, IsProcessOf, Target, Listed, IsEmpty
<1> HIDE DEF r
<1> QED
  BY <1>1, <1>2, <1>3, <1>5, <1>6, Moves DEF Steps, Taking, Placing, FaultInv, IInv

-----------------------------------------------------------------------------
(* Steps that change an object, the list or what is held.                   *)

(* One field of an object changes.                                          *)
WithRefs(x, n) == [x EXCEPT !.refs = n]
WithIterator(x, n) == [x EXCEPT !.iterator = n]
Freed(x) == [x EXCEPT !.live = FALSE]

LEMMA WithRefsProperties ==
  ASSUME NEW x \in Object, NEW n \in Nat
  PROVE  /\ WithRefs(x, n) \in Object /\ WithRefs(x, n).refs = n
         /\ WithRefs(x, n).kind = x.kind /\ WithRefs(x, n).key = x.key
         /\ WithRefs(x, n).live = x.live /\ WithRefs(x, n).iterator = x.iterator
  BY DEF Object, WithRefs

LEMMA WithIteratorProperties ==
  ASSUME NEW x \in Object, NEW n \in 0 .. Entries
  PROVE  /\ WithIterator(x, n) \in Object /\ WithIterator(x, n).iterator = n
         /\ WithIterator(x, n).kind = x.kind /\ WithIterator(x, n).key = x.key
         /\ WithIterator(x, n).live = x.live /\ WithIterator(x, n).refs = x.refs
  BY DEF Object, WithIterator

LEMMA FreedProperties ==
  ASSUME NEW x \in Object
  PROVE  /\ Freed(x) \in Object /\ Freed(x).live = FALSE
         /\ Freed(x).kind = x.kind /\ Freed(x).key = x.key
         /\ Freed(x).refs = x.refs /\ Freed(x).iterator = x.iterator
  BY DEF Object, Freed

LEMMA HeapSet ==
  ASSUME DataOK, NEW o \in DOMAIN heap, NEW x \in Object, heap' = [heap EXCEPT ![o] = x]
  PROVE  /\ heap' \in Seq(Object) /\ Len(heap') = Len(heap) /\ DOMAIN heap' = DOMAIN heap
         /\ heap'[o] = x /\ \A n \in DOMAIN heap : n # o => heap'[n] = heap[n]
<1>1. heap \in Seq(Object) /\ o \in 1 .. Len(heap) /\ DOMAIN heap = 1 .. Len(heap)
  BY Shape DEF DataOK
<1> QED
  BY <1>1, ExceptSeq, LenProperties

LEMMA ListSet ==
  ASSUME DataOK, NEW i \in DOMAIN list, NEW x \in Entry, list' = [list EXCEPT ![i] = x]
  PROVE  /\ list' \in Seq(Entry) /\ DOMAIN list' = DOMAIN list
         /\ list'[i] = x /\ \A j \in DOMAIN list : j # i => list'[j] = list[j]
<1>1. list \in Seq(Entry) /\ i \in 1 .. Len(list) /\ DOMAIN list = 1 .. Len(list)
  BY Shape DEF DataOK
<1> QED
  BY <1>1, ExceptSeq, LenProperties

(* The answer carries a handle.                                             *)
Answer(t, h) == [handle |-> h, kind |-> reg[t].kind, key |-> reg[t].key, seen |-> 0]

LEMMA Returned ==
  ASSUME IInv, NEW t \in Threads, NEW h \in Nat, Len(held[t]) < MaxHeld, Return(t, h),
         \A u \in Threads : u # t => pc[u] = "idle"
  PROVE  /\ \A u \in Threads : pc'[u] = "idle"
         /\ pc' \in [Threads -> Steps] /\ reg' \in [Threads -> Registers]
         /\ held' \in [Threads -> Seq(Held)]
         /\ \A u \in Threads : Len(held'[u]) <= MaxHeld
         /\ \A u \in Threads : \A k \in 1 .. Len(held'[u]) :
              (k \in 1 .. Len(held[u]) /\ held'[u][k] = held[u][k]) \/ held'[u][k] = Answer(t, h)
         /\ \A i : Cardinality(HoldsIn(held', i)) =
                     Cardinality(HoldsIn(held, i)) + (IF h = i THEN 1 ELSE 0)
<1> DEFINE e == Answer(t, h)
<1>1. reg[t] \in Registers /\ held \in [Threads -> Seq(Held)] /\ Len(held[t]) \in Nat
  BY Shape DEF IInv, DataOK
<1>2. e \in Held /\ e.handle = h
  BY <1>1, BoundsAssumption DEF Answer, Held, Registers
<1>3. /\ pc' = [pc EXCEPT ![t] = "idle"] /\ reg' = [reg EXCEPT ![t] = NoRegister]
      /\ held' = [held EXCEPT ![t] = Append(held[t], e)] /\ held' = Plus(held, t, e)
  BY DEF Return, Finish, Goto, Answer, Plus
<1>4. \A u \in Threads : pc'[u] = "idle"
  BY <1>3 DEF IInv, DataOK
<1>5. pc' \in [Threads -> Steps] /\ reg' \in [Threads -> Registers]
  BY <1>3 DEF IInv, DataOK, Registers, NoRegister, Kinds, Keys, Steps
<1> HIDE DEF e
<1>6. /\ Append(held[t], e) \in Seq(Held) /\ Len(Append(held[t], e)) = Len(held[t]) + 1
      /\ \A k \in 1 .. Len(held[t]) : Append(held[t], e)[k] = held[t][k]
      /\ Append(held[t], e)[Len(held[t]) + 1] = e
  BY <1>1, <1>2, AppendProperties
<1>7. held' \in [Threads -> Seq(Held)]
  BY <1>1, <1>3, <1>6
<1>8. ASSUME NEW u \in Threads
      PROVE  /\ Len(held'[u]) <= MaxHeld
             /\ \A k \in 1 .. Len(held'[u]) :
                  (k \in 1 .. Len(held[u]) /\ held'[u][k] = held[u][k]) \/ held'[u][k] = e
  <2>1. CASE u = t
    BY <1>1, <1>3, <1>6, <2>1, BoundsAssumption
  <2>2. CASE u # t
    BY <1>1, <1>3, <2>2 DEF IInv, SerialInv
  <2> QED
    BY <2>1, <2>2
<1>9. \A i : Cardinality(HoldsIn(held', i)) =
               Cardinality(HoldsIn(held, i)) + (IF h = i THEN 1 ELSE 0)
  <2> SUFFICES ASSUME NEW i
               PROVE  Cardinality(HoldsIn(held', i)) =
                        Cardinality(HoldsIn(held, i)) + (IF h = i THEN 1 ELSE 0)
    OBVIOUS
  <2>1. Cardinality(HoldsIn(Plus(held, t, e), i)) =
          Cardinality(HoldsIn(held, i)) + (IF e.handle = i THEN 1 ELSE 0)
    BY <1>1, <1>2, Appended
  <2>2. held' = Plus(held, t, e)
    BY <1>3
  <2> QED
    BY <1>2, <2>1, <2>2
<1> QED
  BY <1>4, <1>5, <1>7, <1>8, <1>9 DEF e

LEMMA AddRefStep ==
  ASSUME IInv, NEW t \in Threads, AddRef(t)
  PROVE  IInv'
<1> DEFINE h == reg[t].handle
           o == list[h].ptr
<1>1. /\ pc[t] = "addRef" /\ fault = "none"
      /\ \A u \in Threads : u # t => pc[u] = "idle"
  BY Acting DEF AddRef, At
<1>2. /\ h \in DOMAIN list /\ IsProcessOf(h, reg[t].key) /\ reg[t].kind = "process"
      /\ Len(held[t]) < MaxHeld /\ h \in Nat
  BY <1>1, Shape DEF IInv, RegInv, SerialInv, Opening
<1>3. \A i : ~Removing(i) /\ ~Freeing(i) /\ ~Owing(i)
  BY <1>1, Calm DEF Taking
<1>4. o \in DOMAIN heap /\ heap[o].live /\ o # 0 /\ heap[o] \in Object /\ list[h].type = "process"
  BY <1>2, <1>3, Shape DEF IInv, ListInv, Listed, IsProcessOf, Target
<1> DEFINE x == WithRefs(heap[o], heap[o].refs + 1)
<1>5. /\ fault' = "none" /\ heap' = [heap EXCEPT ![o] = x]
      /\ Return(t, h) /\ UNCHANGED <<list, up, grown, lost>>
  <2>1. Pointer(h) = o
    BY <1>2, <1>4 DEF Pointer, TypeOf
  <2>2. Access(o) = "none"
    BY <1>4 DEF Access
  <2>3. /\ fault' = Access(Pointer(h))
        /\ heap' = IF fault' = "none"
                   THEN [heap EXCEPT ![Pointer(h)] =
                           WithRefs(heap[Pointer(h)], heap[Pointer(h)].refs + 1)]
                   ELSE heap
        /\ Return(t, h) /\ UNCHANGED <<list, up, grown, lost>>
    BY DEF AddRef, WithRefs
  <2> HIDE DEF h, o
  <2> QED
    BY <2>1, <2>2, <2>3
<1>6. /\ x \in Object /\ x.kind = heap[o].kind /\ x.key = heap[o].key /\ x.live = heap[o].live
      /\ x.iterator = heap[o].iterator /\ x.refs = heap[o].refs + 1 /\ heap[o].refs \in Nat
  <2>1. heap[o].refs \in Nat /\ heap[o].refs + 1 \in Nat
    BY <1>4 DEF Object
  <2> QED
    BY <1>4, <2>1, WithRefsProperties
<1>7. /\ heap' \in Seq(Object) /\ Len(heap') = Len(heap) /\ DOMAIN heap' = DOMAIN heap
      /\ heap'[o] = x /\ \A n \in DOMAIN heap : n # o => heap'[n] = heap[n]
  BY <1>4, <1>5, <1>6, HeapSet DEF IInv
<1>8. /\ \A u \in Threads : pc'[u] = "idle"
      /\ pc' \in [Threads -> Steps] /\ reg' \in [Threads -> Registers]
      /\ held' \in [Threads -> Seq(Held)]
      /\ \A u \in Threads : Len(held'[u]) <= MaxHeld
      /\ \A u \in Threads : \A k \in 1 .. Len(held'[u]) :
           (k \in 1 .. Len(held[u]) /\ held'[u][k] = held[u][k]) \/ held'[u][k] = Answer(t, h)
      /\ \A i : Cardinality(HoldsIn(held', i)) =
                  Cardinality(HoldsIn(held, i)) + (IF h = i THEN 1 ELSE 0)
  BY <1>1, <1>2, <1>5, Returned
<1>9. \A i : ~Removing(i)' /\ ~Freeing(i)' /\ ~Owing(i)'
  BY <1>8, CalmAfter DEF Taking
<1> HIDE DEF x, o, h
<1>10. DataOK'
  BY <1>5, <1>7, <1>8 DEF IInv, DataOK, Registers
<1>11. SerialInv'
  BY <1>5, <1>7, <1>8 DEF IInv, SerialInv, Opening, Placing
<1>12. ASSUME NEW i \in DOMAIN list, Listed(i)
       PROVE  /\ list[i].ptr \in DOMAIN heap
              /\ list[i].ptr = o <=> i = h
              /\ heap'[list[i].ptr].kind = heap[list[i].ptr].kind
              /\ heap'[list[i].ptr].key = heap[list[i].ptr].key
              /\ heap'[list[i].ptr].live = heap[list[i].ptr].live
              /\ heap'[list[i].ptr].iterator = heap[list[i].ptr].iterator
              /\ i # h => heap'[list[i].ptr].refs = heap[list[i].ptr].refs
  BY <1>2, <1>4, <1>6, <1>7, <1>12 DEF IInv, ListInv, UniqueInv, Listed, Target, o
<1>13. ListInv'
  BY <1>3, <1>4, <1>5, <1>6, <1>7, <1>9, <1>12 DEF IInv, ListInv, Listed, Target, o
<1>14. UniqueInv'
  BY <1>5, <1>12 DEF IInv, UniqueInv, Listed, Target, IsProcessOf
<1>15. CountInv'
  <2> SUFFICES ASSUME NEW i \in DOMAIN list, Listed(i)
               PROVE  /\ grown = 0 => Cardinality(HoldsIn(held', i)) <= Weight(i)'
                      /\ lost = 0 => Weight(i)' <= Cardinality(HoldsIn(held', i))
    BY <1>5, <1>9, HoldsFinite DEF CountInv, Listed, Owed
  <2>1. /\ Cardinality(HoldsIn(held, i)) \in Nat
        /\ Cardinality(HoldsIn(held', i)) =
             Cardinality(HoldsIn(held, i)) + (IF h = i THEN 1 ELSE 0)
    BY <1>8, HoldsFinite
  <2>2. /\ grown = 0 => Cardinality(HoldsIn(held, i)) <= Weight(i)
        /\ lost = 0 => Weight(i) <= Cardinality(HoldsIn(held, i))
    BY <1>3, <2>1 DEF IInv, CountInv, Owed
  <2>3. /\ i # h => Weight(i)' = Weight(i)
        /\ i = h => Weight(i)' = Weight(i) + 1
        /\ Weight(i) \in Nat
    BY <1>4, <1>5, <1>6, <1>7, <1>12, Shape DEF IInv, Weight, Target, o, Object
  <2> QED
    BY <2>1, <2>2, <2>3
<1>16. HeldInv'
  BY <1>2, <1>3, <1>4, <1>5, <1>8, <1>9, <1>12
  DEF IInv, HeldInv, LeadsIn, Listed, Target, Answer, IsProcessOf
<1>17. PipeInv'
  <2>1. \A n \in DOMAIN heap : heap'[n].kind = heap[n].kind /\ heap'[n].live = heap[n].live
    BY <1>6, <1>7
  <2>2. \A u \in Threads : pc[u] \notin Placing
    BY <1>1 DEF Placing
  <2> QED
    BY <1>5, <1>7, <2>1, <2>2 DEF IInv, PipeInv
<1>18. (\A u \in Threads : RegInv(u)') /\ FaultInv'
  BY <1>5, <1>8, IdleReg DEF FaultInv
<1> QED
  BY <1>10, <1>11, <1>13, <1>14, <1>15, <1>16, <1>17, <1>18 DEF IInv

LEMMA AllocStep ==
  ASSUME IInv, NEW t \in Threads, Alloc(t)
  PROVE  IInv'
<1> DEFINE o == Len(heap) + 1
           r == [reg[t] EXCEPT !.object = o]
<1>1. /\ pc[t] = "alloc" /\ fault = "none" /\ t \in up
      /\ \A u \in Threads : u # t => pc[u] = "idle"
  BY Acting DEF Alloc, At
<1>2. /\ pc' = [pc EXCEPT ![t] = "find"] /\ reg' = [reg EXCEPT ![t] = r]
      /\ heap' = Append(heap, NewObject(t)) /\ Len(heap) < MaxObjects
      /\ UNCHANGED <<list, held, up, grown, lost, fault>>
  BY DEF Alloc, Goto
<1>3. reg[t] \in Registers /\ Len(held[t]) < MaxHeld /\ Len(heap) \in Nat
  BY <1>1, Shape DEF IInv, SerialInv, Opening
<1>4. /\ r \in Registers /\ r.kind = reg[t].kind /\ r.key = reg[t].key /\ r.object = o
  BY <1>3 DEF Registers
<1> HIDE DEF r
<1>5. NewObject(t) \in Object /\ NewObject(t).live
  BY <1>3, BoundsAssumption DEF NewObject, Object, Registers
<1>6. /\ heap' \in Seq(Object) /\ Len(heap') = o /\ DOMAIN heap' = 1 .. o
      /\ heap'[o] = NewObject(t) /\ \A n \in DOMAIN heap : heap'[n] = heap[n]
      /\ DOMAIN heap = 1 .. Len(heap)
  <2>1. heap \in Seq(Object) /\ DOMAIN heap = 1 .. Len(heap)
    BY Shape DEF IInv, DataOK
  <2> QED
    BY <1>2, <1>5, <2>1, AppendProperties, LenProperties
<1>7. /\ pc'[t] = "find" /\ reg'[t] = r /\ \A u \in Threads : u # t => pc'[u] = "idle"
      /\ pc' \in [Threads -> Steps] /\ reg' \in [Threads -> Registers]
  BY <1>1, <1>2, <1>4 DEF IInv, DataOK, Registers, Steps
<1>8. \A i : ~Removing(i) /\ ~Freeing(i) /\ ~Owing(i)
  BY <1>1, Calm DEF Taking
<1>9. \A i : ~Removing(i)' /\ ~Freeing(i)' /\ ~Owing(i)'
  BY <1>7, CalmAfter DEF Taking
<1>10. \A i \in DOMAIN list : Listed(i) =>
         list[i].ptr \in DOMAIN heap /\ heap'[list[i].ptr] = heap[list[i].ptr]
  BY <1>6 DEF IInv, ListInv
<1>11. DOMAIN heap \subseteq DOMAIN heap' /\ o \notin DOMAIN heap /\ o \in DOMAIN heap'
       /\ \A n \in DOMAIN heap' : n \in DOMAIN heap \/ n = o
  BY <1>3, <1>6
<1>12. Len(heap') <= MaxObjects
  BY <1>2, <1>3, <1>6, BoundsAssumption
<1> HIDE DEF o
<1>13. DataOK'
  BY <1>2, <1>6, <1>7 DEF IInv, DataOK, Registers
<1>14. SerialInv'
  BY <1>1, <1>2, <1>3, <1>7, <1>12 DEF IInv, SerialInv
<1>15. ListInv'
  BY <1>2, <1>8, <1>9, <1>10, <1>11 DEF IInv, ListInv, Listed, Target
<1>16. UniqueInv'
  BY <1>2, <1>10 DEF IInv, UniqueInv, Listed, Target, IsProcessOf
<1>17. CountInv'
  BY <1>2, <1>8, <1>9, <1>10 DEF IInv, CountInv, Listed, Target, Weight, Owed
<1>18. HeldInv'
  <2>1. \A u \in Threads : \A k \in 1 .. Len(held[u]) : held[u][k].kind # "empty"
    BY Shape DEF IInv, Held, Kinds
  <2> QED
    BY <1>2, <1>8, <1>9, <1>10, <2>1 DEF IInv, HeldInv, LeadsIn, Listed, Target
<1>19. PipeInv'
  <2>1. \A u \in Threads : pc[u] \notin Placing
    BY <1>1 DEF Placing
  <2>2. pc'[t] \in Placing /\ reg'[t].object = o
    BY <1>4, <1>7 DEF Placing
  <2> QED
    BY <1>2, <1>6, <1>11, <2>1, <2>2 DEF IInv, PipeInv
<1>20. RegInv(t)'
  <2>1. NewObject(t)' = NewObject(t)
    BY <1>4, <1>7 DEF NewObject
  <2>2. \A i \in DOMAIN list : Listed(i) => list[i].ptr # o
    BY <1>10, <1>11
  <2>3. reg[t].kind = "process" => \A i \in DOMAIN list : ~IsProcessOf(i, reg[t].key)
    BY <1>1 DEF IInv, RegInv
  <2>4. \A i \in DOMAIN list : IsProcessOf(i, reg[t].key)' => IsProcessOf(i, reg[t].key)
    BY <1>2, <1>4, <1>7, <1>10 DEF IsProcessOf, Target, Listed
  <2> QED
    BY <1>2, <1>4, <1>6, <1>7, <1>11, <2>1, <2>2, <2>3, <2>4
    DEF RegInv, Placing, Listed, IsProcessOf, Target
<1>21. (\A u \in Threads : RegInv(u)') /\ FaultInv'
  BY <1>1, <1>2, <1>7, <1>20, IdleReg DEF FaultInv
<1> QED
  BY <1>13, <1>14, <1>15, <1>16, <1>17, <1>18, <1>19, <1>21 DEF IInv

LEMMA StorePointerStep ==
  ASSUME IInv, NEW t \in Threads, StorePointer(t)
  PROVE  IInv'
<1> DEFINE h == reg[t].handle
           x == [list[h] EXCEPT !.ptr = reg[t].object]
<1>1. /\ pc[t] = "storePointer" /\ fault = "none" /\ t \in up
      /\ \A u \in Threads : u # t => pc[u] = "idle"
  BY Acting DEF StorePointer, At
<1>2. /\ pc' = [pc EXCEPT ![t] = "storeType"] /\ list' = [list EXCEPT ![h] = x]
      /\ UNCHANGED <<heap, reg, held, up, grown, lost, fault>>
  BY DEF StorePointer, Goto
<1>3. /\ h \in DOMAIN list /\ list[h].type = "empty" /\ list[h] \in Entry
      /\ reg[t].object \in 0 .. MaxObjects /\ Len(held[t]) < MaxHeld
  <2>1. h \in DOMAIN list /\ IsEmpty(h) /\ reg[t].object \in DOMAIN heap
    BY <1>1 DEF IInv, RegInv, Placing
  <2>2. Len(heap) <= MaxObjects /\ Len(held[t]) < MaxHeld
    BY <1>1 DEF IInv, SerialInv, Opening, Placing
  <2> QED
    BY <2>1, <2>2, Shape, BoundsAssumption DEF IInv, IsEmpty
<1>4. x \in Entry /\ x.type = "empty" /\ x.ptr = reg[t].object
  BY <1>3 DEF Entry
<1> HIDE DEF x, h
<1>5. /\ list' \in Seq(Entry) /\ DOMAIN list' = DOMAIN list
      /\ list'[h] = x /\ \A j \in DOMAIN list : j # h => list'[j] = list[j]
  BY <1>2, <1>3, <1>4, ListSet DEF IInv
<1>6. /\ pc'[t] = "storeType" /\ \A u \in Threads : u # t => pc'[u] = "idle"
      /\ pc' \in [Threads -> Steps]
  BY <1>1, <1>2 DEF IInv, DataOK, Steps
<1>7. \A i : ~Removing(i) /\ ~Freeing(i) /\ ~Owing(i)
  BY <1>1, Calm DEF Taking
<1>8. \A i : ~Removing(i)' /\ ~Freeing(i)' /\ ~Owing(i)'
  BY <1>6, CalmAfter DEF Taking
<1>9. \A i \in DOMAIN list : /\ list'[i].type = list[i].type
                             /\ Listed(i) => list'[i] = list[i]
  BY <1>3, <1>4, <1>5 DEF Listed
<1>10. DataOK'
  BY <1>2, <1>5, <1>6 DEF IInv, DataOK
<1>11. SerialInv'
  BY <1>1, <1>2, <1>3, <1>6 DEF IInv, SerialInv
<1>12. ListInv'
  BY <1>2, <1>5, <1>7, <1>8, <1>9 DEF IInv, ListInv, Listed, Target
<1>13. UniqueInv'
  BY <1>2, <1>5, <1>9 DEF IInv, UniqueInv, Listed, Target, IsProcessOf
<1>14. CountInv'
  BY <1>2, <1>5, <1>7, <1>8, <1>9 DEF IInv, CountInv, Listed, Target, Weight, Owed
<1>15. HeldInv'
  <2>1. \A u \in Threads : \A k \in 1 .. Len(held[u]) : held[u][k].kind # "empty"
    BY Shape DEF IInv, Held, Kinds
  <2> QED
    BY <1>2, <1>5, <1>7, <1>8, <1>9, <2>1 DEF IInv, HeldInv, LeadsIn, Listed, Target
<1>16. PipeInv'
  <2>1. \A u \in Threads : pc[u] \in Placing => pc'[u] \in Placing
    BY <1>1, <1>6 DEF Placing
  <2> QED
    BY <1>2, <1>5, <1>9, <2>1 DEF IInv, PipeInv, Listed
<1>17. RegInv(t)'
  <2>1. NewObject(t)' = NewObject(t)
    BY <1>2 DEF NewObject
  <2>2. RegInv(t)
    BY DEF IInv
  <2> QED
    BY <1>1, <1>2, <1>3, <1>4, <1>5, <1>6, <1>9, <2>1, <2>2
    DEF RegInv, Placing, Listed, IsProcessOf, Target, IsEmpty, h
<1>18. (\A u \in Threads : RegInv(u)') /\ FaultInv'
  BY <1>1, <1>2, <1>6, <1>17, IdleReg DEF FaultInv
<1> QED
  BY <1>10, <1>11, <1>12, <1>13, <1>14, <1>15, <1>16, <1>18 DEF IInv

(* The new object is entered at place h, of the list as it was or of an     *)
(* enlarged one.                                                            *)
LEMMA Entered ==
  ASSUME IInv, NEW t \in Threads, pc[t] \in {"storeType", "grow"}, fault = "none",
         NEW h \in DOMAIN list',
         list' \in Seq(Entry),
         list'[h] = [type |-> reg[t].kind, ptr |-> reg[t].object],
         \A i \in DOMAIN list' : i # h /\ list'[i].type # "empty" =>
           i \in DOMAIN list /\ list'[i] = list[i],
         grown' \in 0 .. MaxGrowths,
         grown' = 0 => /\ grown = 0 /\ h \in DOMAIN list /\ list[h].type = "empty"
                       /\ \A i \in DOMAIN list : i \in DOMAIN list' /\ (i # h => list'[i] = list[i]),
         Created(t, h),
         UNCHANGED <<heap, up, lost, fault>>
  PROVE  IInv'
<1> DEFINE o == reg[t].object
<1>1. t \in up /\ \A u \in Threads : u # t => pc[u] = "idle"
  BY Acting
<1>2. /\ reg[t] \in Registers /\ Len(held[t]) < MaxHeld /\ h \in Nat
      /\ held \in [Threads -> Seq(Held)]
  <2>1. Len(held[t]) < MaxHeld
    BY DEF IInv, SerialInv, Opening, Placing
  <2>2. DOMAIN list' = 1 .. Len(list') /\ Len(list') \in Nat
    BY LenProperties
  <2> QED
    BY <2>1, <2>2, Shape DEF IInv, DataOK
<1>3. /\ o \in DOMAIN heap /\ heap[o] = NewObject(t)
      /\ \A i \in DOMAIN list : Listed(i) => list[i].ptr # o
      /\ reg[t].kind = "process" => \A i \in DOMAIN list : ~IsProcessOf(i, reg[t].key)
  BY DEF IInv, RegInv, Placing
<1>4. /\ list'[h].type = reg[t].kind /\ list'[h].ptr = o /\ list'[h].type # "empty"
      /\ reg[t].kind \in Kinds
      /\ heap[o].kind = reg[t].kind /\ heap[o].key = reg[t].key /\ heap[o].live
      /\ heap[o].refs = (IF reg[t].kind = "pipe" THEN 0 ELSE 1) /\ heap[o].iterator = 0
  BY <1>2, <1>3 DEF NewObject, Registers, Kinds
<1> HIDE DEF o
<1>5. \A i : ~Removing(i) /\ ~Freeing(i) /\ ~Owing(i)
  BY <1>1, Calm DEF Taking
<1>6. ASSUME grown' = 0
      PROVE  /\ Cardinality(HoldsIn(held, h)) = 0
             /\ \A u \in Threads : \A k \in 1 .. Len(held[u]) : held[u][k].handle # h
  <2>1. \A u \in Threads : \A k \in 1 .. Len(held[u]) : held[u][k].kind # "empty"
    BY Shape DEF IInv, Held, Kinds
  <2>2. ASSUME NEW u \in Threads, NEW k \in 1 .. Len(held[u])
        PROVE  held[u][k].handle # h
    <3>1. grown = 0 /\ list[h].type = "empty"
      BY <1>6
    <3>2. LeadsIn(list, heap, held[u][k])
      BY <3>1 DEF IInv, HeldInv
    <3> QED
      BY <2>1, <3>1, <3>2 DEF LeadsIn
  <2>3. \A u \in Threads : Len(held[u]) \in Nat
    BY Shape DEF IInv
  <2>4. HoldsIn(held, h) = {}
    BY <2>2, <2>3, BoundsAssumption DEF HoldsIn
  <2> QED
    BY <2>2, <2>4, HoldsFinite
<1>7. ASSUME pc' \in [Threads -> Steps], reg' \in [Threads -> Registers],
             held' \in [Threads -> Seq(Held)],
             \A u \in Threads : pc'[u] \in {"idle", "firstModule"},
             \A u \in Threads : u # t => pc'[u] = "idle",
             pc'[t] = "firstModule" => /\ Len(held'[t]) < MaxHeld
                                       /\ reg'[t].handle = h /\ reg'[t].object = o
                                       /\ reg'[t].kind = "process" /\ reg'[t].key = reg[t].key
                                       /\ reg[t].kind = "process",
             \A u \in Threads : Len(held'[u]) <= MaxHeld,
             \A u \in Threads : \A k \in 1 .. Len(held'[u]) :
               (k \in 1 .. Len(held[u]) /\ held'[u][k] = held[u][k]) \/ held'[u][k] = Answer(t, h),
             \A i : Cardinality(HoldsIn(held', i))
                      + (IF pc'[t] = "firstModule" /\ i = h THEN 1 ELSE 0) =
                        Cardinality(HoldsIn(held, i)) + (IF h = i THEN 1 ELSE 0)
      PROVE  IInv'
  <2>1. \A i : /\ ~Removing(i)' /\ ~Freeing(i)'
               /\ Owing(i)' <=> pc'[t] = "firstModule" /\ i = h
    BY <1>7, OnlyActorAfter
  <2>2. DataOK'
    BY <1>7 DEF IInv, DataOK, Registers
  <2>3. SerialInv'
    BY <1>1, <1>7 DEF IInv, SerialInv, Opening, Placing
  <2>4. ListInv'
    BY <1>3, <1>4, <1>5, <2>1 DEF IInv, ListInv, Listed, Target
  <2>5. UniqueInv'
    BY <1>3, <1>4 DEF IInv, UniqueInv, Listed, Target, IsProcessOf
  <2>6. CountInv'
    <3> SUFFICES ASSUME NEW i \in DOMAIN list', list'[i].type # "empty"
                 PROVE  /\ grown' = 0 => Cardinality(HoldsIn(held', i)) + Owed(i)' <= Weight(i)'
                        /\ lost = 0 => Weight(i)' <= Cardinality(HoldsIn(held', i)) + Owed(i)'
      BY DEF CountInv, Listed
    <3>1. /\ Cardinality(HoldsIn(held', i)) + Owed(i)' =
               Cardinality(HoldsIn(held, i)) + (IF h = i THEN 1 ELSE 0)
          /\ Cardinality(HoldsIn(held, i)) \in Nat
      BY <1>7, <2>1, HoldsFinite DEF Owed
    <3>2. CASE i = h
      <4>1. Weight(i)' = 1
        BY <1>4, <3>2 DEF Weight, Target
      <4> QED
        BY <1>6, <3>1, <3>2, <4>1
    <3>3. CASE i # h
      <4>1. i \in DOMAIN list /\ list'[i] = list[i] /\ Listed(i)
        BY <3>3 DEF Listed
      <4>2. Weight(i)' = Weight(i)
        BY <4>1 DEF Weight, Target
      <4>3. /\ grown = 0 => Cardinality(HoldsIn(held, i)) <= Weight(i)
            /\ lost = 0 => Weight(i) <= Cardinality(HoldsIn(held, i))
        BY <1>5, <3>1, <4>1 DEF IInv, CountInv, Owed
      <4> QED
        BY <3>1, <3>3, <4>2, <4>3
    <3> QED
      BY <3>2, <3>3
  <2>7. HeldInv'
    <3> SUFFICES ASSUME grown' = 0, NEW u \in Threads, NEW k \in 1 .. Len(held'[u])
                 PROVE  LeadsIn(list', heap', held'[u][k])
      BY <2>1 DEF HeldInv, LeadsIn, Target
    <3>1. CASE held'[u][k] = Answer(t, h)
      BY <1>4, <3>1 DEF Answer, LeadsIn
    <3>2. CASE k \in 1 .. Len(held[u]) /\ held'[u][k] = held[u][k]
      <4> DEFINE e == held[u][k]
      <4>1. LeadsIn(list, heap, e)
        BY <3>2 DEF IInv, HeldInv
      <4>2. e.handle # h
        BY <1>6, <3>2
      <4> HIDE DEF e
      <4>3. e.handle \in DOMAIN list' /\ list'[e.handle] = list[e.handle]
        BY <4>1, <4>2 DEF LeadsIn
      <4> QED
        BY <3>2, <4>1, <4>3 DEF LeadsIn, e
    <3> QED
      BY <1>7, <3>1, <3>2
  <2>8. PipeInv'
    <3>1. \A u \in Threads : pc[u] \in Placing => u = t
      BY <1>1 DEF Placing
    <3>2. \A n \in DOMAIN heap : (\E u \in Threads : pc[u] \in Placing /\ reg[u].object = n) => n = o
      BY <3>1 DEF o
    <3>3. up' # {}
      BY <1>1
    <3> QED
      BY <1>4, <3>2, <3>3 DEF IInv, PipeInv
  <2>9. RegInv(t)'
    BY <1>3, <1>4, <1>7 DEF RegInv, Placing, IsProcessOf, Target, Listed, o
  <2>10. (\A u \in Threads : RegInv(u)') /\ FaultInv'
    BY <1>7, <2>9, IdleReg DEF FaultInv
  <2> QED
    BY <2>2, <2>3, <2>4, <2>5, <2>6, <2>7, <2>8, <2>10 DEF IInv
<1>8. CASE reg[t].kind = "process"
  <2> DEFINE r == [reg[t] EXCEPT !.handle = h]
  <2>1. /\ reg' = [reg EXCEPT ![t] = r] /\ pc' = [pc EXCEPT ![t] = "firstModule"]
        /\ held' = held
    BY <1>8 DEF Created, Goto
  <2>2. r \in Registers /\ r.handle = h /\ r.object = o /\ r.kind = "process" /\ r.key = reg[t].key
    BY <1>2, <1>8 DEF Registers, o
  <2> HIDE DEF r
  <2>3. /\ pc' \in [Threads -> Steps] /\ reg' \in [Threads -> Registers]
        /\ pc'[t] = "firstModule" /\ \A u \in Threads : u # t => pc'[u] = "idle"
        /\ reg'[t] = r
    BY <1>1, <2>1, <2>2 DEF IInv, DataOK, Steps, Registers
  <2>4. \A u \in Threads : Len(held[u]) <= MaxHeld
    BY DEF IInv, SerialInv
  <2>5. \A i : Cardinality(HoldsIn(held', i)) + (IF pc'[t] = "firstModule" /\ i = h THEN 1 ELSE 0) =
                 Cardinality(HoldsIn(held, i)) + (IF h = i THEN 1 ELSE 0)
    BY <2>1, <2>3
  <2> QED
    BY <1>2, <1>7, <1>8, <2>1, <2>2, <2>3, <2>4, <2>5
<1>9. CASE reg[t].kind # "process"
  <2>1. Return(t, h)
    BY <1>9 DEF Created
  <2>2. /\ \A u \in Threads : pc'[u] = "idle"
        /\ pc' \in [Threads -> Steps] /\ reg' \in [Threads -> Registers]
        /\ held' \in [Threads -> Seq(Held)]
        /\ \A u \in Threads : Len(held'[u]) <= MaxHeld
        /\ \A u \in Threads : \A k \in 1 .. Len(held'[u]) :
             (k \in 1 .. Len(held[u]) /\ held'[u][k] = held[u][k]) \/ held'[u][k] = Answer(t, h)
        /\ \A i : Cardinality(HoldsIn(held', i)) =
                    Cardinality(HoldsIn(held, i)) + (IF h = i THEN 1 ELSE 0)
    BY <1>1, <1>2, <2>1, Returned
  <2>3. \A i : Cardinality(HoldsIn(held', i)) + (IF pc'[t] = "firstModule" /\ i = h THEN 1 ELSE 0) =
                 Cardinality(HoldsIn(held, i)) + (IF h = i THEN 1 ELSE 0)
    <3> SUFFICES ASSUME NEW i
                 PROVE  Cardinality(HoldsIn(held', i)) + 0 =
                          Cardinality(HoldsIn(held, i)) + (IF h = i THEN 1 ELSE 0)
      BY <2>2
    <3>1. Cardinality(HoldsIn(held', i)) \in Nat
      BY HoldsFinite
    <3> QED
      BY <2>2, <3>1
  <2> QED
    BY <1>7, <2>2, <2>3
<1> QED
  BY <1>8, <1>9

LEMMA StoreTypeStep ==
  ASSUME IInv, NEW t \in Threads, StoreType(t)
  PROVE  IInv'
<1> DEFINE h == reg[t].handle
           x == [list[h] EXCEPT !.type = reg[t].kind]
<1>1. pc[t] = "storeType" /\ fault = "none"
  BY DEF StoreType, At
<1>2. /\ list' = [list EXCEPT ![h] = x] /\ Created(t, h)
      /\ UNCHANGED <<heap, up, grown, lost, fault>>
  BY DEF StoreType
<1>3. /\ h \in DOMAIN list /\ list[h].type = "empty" /\ list[h] \in Entry
      /\ list[h].ptr = reg[t].object /\ reg[t].kind \in Kinds /\ grown \in 0 .. MaxGrowths
  BY <1>1, Shape DEF IInv, RegInv, IsEmpty, Registers, DataOK
<1>4. x \in Entry /\ x = [type |-> reg[t].kind, ptr |-> reg[t].object]
  BY <1>3 DEF Entry
<1> HIDE DEF x, h
<1>5. /\ list' \in Seq(Entry) /\ DOMAIN list' = DOMAIN list
      /\ list'[h] = x /\ \A j \in DOMAIN list : j # h => list'[j] = list[j]
  BY <1>2, <1>3, <1>4, ListSet DEF IInv
<1> QED
  BY <1>1, <1>2, <1>3, <1>4, <1>5, Entered

(* A new list is empty.                                                     *)
LEMMA NewList ==
  ASSUME NEW max \in Nat \ {0}
  PROVE  /\ EmptyList(max) \in Seq(Entry) /\ DOMAIN EmptyList(max) = 1 .. max - 1
         /\ \A i \in 1 .. max - 1 : EmptyList(max)[i] = EmptyEntry
         /\ EmptyEntry \in Entry /\ EmptyEntry.type = "empty"
<1>1. EmptyEntry \in Entry /\ EmptyEntry.type = "empty"
  BY BoundsAssumption DEF EmptyEntry, Entry
<1>2. max - 1 \in Nat
  OBVIOUS
<1> QED
  BY <1>1, <1>2 DEF EmptyList

LEMMA GrowStep ==
  ASSUME IInv, NEW t \in Threads, Grow(t)
  PROVE  IInv'
<1> DEFINE x == [type |-> reg[t].kind, ptr |-> reg[t].object]
           new == EmptyList(2 * Max)
<1>1. pc[t] = "grow" /\ fault = "none"
  BY DEF Grow, At
<1>2. /\ list' = [new EXCEPT ![Max] = x] /\ Created(t, Max)
      /\ grown < MaxGrowths /\ grown' = grown + 1
      /\ UNCHANGED <<heap, up, lost, fault>>
  BY DEF Grow
<1>3. x \in Entry
  <2>1. reg[t].object \in DOMAIN heap /\ Len(heap) <= MaxObjects
    BY <1>1 DEF IInv, RegInv, Placing, SerialInv
  <2>2. reg[t].object \in 0 .. MaxObjects /\ reg[t].kind \in Kinds
    BY <2>1, Shape, BoundsAssumption DEF IInv, Registers
  <2> QED
    BY <2>2 DEF Entry
<1>4. Max \in Nat \ {0} /\ 2 * Max \in Nat \ {0} /\ Max \in 1 .. 2 * Max - 1
  BY Shape DEF IInv, Max
<1>5. /\ new \in Seq(Entry) /\ DOMAIN new = 1 .. 2 * Max - 1
      /\ \A i \in 1 .. 2 * Max - 1 : new[i].type = "empty"
  BY <1>4, NewList
<1> HIDE DEF new, x
<1>6. Max \in DOMAIN new
  BY <1>4, <1>5
<1>7. /\ list' \in Seq(Entry) /\ DOMAIN list' = DOMAIN new /\ list'[Max] = x
      /\ \A i \in DOMAIN new : i # Max => list'[i] = new[i]
  BY <1>2, <1>3, <1>5, <1>6, LenProperties, ExceptSeq
<1>8. \A i \in DOMAIN list' : i # Max => list'[i].type = "empty"
  BY <1>5, <1>7
<1>9. grown' \in 0 .. MaxGrowths /\ grown' # 0
  BY <1>2, BoundsAssumption DEF IInv, DataOK
<1> QED
  BY <1>1, <1>2, <1>6, <1>7, <1>8, <1>9, Entered DEF x

LEMMA FirstModuleStep ==
  ASSUME IInv, NEW t \in Threads, FirstModule(t)
  PROVE  IInv'
<1> DEFINE h == reg[t].handle
<1>1. /\ pc[t] = "firstModule" /\ fault = "none" /\ t \in up
      /\ \A u \in Threads : u # t => pc[u] = "idle"
  BY Acting DEF FirstModule, At
<1>2. /\ h \in DOMAIN list /\ IsProcessOf(h, reg[t].key) /\ reg[t].kind = "process"
      /\ Len(held[t]) < MaxHeld /\ h \in Nat
  BY <1>1, Shape DEF IInv, RegInv, SerialInv, Opening
<1>3. Return(t, h) /\ UNCHANGED <<heap, up, lost, fault>>
  BY DEF FirstModule
<1>4. /\ \A u \in Threads : pc'[u] = "idle"
      /\ pc' \in [Threads -> Steps] /\ reg' \in [Threads -> Registers]
      /\ held' \in [Threads -> Seq(Held)]
      /\ \A u \in Threads : Len(held'[u]) <= MaxHeld
      /\ \A u \in Threads : \A k \in 1 .. Len(held'[u]) :
           (k \in 1 .. Len(held[u]) /\ held'[u][k] = held[u][k]) \/ held'[u][k] = Answer(t, h)
      /\ \A i : Cardinality(HoldsIn(held', i)) =
                  Cardinality(HoldsIn(held, i)) + (IF h = i THEN 1 ELSE 0)
  BY <1>1, <1>2, <1>3, Returned
<1> HIDE DEF h
<1>5. \A i : ~Removing(i)' /\ ~Freeing(i)' /\ ~Owing(i)'
  BY <1>4, CalmAfter DEF Taking
<1>6. \A i : ~Removing(i) /\ ~Freeing(i) /\ (Owing(i) <=> i = h)
  BY <1>1, OnlyActor DEF h
<1>7. SerialInv'
  BY <1>3, <1>4 DEF IInv, SerialInv, Opening, Placing
<1>8. (\A u \in Threads : RegInv(u)') /\ FaultInv
  BY <1>1, <1>4, IdleReg DEF FaultInv
<1>9. \A u \in Threads : pc[u] \notin Placing
  BY <1>1 DEF Placing
<1>10. CASE UNCHANGED <<list, grown>>
  <2>1. DataOK'
    BY <1>3, <1>4, <1>10 DEF IInv, DataOK, Registers
  <2>2. ListInv' /\ UniqueInv'
    BY <1>3, <1>5, <1>6, <1>10 DEF IInv, ListInv, UniqueInv, Listed, Target, IsProcessOf
  <2>3. CountInv'
    <3> SUFFICES ASSUME NEW i \in DOMAIN list, Listed(i)
                 PROVE  /\ grown = 0 => Cardinality(HoldsIn(held', i)) <= Weight(i)
                        /\ lost = 0 => Weight(i) <= Cardinality(HoldsIn(held', i))
      BY <1>3, <1>5, <1>10, HoldsFinite DEF CountInv, Listed, Owed, Weight, Target
    <3>1. /\ grown = 0 => Cardinality(HoldsIn(held, i)) + Owed(i) <= Weight(i)
          /\ lost = 0 => Weight(i) <= Cardinality(HoldsIn(held, i)) + Owed(i)
      BY <1>6 DEF IInv, CountInv
    <3>2. Cardinality(HoldsIn(held', i)) = Cardinality(HoldsIn(held, i)) + Owed(i)
      BY <1>4, <1>6 DEF Owed
    <3> QED
      BY <3>1, <3>2
  <2>4. HeldInv'
    BY <1>2, <1>3, <1>4, <1>5, <1>10 DEF IInv, HeldInv, LeadsIn, Answer, IsProcessOf, Target
  <2>5. PipeInv'
    BY <1>3, <1>9, <1>10 DEF IInv, PipeInv
  <2>6. FaultInv'
    BY <1>3, <1>8, <1>10 DEF FaultInv
  <2> QED
    BY <1>7, <1>8, <2>1, <2>2, <2>3, <2>4, <2>5, <2>6 DEF IInv
<1>11. CASE /\ grown < MaxGrowths /\ grown' = grown + 1
            /\ list' = EmptyList(2 * Max)
  <2>1. Max \in Nat \ {0} /\ 2 * Max \in Nat \ {0}
    BY Shape DEF IInv, Max
  <2>2. list' \in Seq(Entry) /\ \A i \in DOMAIN list' : list'[i].type = "empty"
    BY <1>11, <2>1, NewList
  <2>3. grown' \in 0 .. MaxGrowths /\ grown' # 0
    BY <1>11, BoundsAssumption DEF IInv, DataOK
  <2>4. DataOK'
    BY <1>3, <1>4, <2>2, <2>3 DEF IInv, DataOK, Registers
  <2>5. ListInv' /\ UniqueInv' /\ CountInv'
    BY <2>2 DEF ListInv, UniqueInv, CountInv, Listed
  <2>6. HeldInv' /\ PipeInv' /\ FaultInv'
    BY <1>1, <1>3, <2>2, <2>3 DEF HeldInv, PipeInv, FaultInv
  <2> QED
    BY <1>7, <1>8, <2>4, <2>5, <2>6 DEF IInv
<1> QED
  BY <1>10, <1>11 DEF FirstModule

LEMMA ModuleProcessStep ==
  ASSUME IInv, NEW t \in Threads, NEW p \in Pids, ModuleProcess(t, p)
  PROVE  IInv'
<1>1. /\ pc[t] = "alloc" /\ fault = "none" /\ reg[t].kind = "snapshot"
      /\ \A u \in Threads : u # t => pc[u] = "idle"
  BY Acting DEF ModuleProcess, At
<1>2. /\ grown < MaxGrowths /\ grown' = grown + 1 /\ list' = EmptyList(2 * Max)
      /\ UNCHANGED <<heap, pc, reg, held, up, lost, fault>>
  BY DEF ModuleProcess
<1>3. Max \in Nat \ {0} /\ 2 * Max \in Nat \ {0}
  BY Shape DEF IInv, Max
<1>4. list' \in Seq(Entry) /\ \A i \in DOMAIN list' : list'[i].type = "empty"
  BY <1>2, <1>3, NewList
<1>5. grown' \in 0 .. MaxGrowths /\ grown' # 0
  BY <1>2, BoundsAssumption DEF IInv, DataOK
<1>6. DataOK' /\ SerialInv'
  BY <1>2, <1>4, <1>5 DEF IInv, DataOK, SerialInv
<1>7. ListInv' /\ UniqueInv' /\ CountInv'
  BY <1>4 DEF ListInv, UniqueInv, CountInv, Listed
<1>8. HeldInv' /\ PipeInv' /\ FaultInv'
  BY <1>1, <1>2, <1>4, <1>5 DEF HeldInv, PipeInv, FaultInv
<1>9. ASSUME NEW u \in Threads PROVE RegInv(u)'
  <2>1. CASE u = t
    BY <1>1, <1>2, <2>1 DEF RegInv, Placing
  <2>2. CASE u # t
    BY <1>1, <1>2, <2>2, IdleReg
  <2> QED
    BY <2>1, <2>2
<1> QED
  BY <1>6, <1>7, <1>8, <1>9 DEF IInv

LEMMA UnrefStep ==
  ASSUME IInv, NEW t \in Threads, Unref(t)
  PROVE  IInv'
<1> DEFINE h == reg[t].handle
           o == reg[t].object
           x == WithRefs(heap[o], heap[o].refs - 1)
<1>1. /\ pc[t] = "unref" /\ fault = "none" /\ t \in up
      /\ \A u \in Threads : u # t => pc[u] = "idle"
  BY Acting DEF Unref, At
<1>2. /\ h \in DOMAIN list /\ Listed(h) /\ list[h].ptr = o /\ list[h].type # "pipe"
  BY <1>1 DEF IInv, RegInv
<1>3. \A i : ~Removing(i) /\ ~Freeing(i) /\ (Owing(i) <=> i = h)
  BY <1>1, OnlyActor
<1>4. /\ o \in DOMAIN heap /\ heap[o] \in Object /\ heap[o].live /\ heap[o].refs >= 1 /\ o # 0
  BY <1>2, <1>3, Shape DEF IInv, ListInv, Target
<1>5. /\ fault' = "none" /\ heap' = [heap EXCEPT ![o] = x]
      /\ pc' = [pc EXCEPT ![t] = "free"]
      /\ UNCHANGED <<list, reg, held, up, grown, lost>>
  <2>1. Access(o) = "none"
    BY <1>4 DEF Access
  <2>2. /\ fault' = Access(o) /\ heap' = [heap EXCEPT ![o] = x]
        /\ pc' = [pc EXCEPT ![t] = "free"]
        /\ UNCHANGED <<list, reg, held, up, grown, lost>>
    BY DEF Unref, Goto, WithRefs
  <2> QED
    BY <2>1, <2>2
<1>6. /\ x \in Object /\ x.kind = heap[o].kind /\ x.key = heap[o].key /\ x.live = heap[o].live
      /\ x.iterator = heap[o].iterator /\ x.refs = heap[o].refs - 1 /\ heap[o].refs \in Nat
  <2>1. heap[o].refs \in Nat /\ heap[o].refs - 1 \in Nat
    BY <1>4 DEF Object
  <2> QED
    BY <1>4, <2>1, WithRefsProperties
<1> HIDE DEF x
<1>7. /\ heap' \in Seq(Object) /\ Len(heap') = Len(heap) /\ DOMAIN heap' = DOMAIN heap
      /\ heap'[o] = x /\ \A n \in DOMAIN heap : n # o => heap'[n] = heap[n]
  BY <1>4, <1>5, <1>6, HeapSet DEF IInv
<1>8. /\ pc'[t] = "free" /\ \A u \in Threads : u # t => pc'[u] = "idle"
      /\ pc' \in [Threads -> Steps]
  BY <1>1, <1>5 DEF IInv, DataOK, Steps
<1>9. \A i : ~Removing(i)' /\ (Freeing(i)' <=> i = h)
             /\ (Owing(i)' <=> i = h /\ list[i].type = "pipe")
  BY <1>5, <1>8, OnlyActorAfter
<1> HIDE DEF o, h
<1>10. DataOK'
  BY <1>5, <1>7, <1>8 DEF IInv, DataOK
<1>11. SerialInv'
  BY <1>1, <1>5, <1>7, <1>8 DEF IInv, SerialInv, Opening, Placing
<1>12. ASSUME NEW i \in DOMAIN list, Listed(i)
       PROVE  /\ list[i].ptr \in DOMAIN heap
              /\ list[i].ptr = o <=> i = h
              /\ heap'[list[i].ptr].kind = heap[list[i].ptr].kind
              /\ heap'[list[i].ptr].key = heap[list[i].ptr].key
              /\ heap'[list[i].ptr].live = heap[list[i].ptr].live
              /\ heap'[list[i].ptr].iterator = heap[list[i].ptr].iterator
              /\ i # h => heap'[list[i].ptr].refs = heap[list[i].ptr].refs
  BY <1>2, <1>4, <1>6, <1>7, <1>12 DEF IInv, ListInv, UniqueInv, Listed, Target
<1>13. ListInv'
  BY <1>2, <1>3, <1>4, <1>5, <1>6, <1>7, <1>9, <1>12 DEF IInv, ListInv, Listed, Target
<1>14. UniqueInv'
  BY <1>5, <1>12 DEF IInv, UniqueInv, Listed, Target, IsProcessOf
<1>15. CountInv'
  <2> SUFFICES ASSUME NEW i \in DOMAIN list, Listed(i)
               PROVE  /\ grown = 0 => Cardinality(HoldsIn(held, i)) + Owed(i)' <= Weight(i)'
                      /\ lost = 0 => Weight(i)' <= Cardinality(HoldsIn(held, i)) + Owed(i)'
    BY <1>5 DEF CountInv, Listed
  <2>1. /\ grown = 0 => Cardinality(HoldsIn(held, i)) + Owed(i) <= Weight(i)
        /\ lost = 0 => Weight(i) <= Cardinality(HoldsIn(held, i)) + Owed(i)
    BY <1>3 DEF IInv, CountInv
  <2>2. Cardinality(HoldsIn(held, i)) \in Nat
    BY HoldsFinite
  <2>3. CASE i # h
    <3>1. Weight(i)' = Weight(i) /\ Owed(i)' = Owed(i)
      BY <1>3, <1>5, <1>9, <1>12, <2>3 DEF Weight, Target, Owed
    <3> QED
      BY <2>1, <3>1
  <2>4. CASE i = h
    <3>1. Weight(i) = heap[o].refs /\ Weight(i)' = heap[o].refs - 1
      BY <1>2, <1>5, <1>6, <1>7, <2>4 DEF Weight, Target
    <3>2. Owed(i) = 1 /\ Owed(i)' = 0
      BY <1>2, <1>3, <1>9, <2>4 DEF Owed
    <3> QED
      BY <1>6, <2>1, <2>2, <3>1, <3>2
  <2> QED
    BY <2>3, <2>4
<1>16. HeldInv'
  <2>1. \A u \in Threads : \A k \in 1 .. Len(held[u]) : held[u][k].kind # "empty"
    BY Shape DEF IInv, Held, Kinds
  <2> QED
    BY <1>5, <1>9, <1>12, <2>1 DEF IInv, HeldInv, LeadsIn, Listed
<1>17. PipeInv'
  <2>1. \A n \in DOMAIN heap : heap'[n].kind = heap[n].kind /\ heap'[n].live = heap[n].live
    BY <1>6, <1>7
  <2>2. \A u \in Threads : pc[u] \notin Placing
    BY <1>1 DEF Placing
  <2> QED
    BY <1>5, <1>7, <2>1, <2>2 DEF IInv, PipeInv
<1>18. RegInv(t)'
  BY <1>2, <1>5, <1>8 DEF RegInv, Placing, Listed, o, h
<1>19. (\A u \in Threads : RegInv(u)') /\ FaultInv'
  BY <1>5, <1>8, <1>18, IdleReg DEF FaultInv
<1> QED
  BY <1>10, <1>11, <1>13, <1>14, <1>15, <1>16, <1>17, <1>19 DEF IInv

LEMMA FreeStep ==
  ASSUME IInv, NEW t \in Threads, Free(t)
  PROVE  IInv'
<1> DEFINE h == reg[t].handle
           o == reg[t].object
           x == Freed(heap[o])
<1>1. /\ pc[t] = "free" /\ fault = "none" /\ t \in up
      /\ \A u \in Threads : u # t => pc[u] = "idle"
  BY Acting DEF Free, At
<1>2. /\ h \in DOMAIN list /\ Listed(h) /\ list[h].ptr = o
  BY <1>1 DEF IInv, RegInv
<1>3. \A i : /\ ~Removing(i) /\ (Freeing(i) <=> i = h)
             /\ Owing(i) <=> i = h /\ list[i].type = "pipe"
  BY <1>1, OnlyActor
<1>4. /\ o \in DOMAIN heap /\ heap[o] \in Object /\ heap[o].live /\ o # 0
      /\ heap[o].refs \in Nat /\ (list[h].type = "pipe" => heap[o].refs = 0)
  <2>1. o \in DOMAIN heap /\ heap[o].live /\ (list[h].type = "pipe" => heap[o].refs = 0)
    BY <1>2, <1>3 DEF IInv, ListInv, Target
  <2> QED
    BY <2>1, Shape DEF IInv, Object
<1>5. Access(o) = "none"
  BY <1>4 DEF Access
<1>6. CASE heap[o].refs > 0 /\ Finish(t) /\ UNCHANGED heap
  <2>1. /\ pc' = [pc EXCEPT ![t] = "idle"] /\ reg' = [reg EXCEPT ![t] = NoRegister]
        /\ fault' = "none" /\ UNCHANGED <<heap, list, held, up, grown, lost>>
    BY <1>5, <1>6 DEF Free, Finish, Goto
  <2>2. /\ \A u \in Threads : pc'[u] = "idle"
        /\ pc' \in [Threads -> Steps] /\ reg' \in [Threads -> Registers]
    BY <1>1, <2>1 DEF IInv, DataOK, Registers, NoRegister, Kinds, Keys, Steps
  <2>3. \A i : ~Removing(i)' /\ ~Freeing(i)' /\ ~Owing(i)'
    BY <2>2, CalmAfter DEF Taking
  <2>4. list[h].type # "pipe" /\ heap[o].refs >= 1
    BY <1>4, <1>6
  <2>5. DataOK'
    BY <2>1, <2>2 DEF IInv, DataOK, Registers
  <2>6. SerialInv'
    BY <2>1, <2>2 DEF IInv, SerialInv, Opening, Placing
  <2>7. ListInv' /\ UniqueInv'
    BY <1>2, <1>3, <2>1, <2>3, <2>4 DEF IInv, ListInv, UniqueInv, Listed, Target, IsProcessOf
  <2>8. CountInv'
    BY <1>3, <2>1, <2>3, <2>4 DEF IInv, CountInv, Listed, Owed, Weight, Target
  <2>9. HeldInv'
    BY <2>1, <2>3 DEF IInv, HeldInv
  <2>10. PipeInv'
    <3>1. \A u \in Threads : pc[u] \notin Placing
      BY <1>1 DEF Placing
    <3> QED
      BY <2>1, <3>1 DEF IInv, PipeInv
  <2>11. (\A u \in Threads : RegInv(u)') /\ FaultInv'
    BY <2>1, <2>2, IdleReg DEF FaultInv
  <2> QED
    BY <2>5, <2>6, <2>7, <2>8, <2>9, <2>10, <2>11 DEF IInv
<1>7. CASE /\ heap[o].refs <= 0 /\ heap' = [heap EXCEPT ![o] = x]
           /\ Goto(t, "remove") /\ UNCHANGED reg
  <2>1. /\ pc' = [pc EXCEPT ![t] = "remove"] /\ fault' = "none"
        /\ UNCHANGED <<reg, list, held, up, grown, lost>>
    BY <1>5, <1>7 DEF Free, Goto
  <2>2. /\ pc'[t] = "remove" /\ \A u \in Threads : u # t => pc'[u] = "idle"
        /\ pc' \in [Threads -> Steps]
    BY <1>1, <2>1 DEF IInv, DataOK, Steps
  <2>3. \A i : (Removing(i)' <=> i = h) /\ (Freeing(i)' <=> i = h) /\ ~Owing(i)'
    BY <2>1, <2>2, OnlyActorAfter
  <2>4. /\ x \in Object /\ x.kind = heap[o].kind /\ x.key = heap[o].key /\ x.live = FALSE
        /\ x.iterator = heap[o].iterator /\ x.refs = heap[o].refs
    BY <1>4, FreedProperties
  <2> HIDE DEF x
  <2>5. /\ heap' \in Seq(Object) /\ Len(heap') = Len(heap) /\ DOMAIN heap' = DOMAIN heap
        /\ heap'[o] = x /\ \A n \in DOMAIN heap : n # o => heap'[n] = heap[n]
    BY <1>4, <1>7, <2>4, HeapSet DEF IInv
  <2> HIDE DEF o, h
  <2>6. ASSUME NEW i \in DOMAIN list, Listed(i)
        PROVE  /\ list[i].ptr \in DOMAIN heap
               /\ list[i].ptr = o <=> i = h
               /\ heap'[list[i].ptr].kind = heap[list[i].ptr].kind
               /\ heap'[list[i].ptr].key = heap[list[i].ptr].key
               /\ heap'[list[i].ptr].refs = heap[list[i].ptr].refs
               /\ heap'[list[i].ptr].iterator = heap[list[i].ptr].iterator
               /\ i # h => heap'[list[i].ptr].live = heap[list[i].ptr].live
    BY <1>2, <1>4, <2>4, <2>5, <2>6 DEF IInv, ListInv, UniqueInv, Listed, Target
  <2>7. DataOK'
    BY <2>1, <2>2, <2>5 DEF IInv, DataOK
  <2>8. SerialInv'
    BY <1>1, <2>1, <2>2, <2>5 DEF IInv, SerialInv, Opening, Placing
  <2>9. ListInv'
    BY <1>3, <2>1, <2>3, <2>5, <2>6 DEF IInv, ListInv, Listed, Target
  <2>10. UniqueInv'
    BY <2>1, <2>6 DEF IInv, UniqueInv, Listed, Target, IsProcessOf
  <2>11. CountInv'
    BY <1>3, <2>1, <2>3, <2>6 DEF IInv, CountInv, Listed, Owed, Weight, Target
  <2>12. ASSUME grown = 0, NEW u \in Threads, NEW k \in 1 .. Len(held[u])
         PROVE  held[u][k].handle # h
    <3>1. Cardinality(HoldsIn(held, h)) \in Nat
      BY HoldsFinite
    <3>2. Cardinality(HoldsIn(held, h)) + Owed(h) <= Weight(h)
      BY <1>2, <1>3, <2>12 DEF IInv, CountInv
    <3>3. Weight(h) = Owed(h) /\ Owed(h) \in Nat
      BY <1>2, <1>3, <1>4, <1>7 DEF Weight, Owed, Target
    <3>4. HoldsIn(held, h) = {}
      BY <3>1, <3>2, <3>3, HoldsFinite
    <3>5. <<u, k>> \in Threads \X (1 .. MaxHeld)
      BY Shape, BoundsAssumption DEF IInv, SerialInv
    <3> QED
      BY <3>4, <3>5 DEF HoldsIn
  <2>13. HeldInv'
    <3>1. \A u \in Threads : \A k \in 1 .. Len(held[u]) : held[u][k].kind # "empty"
      BY Shape DEF IInv, Held, Kinds
    <3> QED
      BY <2>1, <2>3, <2>6, <2>12, <3>1 DEF IInv, HeldInv, LeadsIn, Listed
  <2>14. PipeInv'
    <3>1. \A n \in DOMAIN heap : heap'[n].kind = heap[n].kind /\ (heap'[n].live => heap[n].live)
      BY <1>4, <2>4, <2>5
    <3>2. \A u \in Threads : pc[u] \notin Placing
      BY <1>1 DEF Placing
    <3> QED
      BY <2>1, <2>5, <3>1, <3>2 DEF IInv, PipeInv
  <2>15. RegInv(t)'
    BY <1>2, <2>1, <2>2, <2>4, <2>5 DEF RegInv, Placing, Listed, o, h
  <2>16. (\A u \in Threads : RegInv(u)') /\ FaultInv'
    BY <2>1, <2>2, <2>15, IdleReg DEF FaultInv
  <2> QED
    BY <2>7, <2>8, <2>9, <2>10, <2>11, <2>13, <2>14, <2>16 DEF IInv
<1> QED
  BY <1>6, <1>7 DEF Free, Freed

LEMMA RemoveStep ==
  ASSUME IInv, NEW t \in Threads, Remove(t)
  PROVE  IInv'
<1> DEFINE h == reg[t].handle
           x == [list[h] EXCEPT !.type = "empty"]
<1>1. /\ pc[t] = "remove" /\ fault = "none"
      /\ \A u \in Threads : u # t => pc[u] = "idle"
  BY Acting DEF Remove, At
<1>2. /\ h \in DOMAIN list /\ Listed(h) /\ ~heap[list[h].ptr].live
  BY <1>1 DEF IInv, RegInv
<1>3. \A i : (Removing(i) <=> i = h) /\ (Freeing(i) <=> i = h) /\ ~Owing(i)
  BY <1>1, OnlyActor
<1>4. /\ list' = [list EXCEPT ![h] = x]
      /\ pc' = [pc EXCEPT ![t] = "idle"] /\ reg' = [reg EXCEPT ![t] = NoRegister]
      /\ UNCHANGED <<heap, held, up, grown, lost, fault>>
  BY <1>2 DEF Remove, Finish, Goto
<1>5. x \in Entry /\ x.type = "empty"
  BY <1>2, Shape DEF IInv, Entry
<1> HIDE DEF x
<1>6. /\ list' \in Seq(Entry) /\ DOMAIN list' = DOMAIN list
      /\ list'[h] = x /\ \A j \in DOMAIN list : j # h => list'[j] = list[j]
  BY <1>2, <1>4, <1>5, ListSet DEF IInv
<1>7. /\ \A u \in Threads : pc'[u] = "idle"
      /\ pc' \in [Threads -> Steps] /\ reg' \in [Threads -> Registers]
  BY <1>1, <1>4 DEF IInv, DataOK, Registers, NoRegister, Kinds, Keys, Steps
<1>8. \A i : ~Removing(i)' /\ ~Freeing(i)' /\ ~Owing(i)'
  BY <1>7, CalmAfter DEF Taking
<1> HIDE DEF h
<1>9. \A i \in DOMAIN list : list'[i].type # "empty" => i # h /\ list'[i] = list[i]
  BY <1>5, <1>6
<1>10. DataOK'
  BY <1>4, <1>6, <1>7 DEF IInv, DataOK, Registers
<1>11. SerialInv'
  BY <1>4, <1>7 DEF IInv, SerialInv, Opening, Placing
<1>12. ListInv'
  BY <1>3, <1>4, <1>6, <1>8, <1>9 DEF IInv, ListInv, Listed, Target
<1>13. UniqueInv'
  BY <1>4, <1>6, <1>9 DEF IInv, UniqueInv, Listed, Target, IsProcessOf
<1>14. CountInv'
  BY <1>3, <1>4, <1>6, <1>8, <1>9 DEF IInv, CountInv, Listed, Owed, Weight, Target
<1>15. HeldInv'
  <2>1. grown = 0 => \A u \in Threads : \A k \in 1 .. Len(held[u]) : held[u][k].handle # h
    BY <1>3 DEF IInv, HeldInv
  <2> QED
    BY <1>4, <1>6, <1>8, <2>1 DEF IInv, HeldInv, LeadsIn
<1>16. PipeInv'
  <2>1. \A u \in Threads : pc[u] \notin Placing
    BY <1>1 DEF Placing
  <2>2. \A i \in DOMAIN list : heap[list[i].ptr].live => list'[i] = list[i]
    BY <1>2, <1>6
  <2>3. \A i \in DOMAIN list : list'[i].type = "pipe" => list[i].type = "pipe"
    BY <1>9
  <2> QED
    BY <1>4, <1>6, <2>1, <2>2, <2>3 DEF IInv, PipeInv
<1>17. (\A u \in Threads : RegInv(u)') /\ FaultInv'
  BY <1>4, <1>7, IdleReg DEF IInv, FaultInv
<1> QED
  BY <1>10, <1>11, <1>12, <1>13, <1>14, <1>15, <1>16, <1>17 DEF IInv

-----------------------------------------------------------------------------
(* Commands of one step.  No other runs, and what the list leads to is not  *)
(* freed.                                                                   *)
LEMMA HeldIsLive ==
  ASSUME IInv, NEW t \in Threads, NEW k \in 1 .. Len(held[t]),
         (\A u \in Threads : pc[u] = "idle") \/ grown = 0, TypeOf(held[t][k].handle) # "empty"
  PROVE  LET i == held[t][k].handle IN
           /\ i \in DOMAIN list /\ Listed(i) /\ ~Removing(i)
           /\ TypeOf(i) = list[i].type /\ Pointer(i) = list[i].ptr
           /\ list[i].ptr \in DOMAIN heap /\ heap[list[i].ptr] \in Object
           /\ Access(list[i].ptr) = "none"
<1> DEFINE i == held[t][k].handle
<1>1. i \in DOMAIN list /\ Listed(i) /\ TypeOf(i) = list[i].type /\ Pointer(i) = list[i].ptr
  BY DEF TypeOf, Listed, Pointer
<1>2. ~Removing(i)
  <2>1. CASE \A u \in Threads : pc[u] = "idle"
    BY <2>1, Calm DEF Taking
  <2>2. CASE grown = 0
    BY <2>2 DEF IInv, HeldInv
  <2> QED
    BY <2>1, <2>2
<1> HIDE DEF i
<1>3. list[i].ptr \in DOMAIN heap /\ heap[list[i].ptr] \in Object /\ heap[list[i].ptr].live
  BY <1>1, <1>2, Shape DEF IInv, ListInv, Target
<1>4. list[i].ptr # 0
  BY <1>3, Shape DEF IInv
<1> QED
  BY <1>1, <1>2, <1>3, <1>4 DEF Access, i

LEMMA UseStep ==
  ASSUME IInv, NEW t \in Threads, NEW k \in 1 .. Len(held[t]),
         Use(t, k) \/ UsePipe(t, k), ~overlapped'
  PROVE  IInv'
<1> DEFINE h == held[t][k].handle
<1>1. fault = "none" /\ ((\A u \in Threads : pc[u] = "idle") \/ grown = 0)
  BY Using DEF Use, UsePipe
<1>2. TypeOf(h) # "empty" /\ UNCHANGED <<list, heap, pc, reg, held, up, grown, lost>>
  BY DEF Use, UsePipe
<1>3. h \in DOMAIN list /\ Listed(h) /\ Access(Pointer(h)) = "none"
  BY <1>1, <1>2, HeldIsLive
<1>4. grown = 0 => TypeOf(h) = held[t][k].kind
  BY <1>3 DEF IInv, HeldInv, LeadsIn, TypeOf
<1>5. FaultInv'
  <2>1. CASE Use(t, k)
    BY <1>3, <2>1 DEF Use, FaultInv
  <2>2. CASE UsePipe(t, k)
    BY <1>2, <1>3, <1>4, <2>2 DEF UsePipe, FaultInv
  <2> QED
    BY <2>1, <2>2
<1>6. DataOK' /\ SerialInv'
  BY <1>2, <1>5 DEF IInv, DataOK, SerialInv, FaultInv
<1>7. ListInv' /\ UniqueInv'
  BY <1>2 DEF IInv, ListInv, UniqueInv, Listed, Target, IsProcessOf, Removing, Freeing
<1>8. CountInv' /\ HeldInv' /\ PipeInv'
  BY <1>2
  DEF IInv, CountInv, HeldInv, PipeInv, LeadsIn, Listed, Removing, Owed, Owing, Weight, Target
<1>9. \A u \in Threads : RegInv(u)'
  BY <1>2 DEF IInv, RegInv, Listed, IsEmpty, IsProcessOf, Target, NewObject
<1> QED
  BY <1>5, <1>6, <1>7, <1>8, <1>9 DEF IInv

LEMMA ConnectStep ==
  ASSUME IInv, NEW t \in Threads, Connect(t)
  PROVE  IInv'
<1>1. up' = up \cup {t} /\ UNCHANGED <<list, heap, pc, reg, held, grown, lost, fault>>
  BY DEF Connect
<1>2. DataOK' /\ SerialInv' /\ FaultInv'
  BY <1>1 DEF IInv, DataOK, SerialInv, FaultInv
<1>3. ListInv' /\ UniqueInv'
  BY <1>1 DEF IInv, ListInv, UniqueInv, Listed, Target, IsProcessOf, Removing, Freeing
<1>4. CountInv' /\ HeldInv' /\ PipeInv'
  BY <1>1
  DEF IInv, CountInv, HeldInv, PipeInv, LeadsIn, Listed, Removing, Owed, Owing, Weight, Target
<1>5. \A u \in Threads : RegInv(u)'
  BY <1>1 DEF IInv, RegInv, Listed, IsEmpty, IsProcessOf, Target, NewObject
<1> QED
  BY <1>2, <1>3, <1>4, <1>5 DEF IInv

-----------------------------------------------------------------------------
(* CloseHandle takes one of the holds away.                                 *)
LEMMA Closed ==
  ASSUME IInv, NEW t \in Threads, NEW k \in 1 .. Len(held[t]), held' = Minus(held, t, k)
  PROVE  /\ held' \in [Threads -> Seq(Held)]
         /\ \A u \in Threads : Len(held'[u]) <= Len(held[u])
         /\ \A u \in Threads : \A j \in 1 .. Len(held'[u]) :
              \E m \in 1 .. Len(held[u]) : held'[u][j] = held[u][m]
         /\ \A i : Cardinality(HoldsIn(held, i)) =
                     Cardinality(HoldsIn(held', i)) + (IF held[t][k].handle = i THEN 1 ELSE 0)
<1> DEFINE w == Without(held[t], k)
<1>1. /\ held \in [Threads -> Seq(Held)] /\ held[t] \in Seq(Held) /\ Len(held[t]) <= MaxHeld
      /\ \A u \in Threads : Len(held[u]) \in Nat
  BY Shape DEF IInv, DataOK, SerialInv
<1>2. /\ w \in Seq(Held) /\ Len(w) = Len(held[t]) - 1
      /\ \A j \in 1 .. Len(held[t]) - 1 : w[j] = IF j < k THEN held[t][j] ELSE held[t][j + 1]
  BY <1>1, WithoutProperties
<1>3. held' = [held EXCEPT ![t] = w]
  BY DEF Minus
<1> HIDE DEF w
<1>4. held' \in [Threads -> Seq(Held)]
  BY <1>1, <1>2, <1>3
<1>5. held'[t] = w /\ \A u \in Threads : u # t => held'[u] = held[u]
  BY <1>1, <1>3
<1>6. \A u \in Threads : Len(held'[u]) <= Len(held[u])
  BY <1>1, <1>2, <1>5
<1>7. ASSUME NEW u \in Threads, NEW j \in 1 .. Len(held'[u])
      PROVE  \E m \in 1 .. Len(held[u]) : held'[u][j] = held[u][m]
  <2>1. CASE u # t
    BY <1>5, <2>1
  <2>2. CASE u = t
    <3>1. j \in 1 .. Len(held[t]) - 1 /\ j \in 1 .. Len(held[t]) /\ j + 1 \in 1 .. Len(held[t])
      BY <1>1, <1>2, <1>5, <2>2
    <3>2. held'[u][j] = held[u][j] \/ held'[u][j] = held[u][j + 1]
      BY <1>2, <1>5, <2>2, <3>1
    <3> QED
      BY <2>2, <3>1, <3>2
  <2> QED
    BY <2>1, <2>2
<1>8. \A i : Cardinality(HoldsIn(held, i)) =
               Cardinality(HoldsIn(held', i)) + (IF held[t][k].handle = i THEN 1 ELSE 0)
  BY <1>1, Removed
<1> QED
  BY <1>4, <1>6, <1>7, <1>8

LEMMA CloseHandleStep ==
  ASSUME IInv, NEW t \in Threads, NEW k \in 1 .. Len(held[t]), CloseHandle(t, k), ~overlapped'
  PROVE  IInv'
<1> DEFINE h == held[t][k].handle
<1>1. fault = "none" /\ t \in up /\ \A u \in Threads : pc[u] = "idle"
  BY Starting DEF CloseHandle
<1>2. held' = Minus(held, t, k) /\ UNCHANGED <<list, heap, up, grown, lost, fault>>
  BY DEF CloseHandle, Minus, Without
<1>3. /\ held' \in [Threads -> Seq(Held)]
      /\ \A u \in Threads : Len(held'[u]) <= Len(held[u])
      /\ \A u \in Threads : \A j \in 1 .. Len(held'[u]) :
           \E m \in 1 .. Len(held[u]) : held'[u][j] = held[u][m]
      /\ \A i : Cardinality(HoldsIn(held, i)) =
                  Cardinality(HoldsIn(held', i)) + (IF h = i THEN 1 ELSE 0)
  BY <1>2, Closed
<1>4. \A u \in Threads : /\ Len(held'[u]) \in Nat /\ Len(held[u]) \in Nat
                         /\ Len(held'[u]) <= MaxHeld
  <2>1. \A u \in Threads : Len(held'[u]) \in Nat /\ Len(held[u]) \in Nat /\ Len(held[u]) <= MaxHeld
    BY <1>3, LenProperties, Shape DEF IInv, SerialInv
  <2> QED
    BY <1>3, <2>1, BoundsAssumption
<1>5. \A i : ~Removing(i) /\ ~Freeing(i) /\ ~Owing(i)
  BY <1>1, Calm DEF Taking
<1>6. UniqueInv'
  BY <1>2 DEF IInv, UniqueInv, Listed, Target, IsProcessOf
<1>7. PipeInv'
  BY <1>1, <1>2 DEF IInv, PipeInv, Placing
<1>8. FaultInv'
  BY <1>1, <1>2 DEF FaultInv
<1>9. (\A i : ~Removing(i)') => HeldInv'
  <2>1. ASSUME grown = 0, NEW u \in Threads, NEW j \in 1 .. Len(held'[u])
        PROVE  LeadsIn(list, heap, held'[u][j])
    BY <1>3, <2>1 DEF IInv, HeldInv
  <2> QED
    BY <1>2, <2>1 DEF HeldInv
<1>10. ASSUME NEW i \in DOMAIN list, Listed(i)
       PROVE  /\ grown = 0 => Cardinality(HoldsIn(held, i)) <= Weight(i)
              /\ lost = 0 => Weight(i) <= Cardinality(HoldsIn(held, i))
              /\ Cardinality(HoldsIn(held, i)) \in Nat /\ Cardinality(HoldsIn(held', i)) \in Nat
  BY <1>5, <1>10, HoldsFinite DEF IInv, CountInv, Owed
<1>11. CASE TypeOf(h) = "empty" /\ UNCHANGED <<pc, reg>>
  <2>1. \A i : ~Removing(i)' /\ ~Freeing(i)' /\ ~Owing(i)'
    BY <1>1, <1>11, CalmAfter DEF Taking
  <2>2. DataOK'
    BY <1>2, <1>3, <1>11 DEF IInv, DataOK
  <2>3. SerialInv'
    BY <1>1, <1>2, <1>4, <1>11 DEF IInv, SerialInv, Opening, Placing
  <2>4. ListInv'
    BY <1>2, <1>5, <2>1 DEF IInv, ListInv, Listed, Target
  <2>5. CountInv'
    <3>1. ASSUME NEW i \in DOMAIN list, Listed(i)
          PROVE  Cardinality(HoldsIn(held', i)) = Cardinality(HoldsIn(held, i))
      <4>1. i # h
        BY <1>11, <3>1 DEF TypeOf, Listed
      <4> QED
        BY <1>3, <1>10, <3>1, <4>1
    <3> QED
      BY <1>2, <1>10, <2>1, <3>1 DEF CountInv, Listed, Owed, Weight, Target
  <2>6. \A u \in Threads : RegInv(u)'
    BY <1>1, <1>11, IdleReg
  <2> QED
    BY <1>6, <1>7, <1>8, <1>9, <2>1, <2>2, <2>3, <2>4, <2>5, <2>6 DEF IInv
<1>12. CASE /\ TypeOf(h) # "empty"
            /\ reg' = [reg EXCEPT ![t] = [@ EXCEPT !.handle = h, !.object = list[h].ptr]]
            /\ Goto(t, IF TypeOf(h) = "pipe" THEN "free" ELSE "unref")
  <2> DEFINE r == [reg[t] EXCEPT !.handle = h, !.object = list[h].ptr]
             s == IF TypeOf(h) = "pipe" THEN "free" ELSE "unref"
  <2>1. h \in DOMAIN list /\ Listed(h) /\ TypeOf(h) = list[h].type
    BY <1>12 DEF TypeOf, Listed
  <2>2. reg' = [reg EXCEPT ![t] = r] /\ pc' = [pc EXCEPT ![t] = s]
    BY <1>12 DEF Goto
  <2>3. r \in Registers /\ r.handle = h /\ r.object = list[h].ptr
    <3>1. h \in Nat /\ list[h].ptr \in Nat /\ reg[t] \in Registers
      BY <2>1, Shape, BoundsAssumption DEF IInv, Held, Entry
    <3> QED
      BY <3>1 DEF Registers
  <2> HIDE DEF r
  <2>4. /\ pc'[t] = s /\ reg'[t] = r /\ \A u \in Threads : u # t => pc'[u] = "idle"
        /\ pc' \in [Threads -> Steps] /\ reg' \in [Threads -> Registers]
    BY <1>1, <2>2, <2>3 DEF IInv, DataOK, Steps, Registers
  <2> HIDE DEF h
  <2>5. s \in {"free", "unref"} /\ (s = "free" <=> list[h].type = "pipe")
    BY <2>1
  <2> HIDE DEF s
  <2>6. \A i : ~Removing(i)' /\ (Owing(i)' <=> i = h)
    BY <1>2, <2>3, <2>4, <2>5, OnlyActorAfter
  <2>7. DataOK'
    BY <1>2, <1>3, <2>4 DEF IInv, DataOK, Registers
  <2>8. SerialInv'
    BY <1>1, <1>2, <1>4, <2>4, <2>5 DEF IInv, SerialInv, Opening, Placing
  <2>9. ListInv'
    BY <1>2, <1>5 DEF IInv, ListInv, Listed, Target
  <2>10. CountInv'
    <3>1. ASSUME NEW i \in DOMAIN list, Listed(i)
          PROVE  /\ Cardinality(HoldsIn(held, i)) = Cardinality(HoldsIn(held', i)) + Owed(i)'
                 /\ Weight(i)' = Weight(i)
      BY <1>2, <1>3, <1>10, <2>6, <3>1 DEF Owed, Weight, Target
    <3> QED
      BY <1>2, <1>10, <3>1 DEF CountInv, Listed
  <2>11. RegInv(t)'
    BY <1>2, <2>1, <2>3, <2>4, <2>5 DEF RegInv, Placing, Listed
  <2>12. \A u \in Threads : RegInv(u)'
    BY <2>4, <2>11, IdleReg
  <2> QED
    BY <1>6, <1>7, <1>8, <1>9, <2>6, <2>7, <2>8, <2>9, <2>10, <2>12 DEF IInv
<1> QED
  BY <1>11, <1>12 DEF CloseHandle

-----------------------------------------------------------------------------
(* Walking a snapshot.  It has one reference, so one client stands in it.   *)
LEMMA OneHold ==
  ASSUME IInv, grown = 0,
         NEW t \in Threads, NEW k \in 1 .. Len(held[t]), held[t][k].kind = "snapshot",
         NEW u \in Threads, NEW j \in 1 .. Len(held[u]), held[u][j].handle = held[t][k].handle
  PROVE  u = t /\ j = k
<1> DEFINE h == held[t][k].handle
           S == HoldsIn(held, h)
<1>1. h \in DOMAIN list /\ list[h].type = "snapshot" /\ ~Removing(h)
  BY DEF IInv, HeldInv, LeadsIn
<1>2. IsFiniteSet(S) /\ Cardinality(S) \in Nat
  BY HoldsFinite
<1>3. Cardinality(S) <= 1
  <2>1. Cardinality(S) + Owed(h) <= Weight(h) /\ Owed(h) \in Nat
    BY <1>1 DEF IInv, CountInv, Listed, Owed
  <2>2. Weight(h) <= 1 /\ Weight(h) \in Nat
    BY <1>1, Shape DEF IInv, ListInv, Listed, Weight, Target, Object
  <2> QED
    BY <1>2, <2>1, <2>2
<1>4. <<t, k>> \in S /\ <<u, j>> \in S
  BY Shape, BoundsAssumption DEF IInv, SerialInv, HoldsIn
<1> HIDE DEF S
<1>5. IsFiniteSet(S \ {<<t, k>>}) /\ Cardinality(S \ {<<t, k>>}) = Cardinality(S) - 1
  BY <1>2, <1>4, FS_RemoveElement
<1>6. Cardinality(S \ {<<t, k>>}) = 0
  BY <1>2, <1>3, <1>5, FS_CardinalityType
<1>7. S \ {<<t, k>>} = {}
  BY <1>5, <1>6, FS_EmptySet
<1> QED
  BY <1>4, <1>7

Stands(e, n) == [e EXCEPT !.seen = n]

LEMMA WalkStep ==
  ASSUME IInv, NEW t \in Threads, NEW k \in 1 .. Len(held[t]), NEW first \in BOOLEAN,
         Walk(t, k, first), ~overlapped'
  PROVE  IInv'
<1> DEFINE e == held[t][k]
           h == e.handle
           o == list[h].ptr
           from == Position(o, first)
           n == IF from < Entries THEN from + 1 ELSE from
           s == SeenAfter(e.seen, first, from < Entries)
           x == WithIterator(heap[o], n)
           y == Stands(e, s)
<1>1. fault = "none" /\ ((\A u \in Threads : pc[u] = "idle") \/ grown = 0)
  BY Using DEF Walk
<1>2. TypeOf(h) = "snapshot"
  BY DEF Walk
<1>3. h \in DOMAIN list /\ list[h].type = "snapshot" /\ e.kind = "snapshot"
  BY DEF Walk, TypeOf
<1>4. /\ Pointer(h) = o /\ o \in DOMAIN heap /\ heap[o] \in Object /\ Access(o) = "none"
  BY <1>1, <1>2, HeldIsLive
<1>5. /\ fault' = "none" /\ UNCHANGED <<list, pc, reg, up, grown, lost>>
      /\ held' = [held EXCEPT ![t] = [held[t] EXCEPT ![k] = y]]
      /\ first \/ e.seen <= Entries
  BY <1>4 DEF Walk, Stands
<1>6. from \in 0 .. Entries /\ n \in 0 .. Entries
  <2>1. heap[o].iterator \in 0 .. Entries
    BY <1>4 DEF Object
  <2>2. from \in 0 .. Entries
    BY <2>1, BoundsAssumption DEF Position
  <2> HIDE DEF from
  <2> QED
    BY <2>2, BoundsAssumption
<1>7. heap' = [heap EXCEPT ![o] = x]
  <2>1. n = from + (IF from < Entries THEN 1 ELSE 0)
    BY <1>6, BoundsAssumption
  <2>2. heap' = [heap EXCEPT ![o] =
                   WithIterator(heap[o], from + (IF from < Entries THEN 1 ELSE 0))]
    BY <1>4 DEF Walk, WithIterator
  <2> HIDE DEF n, from, o
  <2> QED
    BY <2>1, <2>2
<1>8. e \in Held /\ e.seen \in Nat
  BY Shape, BoundsAssumption DEF IInv, Held
<1>9. s \in 0 .. Entries + 1
  <2>1. s = (IF first THEN 0 ELSE e.seen) + (IF from < Entries THEN 1 ELSE 0)
    BY DEF SeenAfter
  <2> HIDE DEF s, e, from
  <2> QED
    BY <1>5, <1>8, <2>1, BoundsAssumption
<1>10. grown = 0 => n = s
  <2>1. grown = 0 => heap[o].iterator = e.seen
    BY <1>3 DEF IInv, HeldInv, LeadsIn
  <2>2. from = IF first THEN 0 ELSE heap[o].iterator
    BY DEF Position
  <2>3. s = (IF first THEN 0 ELSE e.seen) + (IF from < Entries THEN 1 ELSE 0)
    BY DEF SeenAfter
  <2> HIDE DEF from, s, e, o
  <2> QED
    BY <1>6, <1>8, <2>1, <2>2, <2>3, BoundsAssumption
<1> HIDE DEF s, n, from
<1>11. /\ x \in Object /\ x.kind = heap[o].kind /\ x.key = heap[o].key /\ x.live = heap[o].live
       /\ x.iterator = n /\ x.refs = heap[o].refs
  BY <1>4, <1>6, WithIteratorProperties
<1>12. y \in Held /\ y.handle = h /\ y.kind = e.kind /\ y.key = e.key /\ y.seen = s
  BY <1>8, <1>9 DEF Stands, Held
<1> HIDE DEF x, y
<1>13. /\ heap' \in Seq(Object) /\ Len(heap') = Len(heap) /\ DOMAIN heap' = DOMAIN heap
       /\ heap'[o] = x /\ \A m \in DOMAIN heap : m # o => heap'[m] = heap[m]
  BY <1>4, <1>7, <1>11, HeapSet DEF IInv
<1>14. /\ held' \in [Threads -> Seq(Held)]
       /\ \A u \in Threads : Len(held'[u]) = Len(held[u])
       /\ held'[t][k] = y
       /\ \A u \in Threads : \A j \in 1 .. Len(held[u]) :
            u # t \/ j # k => held'[u][j] = held[u][j]
  <2>1. held \in [Threads -> Seq(Held)] /\ held[t] \in Seq(Held) /\ k \in 1 .. Len(held[t])
    BY Shape DEF IInv, DataOK
  <2> DEFINE w == [held[t] EXCEPT ![k] = y]
  <2>2. /\ w \in Seq(Held) /\ Len(w) = Len(held[t]) /\ w[k] = y
        /\ \A j \in 1 .. Len(held[t]) : j # k => w[j] = held[t][j]
    BY <1>12, <2>1, ExceptSeq, LenProperties
  <2> HIDE DEF w
  <2>3. held' = [held EXCEPT ![t] = w]
    BY <1>5 DEF w
  <2> QED
    BY <2>1, <2>2, <2>3
<1>15. \A u \in Threads : \A j \in 1 .. Len(held[u]) :
         /\ held'[u][j].handle = held[u][j].handle /\ held'[u][j].kind = held[u][j].kind
         /\ held'[u][j].key = held[u][j].key
  BY <1>12, <1>14
<1>16. \A i : HoldsIn(held', i) = HoldsIn(held, i)
  <2> SUFFICES ASSUME NEW i, NEW p \in Threads \X (1 .. MaxHeld)
               PROVE  (p[2] <= Len(held'[p[1]]) /\ held'[p[1]][p[2]].handle = i) <=>
                        (p[2] <= Len(held[p[1]]) /\ held[p[1]][p[2]].handle = i)
    BY DEF HoldsIn
  <2> DEFINE u == p[1]
             j == p[2]
  <2>3. u \in Threads /\ j \in 1 .. MaxHeld
    OBVIOUS
  <2> HIDE DEF u, j
  <2>1. Len(held'[u]) = Len(held[u]) /\ Len(held[u]) \in Nat
    BY <1>14, <2>3, Shape DEF IInv
  <2>2. j <= Len(held[u]) => j \in 1 .. Len(held[u])
    BY <2>3, <2>1, BoundsAssumption
  <2> QED
    BY <1>15, <2>3, <2>1, <2>2 DEF u, j
<1>17. \A i : /\ Removing(i)' <=> Removing(i)
              /\ Freeing(i)' <=> Freeing(i)
              /\ Owing(i)' <=> Owing(i)
  BY <1>5 DEF Removing, Freeing, Owing
<1>18. DataOK'
  BY <1>5, <1>13, <1>14 DEF IInv, DataOK
<1>19. SerialInv'
  BY <1>1, <1>5, <1>13, <1>14 DEF IInv, SerialInv, Opening, Placing
<1>20. ASSUME NEW i \in DOMAIN list, Listed(i)
       PROVE  /\ list[i].ptr \in DOMAIN heap
              /\ list[i].ptr = o <=> i = h
              /\ heap'[list[i].ptr].kind = heap[list[i].ptr].kind
              /\ heap'[list[i].ptr].key = heap[list[i].ptr].key
              /\ heap'[list[i].ptr].live = heap[list[i].ptr].live
              /\ heap'[list[i].ptr].refs = heap[list[i].ptr].refs
              /\ i # h => heap'[list[i].ptr].iterator = heap[list[i].ptr].iterator
  <2>1. list[i].ptr \in DOMAIN heap /\ (list[i].ptr = o <=> i = h)
    BY <1>3, <1>20 DEF IInv, ListInv, UniqueInv, Listed
  <2> HIDE DEF h, o
  <2> QED
    BY <1>11, <1>13, <2>1
<1> HIDE DEF h, o
<1>21. ListInv' /\ UniqueInv'
  <2>1. ListInv'
    BY <1>5, <1>13, <1>17, <1>20 DEF IInv, ListInv, Listed, Target
  <2>2. UniqueInv'
    BY <1>5, <1>20 DEF IInv, UniqueInv, Listed, Target, IsProcessOf
  <2> QED
    BY <2>1, <2>2
<1>22. CountInv'
  <2> SUFFICES ASSUME NEW i \in DOMAIN list, Listed(i), ~Removing(i)
               PROVE  /\ grown = 0 => Cardinality(HoldsIn(held, i)) + Owed(i) <= Weight(i)
                      /\ lost = 0 => Weight(i) <= Cardinality(HoldsIn(held, i)) + Owed(i)
    BY <1>5, <1>16, <1>17, <1>20 DEF CountInv, Listed, Owed, Weight, Target
  <2> QED
    BY DEF IInv, CountInv
<1>23. HeldInv'
  <2> SUFFICES ASSUME grown = 0, NEW u \in Threads, NEW j \in 1 .. Len(held[u])
               PROVE  LeadsIn(list, heap', held'[u][j])
    BY <1>5, <1>14, <1>15, <1>17 DEF IInv, HeldInv
  <2>1. LeadsIn(list, heap, held[u][j]) /\ held[u][j].kind # "empty"
    BY Shape DEF IInv, HeldInv, Held, Kinds
  <2>2. Listed(held[u][j].handle) /\ held[u][j].handle \in DOMAIN list
    BY <2>1 DEF LeadsIn, Listed
  <2>3. CASE u = t /\ j = k
    <3>1. held'[u][j] = y /\ held[u][j] = e
      BY <1>14, <2>3
    <3> HIDE DEF e
    <3>2. h = e.handle /\ o = list[h].ptr
      BY DEF h, o
    <3> QED
      BY <1>10, <1>11, <1>12, <1>13, <2>1, <3>1, <3>2 DEF LeadsIn
  <2>4. CASE u # t \/ j # k
    <3>1. held[u][j].handle # h
      BY <1>3, <2>4, OneHold DEF h
    <3>2. held'[u][j] = held[u][j]
      BY <1>14, <2>4
    <3> QED
      BY <1>20, <2>1, <2>2, <3>1, <3>2 DEF LeadsIn
  <2> QED
    BY <2>3, <2>4
<1>24. PipeInv'
  <2>1. \A m \in DOMAIN heap : heap'[m].kind = heap[m].kind /\ heap'[m].live = heap[m].live
    BY <1>11, <1>13
  <2> QED
    BY <1>5, <1>13, <2>1 DEF IInv, PipeInv
<1>25. ASSUME NEW u \in Threads
       PROVE  RegInv(u)'
  <2>1. RegInv(u)
    BY DEF IInv
  <2>2. \A i \in DOMAIN list : \A q : IsProcessOf(i, q)' <=> IsProcessOf(i, q)
    BY <1>5, <1>20 DEF IsProcessOf, Target, Listed
  <2>3. pc[u] \in Placing => heap'[reg[u].object] = heap[reg[u].object]
    BY <1>3, <1>13, <2>1 DEF RegInv, Listed, o
  <2>4. \A m \in DOMAIN heap : heap'[m].live = heap[m].live
    BY <1>11, <1>13
  <2>5. pc[u] = "remove" => reg[u].object \in DOMAIN heap
    BY <2>1 DEF RegInv, IInv, ListInv
  <2> QED
    BY <1>5, <1>13, <2>1, <2>2, <2>3, <2>4, <2>5 DEF RegInv, Listed, IsEmpty, NewObject
<1>26. FaultInv'
  BY <1>5 DEF FaultInv
<1> QED
  BY <1>18, <1>19, <1>21, <1>22, <1>23, <1>24, <1>25, <1>26 DEF IInv

-----------------------------------------------------------------------------
(* A connection ends.                                                       *)
LEMMA Ended ==
  ASSUME IInv, NEW t \in Threads, held' = Nothing(held, t),
         lost' = IF held[t] = <<>> THEN lost ELSE lost + 1, held[t] # <<>> => lost < MaxLost
  PROVE  /\ held' \in [Threads -> Seq(Held)] /\ lost' \in 0 .. MaxLost
         /\ held'[t] = <<>> /\ \A u \in Threads : u # t => held'[u] = held[u]
         /\ \A u \in Threads : Len(held'[u]) <= MaxHeld
         /\ \A u \in Threads : \A k \in 1 .. Len(held'[u]) :
              k \in 1 .. Len(held[u]) /\ held'[u][k] = held[u][k]
         /\ \A i : /\ Cardinality(HoldsIn(held', i)) \in Nat
                   /\ Cardinality(HoldsIn(held, i)) \in Nat
                   /\ Cardinality(HoldsIn(held', i)) <= Cardinality(HoldsIn(held, i))
                   /\ lost' = 0 => /\ lost = 0
                                   /\ Cardinality(HoldsIn(held', i)) = Cardinality(HoldsIn(held, i))
<1>1. held \in [Threads -> Seq(Held)] /\ lost \in 0 .. MaxLost
  BY DEF IInv, DataOK
<1>2. <<>> \in Seq(Held) /\ Len(<<>>) = 0
  BY EmptySeq
<1>3. /\ held' \in [Threads -> Seq(Held)]
      /\ held'[t] = <<>> /\ \A u \in Threads : u # t => held'[u] = held[u]
  BY <1>1, <1>2 DEF Nothing
<1>4. ASSUME NEW u \in Threads
      PROVE  /\ Len(held'[u]) <= MaxHeld
             /\ \A k \in 1 .. Len(held'[u]) :
                  k \in 1 .. Len(held[u]) /\ held'[u][k] = held[u][k]
  <2>1. CASE u = t
    BY <1>2, <1>3, <2>1, BoundsAssumption
  <2>2. CASE u # t
    BY <1>3, <2>2 DEF IInv, SerialInv
  <2> QED
    BY <2>1, <2>2
<1>5. lost' \in 0 .. MaxLost /\ (lost' = 0 => lost = 0 /\ held[t] = <<>>)
  BY <1>1, BoundsAssumption
<1>6. ASSUME NEW i
      PROVE  /\ Cardinality(HoldsIn(held', i)) \in Nat
             /\ Cardinality(HoldsIn(held, i)) \in Nat
             /\ Cardinality(HoldsIn(held', i)) <= Cardinality(HoldsIn(held, i))
             /\ held[t] = <<>> => Cardinality(HoldsIn(held', i)) = Cardinality(HoldsIn(held, i))
  BY <1>1, HoldsFinite, Dropped
<1> QED
  BY <1>3, <1>4, <1>5, <1>6

(* CloseAllPipes frees the pipes of the list and nothing else.              *)
LEMMA PipesClosed ==
  ASSUME IInv, \A i : ~Removing(i), CloseAllPipes
  PROVE  /\ fault' = "none"
         /\ list' \in Seq(Entry) /\ DOMAIN list' = DOMAIN list
         /\ heap' \in Seq(Object) /\ Len(heap') = Len(heap) /\ DOMAIN heap' = DOMAIN heap
         /\ \A i \in DOMAIN list : list'[i].type # "pipe"
         /\ \A i \in DOMAIN list : list'[i].type # "empty" =>
              /\ list'[i] = list[i] /\ list[i].type # "pipe"
              /\ list[i].ptr \in DOMAIN heap /\ heap'[list[i].ptr] = heap[list[i].ptr]
         /\ \A o \in DOMAIN heap : heap'[o].kind = heap[o].kind
         /\ \A o \in DOMAIN heap : heap'[o].live =>
              heap[o].live /\ \A i \in DOMAIN list : list[i].type = "pipe" => list[i].ptr # o
<1> DEFINE cut(i) == [list[i] EXCEPT !.type = "empty"]
           hit(o) == \E i \in Pipes : list[i].ptr = o
<1>1. fault' = "none"
  BY DEF CloseAllPipes, Pipes, IInv, ListInv, Listed
<1>2. /\ list' = [i \in DOMAIN list |-> IF i \in Pipes THEN cut(i) ELSE list[i]]
      /\ heap' = [o \in DOMAIN heap |-> IF hit(o) THEN Freed(heap[o]) ELSE heap[o]]
  BY DEF CloseAllPipes, Freed
<1>3. \A i \in DOMAIN list : cut(i) \in Entry /\ cut(i).type = "empty" /\ list[i] \in Entry
  BY Shape DEF IInv, Entry
<1>4. \A o \in DOMAIN heap : /\ Freed(heap[o]) \in Object /\ Freed(heap[o]).live = FALSE
                             /\ Freed(heap[o]).kind = heap[o].kind /\ heap[o] \in Object
  BY Shape, FreedProperties DEF IInv
<1> HIDE DEF cut
<1>5. /\ DOMAIN list' = DOMAIN list
      /\ \A i \in DOMAIN list : list'[i] = IF i \in Pipes THEN cut(i) ELSE list[i]
      /\ DOMAIN heap' = DOMAIN heap
      /\ \A o \in DOMAIN heap : heap'[o] = IF hit(o) THEN Freed(heap[o]) ELSE heap[o]
  BY <1>2
<1>6. list' \in Seq(Entry)
  <2>1. list' \in [1 .. Len(list) -> Entry] /\ Len(list) \in Nat
    BY <1>2, <1>3, Shape DEF IInv
  <2> QED
    BY <2>1, SeqDef
<1>7. heap' \in Seq(Object) /\ Len(heap') = Len(heap)
  <2>1. heap' \in [1 .. Len(heap) -> Object] /\ Len(heap) \in Nat
    BY <1>2, <1>4, Shape DEF IInv
  <2>2. heap' \in Seq(Object)
    BY <2>1, SeqDef
  <2> QED
    BY <2>1, <2>2, LenProperties
<1>8. ASSUME NEW i \in DOMAIN list, list'[i].type # "empty"
      PROVE  /\ list'[i] = list[i] /\ list[i].type # "pipe"
             /\ list[i].ptr \in DOMAIN heap /\ heap'[list[i].ptr] = heap[list[i].ptr]
  <2>1. i \notin Pipes
    BY <1>3, <1>5, <1>8
  <2>2. list'[i] = list[i] /\ list[i].type # "pipe" /\ Listed(i)
    BY <1>5, <1>8, <2>1 DEF Pipes, Listed
  <2>3. list[i].ptr \in DOMAIN heap
    BY <2>2 DEF IInv, ListInv
  <2>4. ~hit(list[i].ptr)
    BY <2>2 DEF IInv, UniqueInv, Pipes, Listed
  <2> QED
    BY <1>5, <2>2, <2>3, <2>4
<1>9. \A i \in DOMAIN list : list'[i].type # "pipe"
  BY <1>3, <1>5 DEF Pipes
<1>10. ASSUME NEW o \in DOMAIN heap
       PROVE  /\ heap'[o].kind = heap[o].kind
              /\ heap'[o].live =>
                   heap[o].live /\ \A i \in DOMAIN list : list[i].type = "pipe" => list[i].ptr # o
  <2>1. CASE hit(o)
    BY <1>4, <1>5, <2>1
  <2>2. CASE ~hit(o)
    <3>1. heap'[o] = heap[o]
      BY <1>5, <2>2
    <3>2. \A i \in DOMAIN list : list[i].type = "pipe" => list[i].ptr # o
      BY <2>2 DEF Pipes
    <3> QED
      BY <3>1, <3>2
  <2> QED
    BY <2>1, <2>2
<1> QED
  BY <1>1, <1>5, <1>6, <1>7, <1>8, <1>9, <1>10

LEMMA DisconnectStep ==
  ASSUME IInv, GoneInv, NEW t \in Threads, Disconnect(t)
  PROVE  IInv'
<1>1. fault = "none" /\ pc[t] = "idle"
  BY DEF Disconnect, Start, At
<1>2. /\ held' = Nothing(held, t) /\ up' = up \ {t} /\ UNCHANGED <<pc, reg, grown>>
      /\ lost' = IF held[t] = <<>> THEN lost ELSE lost + 1
      /\ held[t] # <<>> => lost < MaxLost
  BY DEF Disconnect, Nothing
<1>3. /\ held' \in [Threads -> Seq(Held)] /\ lost' \in 0 .. MaxLost
      /\ held'[t] = <<>> /\ \A u \in Threads : u # t => held'[u] = held[u]
      /\ \A u \in Threads : Len(held'[u]) <= MaxHeld
      /\ \A u \in Threads : \A k \in 1 .. Len(held'[u]) :
           k \in 1 .. Len(held[u]) /\ held'[u][k] = held[u][k]
      /\ \A i : /\ Cardinality(HoldsIn(held', i)) \in Nat
                /\ Cardinality(HoldsIn(held, i)) \in Nat
                /\ Cardinality(HoldsIn(held', i)) <= Cardinality(HoldsIn(held, i))
                /\ lost' = 0 => /\ lost = 0
                                /\ Cardinality(HoldsIn(held', i)) = Cardinality(HoldsIn(held, i))
  BY <1>2, Ended
<1>7. ASSUME NEW i \in DOMAIN list, Listed(i), ~Removing(i)
      PROVE  /\ grown = 0 => Cardinality(HoldsIn(held', i)) + Owed(i) <= Weight(i)
             /\ lost' = 0 => Weight(i) <= Cardinality(HoldsIn(held', i)) + Owed(i)
             /\ Weight(i) \in Nat /\ Owed(i) \in Nat
  <2>1. /\ grown = 0 => Cardinality(HoldsIn(held, i)) + Owed(i) <= Weight(i)
        /\ lost = 0 => Weight(i) <= Cardinality(HoldsIn(held, i)) + Owed(i)
        /\ Owed(i) \in Nat
    BY <1>7 DEF IInv, CountInv, Owed
  <2>2. Weight(i) \in Nat
    BY <1>7, Shape DEF IInv, ListInv, Weight, Target, Object
  <2>3. Cardinality(HoldsIn(held', i)) \in Nat /\ Cardinality(HoldsIn(held, i)) \in Nat
    BY <1>3
  <2>4. Cardinality(HoldsIn(held', i)) <= Cardinality(HoldsIn(held, i))
    BY <1>3
  <2>5. lost' = 0 => lost = 0 /\ Cardinality(HoldsIn(held', i)) = Cardinality(HoldsIn(held, i))
    BY <1>3
  <2> QED
    BY <2>1, <2>2, <2>3, <2>4, <2>5
<1>8. CASE up' # {} /\ UNCHANGED <<list, heap, fault>>
  <2>1. DataOK'
    BY <1>2, <1>3, <1>8 DEF IInv, DataOK
  <2>2. SerialInv'
    BY <1>1, <1>2, <1>3, <1>8 DEF IInv, SerialInv, Opening, Placing
  <2>3. \A i : /\ Removing(i)' <=> Removing(i)
               /\ Freeing(i)' <=> Freeing(i)
               /\ Owing(i)' <=> Owing(i)
    BY <1>2, <1>8 DEF Removing, Freeing, Owing
  <2>4. ListInv' /\ UniqueInv'
    BY <1>8, <2>3 DEF IInv, ListInv, UniqueInv, Listed, Target, IsProcessOf
  <2>5. CountInv'
    BY <1>2, <1>3, <1>7, <1>8, <2>3 DEF CountInv, Listed, Owed, Weight, Target
  <2>6. HeldInv'
    BY <1>2, <1>3, <1>8, <2>3 DEF IInv, HeldInv
  <2>7. PipeInv' /\ FaultInv'
    BY <1>1, <1>2, <1>8 DEF IInv, PipeInv, FaultInv
  <2>8. \A u \in Threads : RegInv(u)'
    BY <1>2, <1>8 DEF IInv, RegInv, Listed, IsEmpty, IsProcessOf, Target, NewObject
  <2> QED
    BY <2>1, <2>2, <2>4, <2>5, <2>6, <2>7, <2>8 DEF IInv
<1>9. CASE up' = {} /\ CloseAllPipes
  <2>10. \A u \in Threads : pc[u] = "idle"
    BY <1>1, <1>2, <1>9 DEF IInv, SerialInv
  <2>11. \A i : ~Removing(i) /\ ~Freeing(i) /\ ~Owing(i)
    BY <2>10, Calm DEF Taking
  <2>12. \A i : ~Removing(i)' /\ ~Freeing(i)' /\ ~Owing(i)'
    BY <1>2, <2>10, CalmAfter DEF Taking
  <2>13. \A u \in Threads : RegInv(u)'
    BY <1>2, <2>10, IdleReg
  <2>1. /\ fault' = "none"
        /\ list' \in Seq(Entry) /\ DOMAIN list' = DOMAIN list
        /\ heap' \in Seq(Object) /\ Len(heap') = Len(heap) /\ DOMAIN heap' = DOMAIN heap
        /\ \A i \in DOMAIN list : list'[i].type # "pipe"
        /\ \A i \in DOMAIN list : list'[i].type # "empty" =>
             /\ list'[i] = list[i] /\ list[i].type # "pipe"
             /\ list[i].ptr \in DOMAIN heap /\ heap'[list[i].ptr] = heap[list[i].ptr]
        /\ \A o \in DOMAIN heap : heap'[o].kind = heap[o].kind
        /\ \A o \in DOMAIN heap : heap'[o].live =>
             heap[o].live /\ \A i \in DOMAIN list : list[i].type = "pipe" => list[i].ptr # o
    BY <1>9, <2>11, PipesClosed
  <2>2. DataOK'
    BY <1>2, <1>3, <2>1 DEF IInv, DataOK
  <2>3. SerialInv'
    BY <1>2, <1>3, <2>1, <2>10 DEF IInv, SerialInv, Opening, Placing
  <2>4. ListInv' /\ UniqueInv'
    BY <2>1, <2>11, <2>12 DEF IInv, ListInv, UniqueInv, Listed, Target, IsProcessOf
  <2>5. CountInv'
    BY <1>2, <1>3, <1>7, <2>1, <2>11, <2>12 DEF CountInv, Listed, Owed, Weight, Target
  <2>6. HeldInv'
    <3>1. \A u \in Threads : held'[u] = <<>>
      BY <1>2, <1>3, <1>9 DEF GoneInv
    <3>2. \A u \in Threads : 1 .. Len(held'[u]) = {}
      BY <3>1, EmptySeq
    <3> QED
      BY <3>2 DEF HeldInv
  <2>7. PipeInv' /\ FaultInv'
    BY <1>2, <2>1, <2>10 DEF IInv, PipeInv, FaultInv, Placing
  <2> QED
    BY <2>13, <2>2, <2>3, <2>4, <2>5, <2>6, <2>7 DEF IInv
<1> QED
  BY <1>8, <1>9 DEF Disconnect

-----------------------------------------------------------------------------
LEMMA InitIInv ==
  ASSUME Init
  PROVE  IInv /\ GoneInv
<1>1. /\ list \in Seq(Entry) /\ DOMAIN list = 1 .. InitialMax - 1
      /\ \A i \in DOMAIN list : list[i].type = "empty"
  BY NewList, InitialMaxAssumption DEF Init
<1>2. <<>> \in Seq(Object) /\ <<>> \in Seq(Held) /\ Len(<<>>) = 0 /\ DOMAIN heap = {}
      /\ 1 .. Len(<<>>) = {}
  BY EmptySeq DEF Init
<1>3. /\ \A t \in Threads : pc[t] = "idle" /\ held[t] = <<>>
      /\ heap = <<>> /\ up = {} /\ grown = 0 /\ lost = 0 /\ fault = "none"
  BY DEF Init
<1>4. DataOK
  <2>1. NoRegister \in [handle : Nat, object : Nat, kind : Kinds, key : Keys]
    BY DEF NoRegister, Kinds, Keys
  <2>2. /\ pc \in [Threads -> Steps] /\ held \in [Threads -> Seq(Held)]
        /\ reg \in [Threads -> [handle : Nat, object : Nat, kind : Kinds, key : Keys]]
    BY <1>2, <2>1 DEF Init, Steps
  <2> QED
    BY <1>1, <1>2, <1>3, <2>2, BoundsAssumption DEF DataOK
<1>5. SerialInv
  BY <1>2, <1>3, BoundsAssumption DEF SerialInv, Opening, Placing
<1>6. ListInv /\ UniqueInv /\ CountInv
  BY <1>1 DEF ListInv, UniqueInv, CountInv, Listed
<1>7. HeldInv /\ PipeInv /\ FaultInv /\ GoneInv
  BY <1>1, <1>2, <1>3 DEF HeldInv, PipeInv, FaultInv, GoneInv
<1>8. \A t \in Threads : RegInv(t)
  BY <1>3 DEF RegInv, Placing
<1> QED
  BY <1>4, <1>5, <1>6, <1>7, <1>8 DEF IInv

LEMMA StepIInv ==
  ASSUME IInv, GoneInv, Next, ~overlapped'
  PROVE  IInv'
<1> PICK t \in Threads :
      \/ \E p \in Pids : OpenProcess(t, p) \/ ModuleProcess(t, p)
      \/ CreateSnapshot(t) \/ OpenPipe(t)
      \/ Search(t) \/ AddRef(t) \/ Alloc(t) \/ AllocFails(t)
      \/ Find(t) \/ StorePointer(t) \/ StoreType(t) \/ Grow(t) \/ FirstModule(t)
      \/ \E k \in 1 .. Len(held[t]) : CloseHandle(t, k) \/ Use(t, k) \/ UsePipe(t, k)
      \/ \E k \in 1 .. Len(held[t]), first \in BOOLEAN : Walk(t, k, first)
      \/ Unref(t) \/ Free(t) \/ Remove(t)
      \/ Connect(t) \/ Disconnect(t)
  BY DEF Next
<1>1. CASE \E p \in Pids : OpenProcess(t, p) \/ ModuleProcess(t, p)
  BY <1>1, OpenProcessStep, ModuleProcessStep
<1>2. CASE CreateSnapshot(t) \/ OpenPipe(t)
  BY <1>2, CreateOwnStep DEF CreateSnapshot, OpenPipe
<1>3. CASE Search(t) \/ AddRef(t) \/ Alloc(t) \/ AllocFails(t)
  BY <1>3, SearchStep, AddRefStep, AllocStep, AllocFailsStep
<1>4. CASE Find(t) \/ StorePointer(t) \/ StoreType(t) \/ Grow(t) \/ FirstModule(t)
  BY <1>4, FindStep, StorePointerStep, StoreTypeStep, GrowStep, FirstModuleStep
<1>5. CASE \E k \in 1 .. Len(held[t]) : CloseHandle(t, k) \/ Use(t, k) \/ UsePipe(t, k)
  BY <1>5, CloseHandleStep, UseStep
<1>6. CASE \E k \in 1 .. Len(held[t]), first \in BOOLEAN : Walk(t, k, first)
  BY <1>6, WalkStep
<1>7. CASE Unref(t) \/ Free(t) \/ Remove(t)
  BY <1>7, UnrefStep, FreeStep, RemoveStep
<1>8. CASE Connect(t) \/ Disconnect(t)
  BY <1>8, ConnectStep, DisconnectStep
<1> QED
  BY <1>1, <1>2, <1>3, <1>4, <1>5, <1>6, <1>7, <1>8

(* Who holds something changes for a connection that is there.              *)
LEMMA StepGone ==
  ASSUME IInv, GoneInv, Next
  PROVE  GoneInv'
<1> DEFINE Still(t) == t \in up /\ up' = up /\ \A u \in Threads : u # t => held'[u] = held[u]
<1>1. ASSUME NEW t \in Threads, Still(t)
      PROVE  GoneInv'
  BY <1>1 DEF GoneInv
<1>2. ASSUME UNCHANGED held, up \subseteq up'
      PROVE  GoneInv'
  BY <1>2 DEF GoneInv
<1>3. ASSUME NEW t \in Threads, pc[t] # "idle", UNCHANGED up,
             UNCHANGED held \/ \E h : Return(t, h)
      PROVE  GoneInv'
  BY <1>1, <1>3, Acting DEF IInv, DataOK, Return, GoneInv
<1>4. ASSUME NEW t \in Threads, Disconnect(t)
      PROVE  GoneInv'
  BY <1>4 DEF Disconnect, GoneInv, IInv, DataOK
<1>5. ASSUME NEW t \in Threads, NEW k \in 1 .. Len(held[t]), CloseHandle(t, k)
      PROVE  GoneInv'
  BY <1>1, <1>5 DEF CloseHandle, StartChange, Start, IInv, DataOK
<1>6. ASSUME NEW t \in Threads, NEW k \in 1 .. Len(held[t]), NEW first \in BOOLEAN,
             Walk(t, k, first)
      PROVE  GoneInv'
  BY <1>1, <1>6 DEF Walk, StartUse, Start, IInv, DataOK
<1>7. ASSUME NEW t \in Threads,
             \/ Search(t) \/ AddRef(t) \/ Alloc(t) \/ AllocFails(t)
             \/ Find(t) \/ StorePointer(t) \/ StoreType(t) \/ Grow(t) \/ FirstModule(t)
             \/ Unref(t) \/ Free(t) \/ Remove(t)
      PROVE  GoneInv'
  <2>1. pc[t] # "idle" /\ UNCHANGED up
    BY <1>7 DEF Search, AddRef, Alloc, AllocFails, Find, StorePointer, StoreType, Grow,
                FirstModule, Unref, Free, Remove, At
  <2>2. UNCHANGED held \/ \E h : Return(t, h)
    BY <1>7 DEF Search, AddRef, Alloc, AllocFails, Find, StorePointer, StoreType, Grow,
                FirstModule, Unref, Free, Remove, Created
  <2> QED
    BY <1>3, <2>1, <2>2
<1>8. ASSUME NEW t \in Threads,
             \/ \E p \in Pids : OpenProcess(t, p) \/ ModuleProcess(t, p)
             \/ CreateSnapshot(t) \/ OpenPipe(t) \/ Connect(t)
             \/ \E k \in 1 .. Len(held[t]) : Use(t, k) \/ UsePipe(t, k)
      PROVE  GoneInv'
  BY <1>2, <1>8 DEF OpenProcess, ModuleProcess, CreateSnapshot, OpenPipe, CreateOwn, Connect, Use, UsePipe
<1> QED
  BY <1>4, <1>5, <1>6, <1>7, <1>8 DEF Next

(* That commands have clashed is not forgotten.                             *)
LEMMA ClashStays ==
  ASSUME overlapped \in BOOLEAN, [Next]_vars
  PROVE  overlapped' \in BOOLEAN /\ (overlapped => overlapped')
<1>1. ASSUME NEW c, Clash(c)
      PROVE  overlapped' \in BOOLEAN /\ (overlapped => overlapped')
  BY <1>1 DEF Clash
<1>2. CASE UNCHANGED overlapped
  BY <1>2
<1>3. CASE \E c : Clash(c)
  BY <1>1, <1>3
<1>4. UNCHANGED overlapped \/ \E c : Clash(c)
  <2>1. CASE UNCHANGED vars
    BY <2>1 DEF vars
  <2>2. ASSUME NEW t \in Threads, NEW p \in Pids, OpenProcess(t, p) \/ ModuleProcess(t, p)
        PROVE  UNCHANGED overlapped \/ \E c : Clash(c)
    BY <2>2 DEF OpenProcess, ModuleProcess, StartChange
  <2>3. ASSUME NEW t \in Threads,
               \/ CreateSnapshot(t) \/ OpenPipe(t)
               \/ Search(t) \/ AddRef(t) \/ Alloc(t) \/ AllocFails(t)
               \/ Find(t) \/ StorePointer(t) \/ StoreType(t) \/ Grow(t) \/ FirstModule(t)
               \/ Unref(t) \/ Free(t) \/ Remove(t) \/ Connect(t) \/ Disconnect(t)
        PROVE  UNCHANGED overlapped \/ \E c : Clash(c)
    BY <2>3 DEF CreateSnapshot, OpenPipe, CreateOwn, StartChange, Search, AddRef, Alloc,
                AllocFails, Find, StorePointer, StoreType, Grow, FirstModule, Unref, Free,
                Remove, Connect, Disconnect
  <2>4. ASSUME NEW t \in Threads, NEW k \in 1 .. Len(held[t]),
               \/ CloseHandle(t, k) \/ Use(t, k) \/ UsePipe(t, k)
               \/ \E first \in BOOLEAN : Walk(t, k, first)
        PROVE  UNCHANGED overlapped \/ \E c : Clash(c)
    BY <2>4 DEF CloseHandle, Use, UsePipe, Walk, StartChange, StartUse
  <2> QED
    BY <2>1, <2>2, <2>3, <2>4 DEF Next
<1> QED
  BY <1>2, <1>3, <1>4

(* The inductive invariant holds until an open or a close starts while      *)
(* another command is under way.                                            *)
Inv == overlapped \in BOOLEAN /\ (overlapped \/ (IInv /\ GoneInv))

(* Every step of porthelp.c and api.c keeps it, whatever uses of handles    *)
(* and ends of connections come between the steps of an open or a close.    *)
THEOREM Invariance == Spec => []Inv
<1>1. Init => Inv
  BY InitIInv DEF Init, Inv
<1>2. Inv /\ [Next]_vars => Inv'
  <2> SUFFICES ASSUME Inv, [Next]_vars, ~overlapped'
               PROVE  IInv' /\ GoneInv'
    BY ClashStays DEF Inv
  <2>0. IInv /\ GoneInv
    BY ClashStays DEF Inv
  <2>1. CASE Next
    BY <2>0, <2>1, StepIInv, StepGone
  <2>2. CASE UNCHANGED vars
    <3>1. UNCHANGED <<list, heap, pc, reg, held, up, grown, lost, fault>>
      BY <2>2 DEF vars
    <3>2. DataOK' /\ SerialInv' /\ FaultInv' /\ GoneInv'
      BY <2>0, <3>1 DEF IInv, DataOK, SerialInv, FaultInv, GoneInv
    <3>3. ListInv' /\ UniqueInv'
      BY <2>0, <3>1
      DEF IInv, ListInv, UniqueInv, Listed, Target, IsProcessOf, Removing, Freeing
    <3>4. CountInv' /\ HeldInv' /\ PipeInv'
      BY <2>0, <3>1 DEF IInv, CountInv, HeldInv, PipeInv, LeadsIn, Listed, Removing, Owed,
                        Owing, Weight, Target
    <3>5. \A u \in Threads : RegInv(u)'
      BY <2>0, <3>1 DEF IInv, RegInv, Listed, IsEmpty, IsProcessOf, Target, NewObject
    <3> QED
      BY <3>2, <3>3, <3>4, <3>5 DEF IInv
  <2> QED
    BY <2>1, <2>2
<1> QED
  BY <1>1, <1>2, PTL DEF Spec

-----------------------------------------------------------------------------
(* The properties, each of them until commands clash.  That the clash at    *)
(* porthelp.c:40 ends them is what the run with overlapping opens shows.    *)

(* The variables keep their types: no list access leaves the list, no       *)
(* ReferenceCount goes below zero, and an iterator stays in its snapshot.   *)
THEOREM TypeCorrect ==
  Spec => [](~overlapped => TypeOK)
<1>1. Inv => (~overlapped => TypeOK)
  BY DEF Inv, IInv, TypeOK
<1> QED
  BY <1>1, Invariance, PTL

(* GetPointerFromHandle on a handle a connection holds gives the process    *)
(* it opened or the snapshot or pipe it made, not freed, whatever the other *)
(* connections open, share and close, until the list is enlarged.           *)
THEOREM HandlesKeepTheirObjects ==
  Spec => [](~overlapped => HandleKeepsItsObject)
<1>1. ASSUME IInv PROVE HandleKeepsItsObject
  <2> SUFFICES ASSUME grown = 0, NEW t \in Threads, NEW k \in 1 .. Len(held[t])
               PROVE  Denotes(held[t][k])
    BY DEF HandleKeepsItsObject, HandleDenotesItsObject
  <2> DEFINE e == held[t][k]
  <2>1. LeadsIn(list, heap, e) /\ ~Removing(e.handle) /\ e.kind # "empty"
    BY <1>1, Shape DEF IInv, HeldInv, Held, Kinds
  <2> HIDE DEF e
  <2>2. Target(e.handle).live
    BY <1>1, <2>1 DEF IInv, ListInv, LeadsIn, Listed
  <2> QED
    BY <2>1, <2>2 DEF Denotes, LeadsIn, TypeOf, Target, e
<1>2. Inv => (~overlapped => HandleKeepsItsObject)
  BY <1>1 DEF Inv
<1> QED
  BY <1>2, Invariance, PTL

(* The holds on the place of a process are the holds on the process.        *)
LEMMA HoldersOfAPlace ==
  ASSUME IInv, grown = 0, NEW i \in DOMAIN list, list[i].type = "process"
  PROVE  Holders(Target(i).key) = Cardinality(HoldsIn(held, i))
<1> DEFINE p == Target(i).key
<1>1. ASSUME NEW t \in Threads, NEW k \in 1 .. Len(held[t])
      PROVE  held[t][k].kind = "process" /\ held[t][k].key = p <=> held[t][k].handle = i
  <2> DEFINE e == held[t][k]
  <2>1. LeadsIn(list, heap, e)
    BY DEF IInv, HeldInv
  <2> HIDE DEF e
  <2>2. ASSUME e.kind = "process", e.key = p PROVE e.handle = i
    <3>1. e.handle \in DOMAIN list /\ IsProcessOf(e.handle, p)
      BY <2>1, <2>2 DEF LeadsIn, IsProcessOf, Target
    <3> QED
      BY <3>1 DEF IInv, UniqueInv, Listed, IsProcessOf
  <2>3. ASSUME e.handle = i PROVE e.kind = "process" /\ e.key = p
    BY <2>1, <2>3 DEF LeadsIn, Target
  <2> QED
    BY <2>2, <2>3 DEF e
<1>2. ASSUME NEW h \in Threads \X (1 .. MaxHeld)
      PROVE  (h[2] <= Len(held[h[1]]) /\ held[h[1]][h[2]].kind = "process"
                /\ held[h[1]][h[2]].key = p)
               <=> (h[2] <= Len(held[h[1]]) /\ held[h[1]][h[2]].handle = i)
  <2>1. h[1] \in Threads /\ h[2] \in Nat /\ 1 <= h[2] /\ Len(held[h[1]]) \in Nat
    BY Shape, BoundsAssumption DEF IInv
  <2>2. h[2] <= Len(held[h[1]]) => h[2] \in 1 .. Len(held[h[1]])
    BY <2>1
  <2> QED
    BY <1>1, <2>1, <2>2
<1> HIDE DEF p
<1>3. {h \in Threads \X (1 .. MaxHeld) :
         h[2] <= Len(held[h[1]]) /\ held[h[1]][h[2]].kind = "process"
           /\ held[h[1]][h[2]].key = p} = HoldsIn(held, i)
  BY <1>2 DEF HoldsIn
<1> QED
  BY <1>3 DEF Holders, p

(* Between commands ReferenceCount counts the connections that opened the   *)
(* process and have not closed it, and those that ended without closing:    *)
(* CloseHandle of one client frees no process another one has open.         *)
THEOREM CountsAreRight ==
  Spec => [](~overlapped => RefCountCoversHolders)
<1>1. ASSUME IInv PROVE RefCountCoversHolders
  <2> SUFFICES ASSUME Quiet, grown = 0, NEW i \in DOMAIN list, list[i].type = "process"
               PROVE  /\ Target(i).refs >= Holders(Target(i).key)
                      /\ lost = 0 => Target(i).refs = Holders(Target(i).key)
    BY DEF RefCountCoversHolders
  <2>1. \A j : ~Removing(j) /\ ~Owing(j)
    BY Calm DEF Quiet, Taking
  <2>2. Weight(i) = Target(i).refs /\ Weight(i) \in Nat
    BY <1>1, Shape DEF IInv, ListInv, Listed, Weight, Target, Object
  <2>3. /\ Cardinality(HoldsIn(held, i)) \in Nat
        /\ Holders(Target(i).key) = Cardinality(HoldsIn(held, i))
    BY <1>1, HoldersOfAPlace, HoldsFinite
  <2>4. /\ Cardinality(HoldsIn(held, i)) + Owed(i) <= Weight(i)
        /\ lost = 0 => Weight(i) <= Cardinality(HoldsIn(held, i)) + Owed(i)
        /\ Owed(i) = 0
    BY <1>1, <2>1 DEF IInv, CountInv, Listed, Owed
  <2> QED
    BY <2>2, <2>3, <2>4
<1>2. Inv => (~overlapped => RefCountCoversHolders)
  BY <1>1 DEF Inv
<1> QED
  BY <1>2, Invariance, PTL

(* OpenProcess shares: no two places of the list stand for one process,     *)
(* also after the list was enlarged.                                        *)
THEOREM ProcessesAreShared ==
  Spec => [](~overlapped => OneHandlePerProcess)
<1>1. Inv => (~overlapped => OneHandlePerProcess)
  BY DEF Inv, IInv, UniqueInv, OneHandlePerProcess, Listed, IsProcessOf
<1> QED
  BY <1>1, Invariance, PTL

(* The iterator of a snapshot is where its client stands, so Process32Next  *)
(* and its like send each entry once, whatever other connections walk.      *)
THEOREM WalksAreUndisturbed ==
  Spec => [](~overlapped => WalkIsUndisturbed)
<1>1. Inv => (~overlapped => WalkIsUndisturbed)
  BY DEF Inv, IInv, HeldInv, LeadsIn, WalkIsUndisturbed, Target
<1> QED
  BY <1>1, Invariance, PTL

(* No step follows a pointer to a freed object or NULL, and before the list *)
(* is enlarged none takes another object for a pipe.                        *)
THEOREM NothingFreedIsUsed ==
  Spec => [](~overlapped => NoFault)
<1>1. Inv => (~overlapped => NoFault)
  BY DEF Inv, IInv, FaultInv, NoFault
<1> QED
  BY <1>1, Invariance, PTL

(* When every handle was closed the list is empty; pipes a client left open *)
(* are freed when the last connection ends.                                 *)
THEOREM NothingStays ==
  Spec => [](~overlapped => OnlyLostHandlesStay)
<1>1. ASSUME IInv PROVE OnlyLostHandlesStay
  <2>1. ASSUME Quiet, lost = 0, \A t \in Threads : held[t] = <<>>,
               NEW i \in DOMAIN list, Listed(i)
        PROVE  FALSE
    <3>1. \A j : ~Removing(j) /\ ~Freeing(j) /\ ~Owing(j)
      BY <2>1, Calm DEF Quiet, Taking
    <3>2. HoldsIn(held, i) = {}
      BY <2>1, EmptySeq, BoundsAssumption DEF HoldsIn
    <3>3. Cardinality(HoldsIn(held, i)) = 0 /\ Owed(i) = 0
      BY <3>1, <3>2, HoldsFinite DEF Owed
    <3>4. Weight(i) <= Cardinality(HoldsIn(held, i)) + Owed(i)
      BY <1>1, <2>1, <3>1 DEF IInv, CountInv
    <3>5. Weight(i) >= 1 /\ Weight(i) \in Nat
      BY <1>1, <2>1, <3>1, Shape DEF IInv, ListInv, Weight, Target, Object
    <3> QED
      BY <3>3, <3>4, <3>5
  <2>2. ASSUME Quiet, up = {}, grown = 0, NEW o \in DOMAIN heap, heap[o].kind = "pipe"
        PROVE  ~heap[o].live
    BY <1>1, <2>2 DEF IInv, PipeInv, Quiet, Placing
  <2> QED
    BY <2>1, <2>2 DEF OnlyLostHandlesStay, Listed
<1>2. Inv => (~overlapped => OnlyLostHandlesStay)
  BY <1>1 DEF Inv
<1> QED
  BY <1>2, Invariance, PTL
=============================================================================
