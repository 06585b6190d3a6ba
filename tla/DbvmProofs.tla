------------------------------ MODULE DbvmProofs ------------------------------
(***************************************************************************)
(* Theorems about the lock of dbvm, its use by the memory manager, and     *)
(* what the memory manager allocates, enters into its list and frees.      *)
(***************************************************************************)
EXTENDS DbvmMemory, SequenceTheorems, WellFoundedInduction, TLAPS

(* Where a CPU has the bit: from the step that won it to the one that       *)
(* clears it.                                                               *)
Holds(c) == depth[c] > 0 \/ at[c] \in {"count", "own", "disown", "unlock"}

(* The bit is set exactly while some CPU holds it, and only one does.       *)
HolderInv ==
  /\ \A c, d \in CPUs : Holds(c) /\ Holds(d) => c = d
  /\ \A c \in CPUs : Holds(c) => locked

(* The owner's id is only there while the owner is in the section or on its *)
(* way out, and whoever is inside is the owner.                             *)
OwnerInv ==
  /\ \A c \in CPUs : apicid = c => depth[c] > 0 \/ at[c] = "disown"
  /\ \A c \in CPUs : depth[c] > 0 => apicid = c /\ at[c] = "out"

(* The count is the depth of whoever is inside.                             *)
CountInv ==
  /\ \A c \in CPUs : depth[c] > 0 => lockcount = depth[c]
  /\ \A c \in CPUs : at[c] = "own" => lockcount = 1

LockInv == CSTypeOK /\ HolderInv /\ OwnerInv /\ CountInv

(* A fresh section satisfies the invariant.                                 *)
LEMMA LockInit == CSInit => LockInv
<1> SUFFICES ASSUME CSInit PROVE LockInv
  OBVIOUS
<1>1. CSTypeOK
  BY DEF CSInit, CSTypeOK
<1>2. \A c \in CPUs : depth[c] = 0 /\ at[c] = "out" /\ apicid # c
  BY NoCPUAssumption DEF CSInit
<1>3. HolderInv /\ OwnerInv /\ CountInv
  BY <1>2 DEF HolderInv, OwnerInv, CountInv, Holds
<1>4. QED
  BY <1>1, <1>3 DEF LockInv

(* Every step of csEnter and csLeave keeps it, in whatever order callers    *)
(* enter and leave.                                                         *)
LEMMA LockStep == LockInv /\ [CSNext]_csVars => LockInv'
<1> SUFFICES ASSUME LockInv, [CSNext]_csVars PROVE LockInv'
  OBVIOUS
<1> USE NoCPUAssumption DEF LockInv, CSTypeOK, HolderInv, OwnerInv, CountInv, Holds, Mine
<1>1. ASSUME NEW c \in CPUs, Wait(c) PROVE LockInv'
  BY <1>1 DEF Wait
<1>2. ASSUME NEW c \in CPUs, spinlock(c) PROVE LockInv'
  BY <1>2 DEF spinlock
<1>3. ASSUME NEW c \in CPUs, SetCount(c) PROVE LockInv'
  BY <1>3 DEF SetCount
<1>4. ASSUME NEW c \in CPUs, Reenter(c) PROVE LockInv'
  BY <1>4 DEF Reenter
<1>5. ASSUME NEW c \in CPUs, SetOwner(c) PROVE LockInv'
  BY <1>5 DEF SetOwner
<1>6. ASSUME NEW c \in CPUs, Leave(c) PROVE LockInv'
  BY <1>6 DEF Leave
<1>7. ASSUME NEW c \in CPUs, ClearOwner(c) PROVE LockInv'
  BY <1>7 DEF ClearOwner
<1>8. ASSUME NEW c \in CPUs, Unlock(c) PROVE LockInv'
  BY <1>8 DEF Unlock
<1>9. CASE UNCHANGED csVars
  BY <1>9 DEF csVars
<1>10. QED
  BY <1>1, <1>2, <1>3, <1>4, <1>5, <1>6, <1>7, <1>8, <1>9
     DEF CSNext, Entering, Entered, Leaving, Left

(* Every step of the memory manager is a step of the lock or leaves it      *)
(* alone, so the lock it takes nested and from all CPUs is a critical       *)
(* section as csEnter and csLeave promise one.                              *)
LEMMA UsesLock == [Next]_vars => [CSNext]_csVars
<1> SUFFICES ASSUME [Next]_vars PROVE [CSNext]_csVars
  OBVIOUS
<1>1. ASSUME NEW c \in CPUs, Lock(c) PROVE CSNext
  BY <1>1 DEF Lock, CSNext
<1>2. ASSUME NEW c \in CPUs, Work(c) PROVE UNCHANGED csVars
  BY <1>2 DEF Work, DoMalloc2, DoFree2, Record, InsertFirst, FirstList, Insert, MoveList,
     SetList, Result, Return, Unlink, Clear, Resize, Copymem, AddTable, AddPage, MoveInfo, SetInfo
<1>3. ASSUME NEW c \in CPUs, Call(c) PROVE UNCHANGED csVars
  BY <1>3 DEF Call, CallMalloc, CallFree, CallRealloc, CallAddPage, Calls
<1>4. ASSUME NEW c \in CPUs, Overrun(c) PROVE UNCHANGED csVars
  BY <1>4 DEF Overrun
<1>5. CASE UNCHANGED vars
  BY <1>5 DEF vars, csVars
<1>6. QED
  BY <1>1, <1>2, <1>3, <1>4, <1>5 DEF Next

(* The memory manager uses its lock only through csEnter and csLeave.       *)
THEOREM Refinement == Spec => CSSpec
<1>1. Init => CSInit
  BY DEF Init
<1>2. QED
  BY <1>1, UsesLock, PTL DEF Spec, CSSpec

(* The invariant of the lock, for callers that enter and leave at will.     *)
THEOREM LockInvariance == CSSpec => []LockInv
  BY LockInit, LockStep, PTL DEF CSSpec

(* csEnter and csLeave keep two CPUs apart, for any number of CPUs, any     *)
(* depth of nesting and any calls, and so they do in the memory manager.    *)
THEOREM Excludes == Spec => []Exclusion
<1>1. LockInv => Exclusion
  BY DEF LockInv, HolderInv, Holds, Exclusion
<1>2. QED
  BY <1>1, Refinement, LockInvariance, PTL

-----------------------------------------------------------------------------
(* How deep a CPU is in the lock, now and after each of the steps it has    *)
(* still to do                                                              *)

(* What must be done under the lock.                                        *)
Guarded == {"malloc2", "free2", "insert", "firstlist", "movelist", "setlist", "unlink", "clear",
            "resize", "copymem", "addpage", "moveinfo", "setinfo"}

IsSeq(s) == \E S : s \in Seq(S)

Delta(s) == IF s.op = "enter" THEN 1 ELSE IF s.op = "leave" THEN -1 ELSE 0

(* d[i] is the depth before step i of s.                                    *)
Levels(s, d) ==
  /\ d \in [1 .. Len(s) + 1 -> Nat]
  /\ \A i \in 1 .. Len(s) : /\ d[i + 1] = d[i] + Delta(s[i])
                            /\ s[i].op \in Guarded \cup {"leave"} => d[i] > 0

(* The steps s lead from depth a back to depth b.                           *)
Leads(s, a, b) == \E d : Levels(s, d) /\ d[1] = a /\ d[Len(s) + 1] = b

(* A CPU on its way out of the lock has still to do the csLeave.            *)
Level(c) == depth[c] + (IF at[c] \in {"disown", "unlock"} THEN 1 ELSE 0)

AtInv(c) ==
  /\ at[c] \in {"spin", "count", "own"} => todo[c] # <<>> /\ Head(todo[c]).op = "enter"
  /\ at[c] \in {"disown", "unlock"} => todo[c] # <<>> /\ Head(todo[c]).op = "leave"
  /\ at[c] # "hung"

LevelInv ==
  /\ DOMAIN todo = CPUs
  /\ \A c \in CPUs : IsSeq(todo[c]) /\ AtInv(c) /\ Leads(todo[c], Level(c), 0)

(* Nothing to do leads from a level to itself only.                         *)
LEMMA LeadsEmpty ==
  ASSUME NEW a \in Nat
  PROVE  Leads(<<>>, a, a) /\ \A b : Leads(<<>>, a, b) => a = b
<1> DEFINE d == [i \in {1} |-> a]
<1>1. Len(<<>>) = 0 /\ 1 .. 0 + 1 = {1} /\ 1 .. 0 = {}
  OBVIOUS
<1>2. Levels(<<>>, d) /\ d[1] = a
  BY <1>1 DEF Levels
<1> HIDE DEF d
<1> QED
  BY <1>1, <1>2 DEF Leads

(* The first step done.                                                     *)
LEMMA LeadsTail ==
  ASSUME NEW s, IsSeq(s), s # <<>>, NEW a, NEW b, Leads(s, a, b)
  PROVE  /\ IsSeq(Tail(s)) /\ a \in Nat /\ a + Delta(Head(s)) \in Nat
         /\ Leads(Tail(s), a + Delta(Head(s)), b)
         /\ Head(s).op \in Guarded \cup {"leave"} => a > 0
<1>0. PICK S : s \in Seq(S)
  BY DEF IsSeq
<1>1. PICK d : Levels(s, d) /\ d[1] = a /\ d[Len(s) + 1] = b
  BY DEF Leads
<1> DEFINE p == Tail(s)
           e == [i \in 1 .. Len(s) |-> d[i + 1]]
<1>2. /\ p \in Seq(S) /\ Len(p) = Len(s) - 1 /\ \A i \in 1 .. Len(p) : p[i] = s[i + 1]
      /\ Len(s) \in Nat \ {0} /\ Head(s) = s[1]
  BY <1>0, HeadTailProperties, EmptySeq
<1> HIDE DEF p
<1>3. d \in [1 .. Len(s) + 1 -> Nat]
  BY <1>1 DEF Levels
<1>4. d[2] = d[1] + Delta(s[1]) /\ (s[1].op \in Guarded \cup {"leave"} => d[1] > 0)
  BY <1>1, <1>2 DEF Levels
<1>5. e \in [1 .. Len(p) + 1 -> Nat] /\ e[1] = d[2] /\ e[Len(p) + 1] = b
  BY <1>1, <1>2, <1>3
<1>6. \A i \in 1 .. Len(p) : e[i] = d[i + 1] /\ e[i + 1] = d[i + 1 + 1] /\ i + 1 \in 1 .. Len(s)
  BY <1>2
<1> HIDE DEF e
<1>7. Levels(p, e)
  BY <1>1, <1>2, <1>5, <1>6 DEF Levels
<1>8. a \in Nat /\ d[2] \in Nat
  BY <1>1, <1>2, <1>3
<1>9. d[2] = a + Delta(Head(s))
  BY <1>1, <1>2, <1>4
<1> QED
  BY <1>1, <1>2, <1>4, <1>5, <1>7, <1>8, <1>9 DEF Leads, IsSeq, p

(* One sequence of steps after the other.                                   *)
LEMMA LeadsConcat ==
  ASSUME NEW s, NEW t, IsSeq(s), IsSeq(t), NEW a, NEW b, NEW k,
         Leads(s, a, b), Leads(t, b, k)
  PROVE  IsSeq(s \o t) /\ Leads(s \o t, a, k)
<1>0. PICK S : s \in Seq(S) /\ t \in Seq(S)
  <2>1. PICK U, V : s \in Seq(U) /\ t \in Seq(V)
    BY DEF IsSeq
  <2>2. s \in Seq(U \cup V) /\ t \in Seq(U \cup V)
    BY <2>1, SeqMonotonic
  <2> QED
    BY <2>2
<1>1. PICK d : Levels(s, d) /\ d[1] = a /\ d[Len(s) + 1] = b
  BY DEF Leads
<1>2. PICK e : Levels(t, e) /\ e[1] = b /\ e[Len(t) + 1] = k
  BY DEF Leads
<1> DEFINE m == Len(s)
           n == Len(t)
           p == s \o t
           f == [i \in 1 .. m + n + 1 |-> IF i <= m THEN d[i] ELSE e[i - m]]
<1>3. /\ p \in Seq(S) /\ Len(p) = m + n /\ m \in Nat /\ n \in Nat
      /\ \A i \in 1 .. m + n : p[i] = IF i <= m THEN s[i] ELSE t[i - m]
  BY <1>0, ConcatProperties, LenProperties
<1>4. d \in [1 .. m + 1 -> Nat] /\ e \in [1 .. n + 1 -> Nat]
  BY <1>1, <1>2 DEF Levels
<1>5. /\ \A i \in 1 .. m : /\ d[i + 1] = d[i] + Delta(s[i])
                           /\ s[i].op \in Guarded \cup {"leave"} => d[i] > 0
      /\ \A i \in 1 .. n : /\ e[i + 1] = e[i] + Delta(t[i])
                           /\ t[i].op \in Guarded \cup {"leave"} => e[i] > 0
  BY <1>1, <1>2 DEF Levels
<1>6. d[1] = a /\ d[m + 1] = b /\ e[1] = b /\ e[n + 1] = k
  BY <1>1, <1>2
<1> HIDE DEF m, n, p
<1>7. f \in [1 .. m + n + 1 -> Nat]
  BY <1>3, <1>4
<1>8. \A i \in 1 .. m + n + 1 : f[i] = IF i <= m THEN d[i] ELSE e[i - m]
  OBVIOUS
<1> HIDE DEF f
<1>9. f[1] = a /\ f[m + n + 1] = k
  BY <1>3, <1>6, <1>8
<1>10. ASSUME NEW i \in 1 .. m + n
       PROVE  f[i + 1] = f[i] + Delta(p[i]) /\ (p[i].op \in Guarded \cup {"leave"} => f[i] > 0)
  <2>1. CASE i < m
    <3>1. f[i] = d[i] /\ f[i + 1] = d[i + 1] /\ p[i] = s[i] /\ i \in 1 .. m
      BY <1>3, <1>8, <2>1
    <3> QED
      BY <1>5, <3>1
  <2>2. CASE i = m
    <3>1. f[i] = d[i] /\ f[i + 1] = e[1] /\ p[i] = s[i] /\ i \in 1 .. m
      BY <1>3, <1>8, <2>2
    <3> QED
      BY <1>5, <1>6, <2>2, <3>1
  <2>3. CASE i > m
    <3> DEFINE j == i - m
    <3>1. j \in 1 .. n /\ (i + 1) - m = j + 1 /\ ~(i <= m) /\ ~(i + 1 <= m)
      BY <1>3, <2>3
    <3>2. f[i] = e[j] /\ p[i] = t[j]
      BY <1>3, <1>8, <3>1
    <3>3. f[i + 1] = e[j + 1]
      <4>1. i + 1 \in 1 .. m + n + 1
        BY <1>3
      <4>2. f[i + 1] = e[(i + 1) - m]
        BY <1>8, <3>1, <4>1
      <4> QED
        BY <3>1, <4>2
    <3> HIDE DEF j
    <3> QED
      BY <1>5, <3>1, <3>2, <3>3
  <2> QED
    BY <1>3, <2>1, <2>2, <2>3
<1>11. Levels(p, f)
  BY <1>3, <1>7, <1>10 DEF Levels
<1> QED
  BY <1>3, <1>9, <1>11 DEF Leads, IsSeq, p

(* A single step leads to the level it changes to.                          *)
LEMMA LeadsOne ==
  ASSUME NEW s, NEW a \in Nat, a + Delta(s) \in Nat,
         s.op \in Guarded \cup {"leave"} => a > 0
  PROVE  IsSeq(<<s>>) /\ Leads(<<s>>, a, a + Delta(s))
<1> DEFINE q == <<s>>
           d == [i \in 1 .. 2 |-> IF i = 1 THEN a ELSE a + Delta(s)]
<1>1. q \in Seq({s}) /\ Len(q) = 1 /\ q[1] = s
  OBVIOUS
<1>2. d \in [1 .. 2 -> Nat] /\ d[1] = a /\ d[2] = a + Delta(s)
  OBVIOUS
<1> HIDE DEF q, d
<1>3. \A i \in 1 .. 1 : i = 1
  OBVIOUS
<1>4. Levels(q, d)
  BY <1>1, <1>2, <1>3 DEF Levels
<1>5. IsSeq(q)
  BY <1>1 DEF IsSeq
<1>6. Leads(q, a, a + Delta(s))
  BY <1>1, <1>2, <1>4 DEF Leads
<1> QED
  BY <1>5, <1>6 DEF q

(* A step under the lock, taken at any depth.                               *)
LEMMA LeadsSection ==
  ASSUME NEW s, NEW a \in Nat, s.op \notin {"enter", "leave"}
  PROVE  IsSeq(Section(s)) /\ Leads(Section(s), a, a)
<1> DEFINE S == {Enter, s, Exit}
           x == <<Enter>>
           y == <<s>>
           z == <<Exit>>
<1>1. Enter.op = "enter" /\ Exit.op = "leave"
  BY DEF Enter, Exit, Step
<1>2. Delta(Enter) = 1 /\ Delta(s) = 0 /\ Delta(Exit) = -1
  BY <1>1 DEF Delta
<1>3. IsSeq(x) /\ Leads(x, a, a + 1)
  BY <1>1, <1>2, LeadsOne DEF Guarded
<1>4. IsSeq(y) /\ Leads(y, a + 1, a + 1)
  BY <1>2, LeadsOne
<1>5. IsSeq(z) /\ Leads(z, a + 1, a)
  BY <1>1, <1>2, LeadsOne
<1>6. /\ x \in Seq(S) /\ y \in Seq(S) /\ z \in Seq(S)
      /\ Len(x) = 1 /\ x[1] = Enter /\ Len(y) = 1 /\ y[1] = s /\ Len(z) = 1 /\ z[1] = Exit
  OBVIOUS
<1> HIDE DEF x, y, z, S
<1>7. IsSeq(x \o y) /\ Leads(x \o y, a, a + 1)
  BY <1>3, <1>4, LeadsConcat
<1>8. IsSeq((x \o y) \o z) /\ Leads((x \o y) \o z, a, a)
  BY <1>5, <1>7, LeadsConcat
<1>9. (x \o y) \o z = Section(s)
  <2>1. /\ x \o y \in Seq(S) /\ Len(x \o y) = 2
        /\ (x \o y)[1] = Enter /\ (x \o y)[2] = s
    BY <1>6, ConcatProperties
  <2> DEFINE p == (x \o y) \o z
             q == Section(s)
  <2>2. p \in Seq(S) /\ Len(p) = 3 /\ p[1] = Enter /\ p[2] = s /\ p[3] = Exit
    BY <1>6, <2>1, ConcatProperties
  <2>3. q \in Seq(S) /\ Len(q) = 3 /\ q[1] = Enter /\ q[2] = s /\ q[3] = Exit
    BY DEF Section, S
  <2> HIDE DEF p, q
  <2>4. \A i \in 1 .. 3 : p[i] = q[i]
    BY <2>2, <2>3
  <2>5. p = q
    BY <2>2, <2>3, <2>4, SeqEqual
  <2> QED
    BY <2>5 DEF p, q
<1> QED
  BY <1>8, <1>9

(* What a piece of work adds to the steps, at a depth it can be done at.    *)
Adds(op, more) ==
  IsSeq(more) /\ \A a \in Nat : (op \in Guarded => a > 0) => Leads(more, a, a)

(* A step that adds nothing keeps the levels.                               *)
LEMMA AddsNothing ==
  ASSUME NEW op
  PROVE  Adds(op, <<>>)
<1>1. IsSeq(<<>>)
  <2>1. <<>> \in Seq({})
    OBVIOUS
  <2> QED
    BY <2>1 DEF IsSeq
<1> QED
  BY <1>1, LeadsEmpty DEF Adds

(* So does one that adds a step between csEnter and csLeave.                *)
LEMMA AddsSection ==
  ASSUME NEW op, NEW s, s.op \notin {"enter", "leave"}
  PROVE  Adds(op, Section(s))
<1>1. IsSeq(Section(s))
  BY LeadsSection
<1> QED
  BY <1>1, LeadsSection DEF Adds

(* So does one that adds a step that is no more in need of the lock than    *)
(* itself.                                                                  *)
LEMMA AddsOne ==
  ASSUME NEW op, NEW s, s.op \notin {"enter", "leave"}, s.op \in Guarded => op \in Guarded
  PROVE  Adds(op, <<s>>)
<1>1. Delta(s) = 0
  BY DEF Delta
<1>2. ASSUME NEW a \in Nat, op \in Guarded => a > 0 PROVE IsSeq(<<s>>) /\ Leads(<<s>>, a, a)
  BY <1>1, <1>2, LeadsOne
<1>3. IsSeq(<<s>>)
  <2>1. 1 \in Nat /\ 1 > 0
    OBVIOUS
  <2> QED
    BY <1>2, <2>1
<1> QED
  BY <1>2, <1>3 DEF Adds

(* Two additions one after the other are an addition.                       *)
LEMMA AddsBoth ==
  ASSUME NEW op, NEW s, NEW t, Adds(op, s), Adds(op, t)
  PROVE  Adds(op, s \o t)
<1>1. ASSUME NEW a \in Nat, op \in Guarded => a > 0 PROVE IsSeq(s \o t) /\ Leads(s \o t, a, a)
  BY <1>1, LeadsConcat DEF Adds
<1>2. IsSeq(s \o t)
  <2>1. 1 \in Nat /\ 1 > 0
    OBVIOUS
  <2> QED
    BY <1>1, <2>1
<1> QED
  BY <1>1, <1>2 DEF Adds

(* A piece of work keeps the depths right.                                  *)
LEMMA WorkLevels ==
  ASSUME LockInv, LevelInv, NEW c \in CPUs, NEW op, NEW more, Doing(c, op), Done(c, more),
         Adds(op, more), op \notin {"enter", "leave"}, UNCHANGED csVars
  PROVE  LevelInv' /\ (op \in Guarded => depth[c] > 0)
<1> DEFINE s == todo[c]
           a == Level(c)
<1>1. s # <<>> /\ Head(s).op = op /\ at[c] = "out" /\ IsSeq(s) /\ Leads(s, a, 0)
  BY DEF Doing, LevelInv
<1>2. a = depth[c]
  BY <1>1 DEF Level, LockInv, CSTypeOK
<1>3. Delta(Head(s)) = 0
  BY <1>1 DEF Delta
<1> HIDE DEF s, a
<1>4. IsSeq(Tail(s)) /\ a \in Nat /\ Leads(Tail(s), a, 0) /\ (op \in Guarded => a > 0)
  <2>1. /\ IsSeq(Tail(s)) /\ a \in Nat /\ Leads(Tail(s), a + Delta(Head(s)), 0)
        /\ Head(s).op \in Guarded \cup {"leave"} => a > 0
    BY <1>1, LeadsTail
  <2>2. a + Delta(Head(s)) = a
    BY <1>3, <2>1
  <2> QED
    BY <1>1, <2>1, <2>2
<1>5. IsSeq(more \o Tail(s)) /\ Leads(more \o Tail(s), a, 0)
  <2>1. IsSeq(more) /\ Leads(more, a, a)
    BY <1>4 DEF Adds
  <2> QED
    BY <1>4, <2>1, LeadsConcat
<1>6. DOMAIN todo' = CPUs /\ todo'[c] = more \o Tail(s) /\ \A d \in CPUs \ {c} : todo'[d] = todo[d]
  BY DEF Done, LevelInv, s
<1>7. at' = at /\ depth' = depth
  BY DEF csVars
<1>8. AtInv(c)' /\ Leads(todo'[c], Level(c)', 0) /\ IsSeq(todo'[c])
  BY <1>1, <1>5, <1>6, <1>7 DEF AtInv, Level, a
<1>9. ASSUME NEW d \in CPUs \ {c}
      PROVE  AtInv(d)' /\ Leads(todo'[d], Level(d)', 0) /\ IsSeq(todo'[d])
  BY <1>6, <1>7 DEF AtInv, Level, LevelInv
<1>10. op \in Guarded => depth[c] > 0
  BY <1>2, <1>4
<1> QED
  BY <1>6, <1>8, <1>9, <1>10 DEF LevelInv

(* Adding nothing in front of a sequence.                                   *)
LEMMA EmptyConcat ==
  ASSUME NEW s, IsSeq(s)
  PROVE  <<>> \o s = s
BY ConcatEmptySeq DEF IsSeq

(* A step of csEnter or csLeave does, too; this is where a CPU that did not *)
(* have the lock would be found to leave it.                                *)
LEMMA LockLevels ==
  ASSUME LockInv, LevelInv, NEW c \in CPUs, Lock(c)
  PROVE  LevelInv'
<1> DEFINE s == todo[c]
           a == Level(c)
<1>1. /\ s # <<>> /\ IsSeq(s) /\ Leads(s, a, 0) /\ IsSeq(Tail(s)) /\ a \in Nat
      /\ a + Delta(Head(s)) \in Nat /\ Leads(Tail(s), a + Delta(Head(s)), 0)
      /\ Head(s).op = "leave" => a > 0
  BY LeadsTail DEF Lock, LevelInv
<1>2. /\ AtInv(c) /\ at[c] \in {"out", "spin", "count", "own", "disown", "unlock", "hung"}
      /\ depth[c] \in Nat /\ DOMAIN todo = CPUs /\ DOMAIN at = CPUs /\ DOMAIN depth = CPUs
  BY DEF LevelInv, LockInv, CSTypeOK
<1>3. ASSUME NEW d \in CPUs \ {c}
      PROVE  at'[d] = at[d] /\ depth'[d] = depth[d] /\ todo'[d] = todo[d]
  BY <1>2 DEF Lock, Entering, Entered, Leaving, Left, Wait, spinlock, SetCount, Reenter, SetOwner,
     Leave, ClearOwner, Unlock, Done
<1>4. DOMAIN todo' = CPUs
  BY <1>2 DEF Lock, Done
<1>5. SUFFICES AtInv(c)' /\ IsSeq(todo'[c]) /\ Leads(todo'[c], Level(c)', 0)
  BY <1>3, <1>4 DEF LevelInv, AtInv, Level
<1>6. ASSUME UNCHANGED todo, Level(c)' = Level(c)
      PROVE  IsSeq(todo'[c]) /\ Leads(todo'[c], Level(c)', 0)
  BY <1>1, <1>6
<1>7. ASSUME Done(c, <<>>), Level(c)' = a + Delta(Head(s))
      PROVE  IsSeq(todo'[c]) /\ Leads(todo'[c], Level(c)', 0)
  <2>1. todo'[c] = <<>> \o Tail(s)
    BY <1>2, <1>7 DEF Done
  <2>2. todo'[c] = Tail(s)
    BY <1>1, <2>1, EmptyConcat
  <2> QED
    BY <1>1, <1>7, <2>2
<1>8. CASE Head(s).op = "enter" /\ Entering(c) /\ UNCHANGED todo
  <2>1. at'[c] \in {"spin", "count", "own"} /\ depth' = depth /\ at[c] \in {"out", "spin", "count"}
    BY <1>2, <1>8 DEF Entering, Wait, spinlock, SetCount
  <2>2. Level(c)' = Level(c)
    BY <2>1 DEF Level
  <2>3. AtInv(c)'
    BY <1>1, <1>8, <2>1 DEF AtInv
  <2> QED
    BY <1>6, <1>8, <2>2, <2>3
<1>9. CASE Head(s).op = "enter" /\ Entered(c) /\ Done(c, <<>>)
  <2>1. at'[c] = "out" /\ depth'[c] = depth[c] + 1 /\ at[c] \in {"out", "own"}
    BY <1>2, <1>9 DEF Entered, Reenter, SetOwner
  <2>2. Level(c)' = a + Delta(Head(s))
    BY <1>2, <1>9, <2>1 DEF Level, Delta
  <2>3. AtInv(c)'
    BY <2>1 DEF AtInv
  <2> QED
    BY <1>7, <1>9, <2>2, <2>3
<1>10. ASSUME Head(s).op = "leave", at[c] = "out"
       PROVE  Mine(c) /\ depth[c] > 0 /\ lockcount = depth[c]
  <2>1. depth[c] > 0
    BY <1>1, <1>2, <1>10 DEF Level
  <2> QED
    BY <2>1 DEF Mine, LockInv, HolderInv, OwnerInv, CountInv, Holds
<1>11. CASE Head(s).op = "leave" /\ Leaving(c) /\ UNCHANGED todo
  <2>1. CASE Leave(c) /\ at'[c] # "out"
    <3>1. at[c] = "out" /\ Mine(c) /\ lockcount = depth[c] /\ depth[c] > 0
      BY <1>10, <1>11, <2>1 DEF Leave
    <3>2. at'[c] = "disown" /\ lockcount' = 0 /\ lockcount' = depth[c] - 1
          /\ depth'[c] = depth[c] - 1
      BY <1>2, <2>1, <3>1 DEF Leave
    <3>3. Level(c)' = Level(c)
      BY <1>2, <3>1, <3>2 DEF Level
    <3>4. AtInv(c)'
      BY <1>1, <1>11, <3>2 DEF AtInv
    <3> QED
      BY <1>6, <1>11, <3>3, <3>4
  <2>2. CASE ClearOwner(c)
    <3>1. at[c] = "disown" /\ at'[c] = "unlock" /\ depth' = depth
      BY <1>2, <2>2 DEF ClearOwner
    <3>2. Level(c)' = Level(c)
      BY <3>1 DEF Level
    <3>3. AtInv(c)'
      BY <1>1, <1>11, <3>1 DEF AtInv
    <3> QED
      BY <1>6, <1>11, <3>2, <3>3
  <2> QED
    BY <1>11, <2>1, <2>2 DEF Leaving
<1>12. CASE Head(s).op = "leave" /\ Left(c) /\ Done(c, <<>>)
  <2>1. CASE Leave(c) /\ at'[c] = "out"
    <3>1. at[c] = "out" /\ Mine(c) /\ depth[c] > 0
      BY <1>10, <1>12, <2>1 DEF Leave
    <3>2. depth'[c] = depth[c] - 1
      BY <1>2, <2>1, <3>1 DEF Leave
    <3>3. Level(c)' = a + Delta(Head(s))
      BY <1>2, <1>12, <2>1, <3>1, <3>2 DEF Level, Delta
    <3>4. AtInv(c)'
      BY <2>1 DEF AtInv
    <3> QED
      BY <1>7, <1>12, <3>3, <3>4
  <2>2. CASE Unlock(c)
    <3>1. at[c] = "unlock" /\ at'[c] = "out" /\ depth' = depth
      BY <1>2, <2>2 DEF Unlock
    <3>2. Level(c)' = a + Delta(Head(s))
      BY <1>2, <1>12, <3>1 DEF Level, Delta
    <3>3. AtInv(c)'
      BY <3>1 DEF AtInv
    <3> QED
      BY <1>7, <1>12, <3>2, <3>3
  <2> QED
    BY <1>12, <2>1, <2>2 DEF Left
<1> QED
  BY <1>8, <1>9, <1>11, <1>12 DEF Lock

(* The pieces of work, with what each of them adds.                         *)
LEMMA WorkStep ==
  ASSUME LockInv, LevelInv, NEW c \in CPUs, Work(c)
  PROVE  LevelInv' /\ (depth[c] > 0 \/ UNCHANGED <<mmVars, heap, severed, damaged, forgotten>>)
<1> USE DEF Guarded
<1>1. /\ \A op : Adds(op, <<>>)
      /\ \A op, b, n : Adds(op, malloc2(n)) /\ Adds(op, free2(b, n)) /\ Adds(op, free(b))
  BY AddsNothing, AddsSection DEF malloc2, free2, free, Step
<1>2. ASSUME NEW op, NEW t, NEW b, NEW n, t \notin {"enter", "leave"},
             t \in Guarded => op \in Guarded
      PROVE  Adds(op, <<Step(t, b, n)>>)
  BY <1>2, AddsOne DEF Step
<1>3. ASSUME NEW op,
             op \in {"malloc2", "free2", "firstlist", "setlist", "clear", "copymem", "addpage"},
             Doing(c, op), Done(c, <<>>), UNCHANGED csVars
      PROVE  LevelInv' /\ depth[c] > 0
  BY <1>1, <1>3, WorkLevels
<1>4. CASE DoMalloc2(c) \/ DoFree2(c) \/ FirstList(c) \/ SetList(c) \/ Clear(c) \/ Copymem(c)
           \/ AddTable(c)
  BY <1>3, <1>4 DEF DoMalloc2, DoFree2, FirstList, SetList, Clear, Copymem, AddTable
<1>5. CASE Record(c)
  <2> DEFINE n == Head(todo[c]).size
             more == IF ret[c] = NULL THEN <<>>
                     ELSE Section(Step("insert", ret[c], n)) \o <<Step("result", ret[c], n)>>
  <2>1. Adds("record", Section(Step("insert", ret[c], n)) \o <<Step("result", ret[c], n)>>)
    <3>1. Adds("record", Section(Step("insert", ret[c], n)))
      BY AddsSection DEF Step
    <3>2. Adds("record", <<Step("result", ret[c], n)>>)
      BY <1>2
    <3> QED
      BY <3>1, <3>2, AddsBoth
  <2>2. Adds("record", more)
    BY <1>1, <2>1
  <2>3. Doing(c, "record") /\ Done(c, more)
        /\ UNCHANGED <<csVars, mmVars, heap, severed, damaged, forgotten>>
    BY <1>5 DEF Record, historyVars
  <2> HIDE DEF more
  <2> QED
    BY <2>2, <2>3, WorkLevels
<1>6. CASE Result(c)
  <2>1. Doing(c, "result") /\ Done(c, <<>>)
        /\ UNCHANGED <<csVars, mmVars, heap, severed, damaged, forgotten>>
    BY <1>6 DEF Result, historyVars
  <2> QED
    BY <1>1, <2>1, WorkLevels
<1>7. CASE Return(c)
  <2>1. Doing(c, "return") /\ Done(c, <<>>)
        /\ UNCHANGED <<csVars, mmVars, heap, severed, damaged, forgotten>>
    BY <1>7 DEF Return
  <2> QED
    BY <1>1, <2>1, WorkLevels
<1>8. CASE InsertFirst(c)
  <2> DEFINE s == Head(todo[c])
             more == malloc2(ItemBlocks(InitItems)) \o <<Step("firstlist", s.base, s.size)>>
  <2>1. Adds("insert", more)
    BY <1>1, <1>2, AddsBoth
  <2>2. Doing(c, "insert") /\ Done(c, more) /\ UNCHANGED csVars
    BY <1>8 DEF InsertFirst
  <2> HIDE DEF more
  <2> QED
    BY <2>1, <2>2, WorkLevels
<1>9. CASE Insert(c)
  <2> DEFINE long == malloc2(ItemBlocks(2 * list.max)) \o <<Step("movelist", NULL, 0)>>
  <2>1. Adds("insert", long) /\ Adds("insert", <<>>)
    BY <1>1, <1>2, AddsBoth
  <2>2. Doing(c, "insert") /\ UNCHANGED csVars /\ (Done(c, long) \/ Done(c, <<>>))
    BY <1>9 DEF Insert
  <2> HIDE DEF long
  <2> QED
    BY <2>1, <2>2, WorkLevels
<1>10. CASE MoveList(c)
  <2> DEFINE set == <<Step("setlist", ret[c], 0)>>
             freed == free2(list.base, ItemBlocks(list.max))
  <2>1. Adds("movelist", freed \o set) /\ Adds("movelist", <<>> \o set)
    BY <1>1, <1>2, AddsBoth
  <2>2. Doing(c, "movelist") /\ UNCHANGED csVars /\ (Done(c, freed \o set) \/ Done(c, <<>> \o set))
    BY <1>10 DEF MoveList
  <2> HIDE DEF freed, set
  <2> QED
    BY <2>1, <2>2, WorkLevels
<1>11. CASE Unlink(c)
  <2> DEFINE b == Head(todo[c]).base
             more == free2(b, list.items[Closest(b)].size) \o <<Step("clear", b, 0)>>
  <2>1. Adds("unlink", more) /\ Adds("unlink", <<>>)
    BY <1>1, <1>2, AddsBoth
  <2>2. Doing(c, "unlink") /\ UNCHANGED csVars /\ (Done(c, more) \/ Done(c, <<>>))
    BY <1>11 DEF Unlink
  <2> HIDE DEF more
  <2> QED
    BY <2>1, <2>2, WorkLevels
<1>12. CASE Resize(c)
  <2> DEFINE s == Head(todo[c])
             more == malloc(s.size) \o <<Step("copymem", NULL, 0)>> \o free(s.base)
             wrong == <<Step("error", NULL, 0)>>
  <2>1. Adds("resize", malloc(s.size))
    BY <1>1, <1>2, AddsBoth DEF malloc
  <2>2. Adds("resize", more)
    <3>1. Adds("resize", <<Step("copymem", NULL, 0)>>) /\ Adds("resize", free(s.base))
      BY <1>1, <1>2
    <3> QED
      BY <2>1, <3>1, AddsBoth
  <2>3. Adds("resize", wrong)
    BY <1>2
  <2>4. Doing(c, "resize") /\ UNCHANGED csVars /\ (Done(c, more) \/ Done(c, wrong))
    BY <1>12 DEF Resize
  <2> HIDE DEF more, wrong
  <2> QED
    BY <2>2, <2>3, <2>4, WorkLevels
<1>13. CASE AddPage(c)
  <2> DEFINE long == malloc2(InfoBlocks(2 * infoMax)) \o <<Step("moveinfo", NULL, 0)>>
  <2>1. Adds("addpage", long) /\ Adds("addpage", <<>>)
    BY <1>1, <1>2, AddsBoth
  <2>2. Doing(c, "addpage") /\ UNCHANGED csVars /\ (Done(c, long) \/ Done(c, <<>>))
    BY <1>13 DEF AddPage
  <2> HIDE DEF long
  <2> QED
    BY <2>1, <2>2, WorkLevels
<1>14. CASE MoveInfo(c)
  <2> DEFINE more == free2(infoBase, InfoBlocks(infoMax)) \o <<Step("setinfo", ret[c], 0)>>
  <2>1. Adds("moveinfo", more)
    BY <1>1, <1>2, AddsBoth
  <2>2. Doing(c, "moveinfo") /\ UNCHANGED csVars /\ Done(c, more)
    BY <1>14 DEF MoveInfo
  <2> HIDE DEF more
  <2> QED
    BY <2>1, <2>2, WorkLevels
<1>15. CASE SetInfo(c)
  <2>1. Doing(c, "setinfo") /\ UNCHANGED csVars /\ Done(c, free2(infoBase, InfoBlocks(infoMax)))
    BY <1>15 DEF SetInfo
  <2> QED
    BY <1>1, <2>1, WorkLevels
<1> QED
  BY <1>4, <1>5, <1>6, <1>7, <1>8, <1>9, <1>10, <1>11, <1>12, <1>13, <1>14, <1>15 DEF Work

(* A call starts with a CPU that holds nothing and gives back what it takes.*)
LEMMA CallLevels ==
  ASSUME LockInv, LevelInv, NEW c \in CPUs, NEW steps, Calls(c, steps), Adds("call", steps)
  PROVE  LevelInv'
<1>1. todo[c] = <<>> /\ todo' = [todo EXCEPT ![c] = steps] /\ at' = at /\ depth' = depth
  BY DEF Calls, csVars
<1>2. /\ DOMAIN todo = CPUs /\ AtInv(c) /\ Leads(<<>>, Level(c), 0) /\ depth[c] \in Nat
      /\ at[c] \in {"out", "spin", "count", "own", "disown", "unlock", "hung"}
  BY <1>1 DEF LevelInv, LockInv, CSTypeOK
<1>3. at[c] = "out"
  BY <1>1, <1>2 DEF AtInv
<1>4. Level(c) \in Nat
  BY <1>2, <1>3 DEF Level
<1>5. Level(c) = 0
  BY <1>2, <1>4, LeadsEmpty
<1>6. IsSeq(steps) /\ Leads(steps, 0, 0)
  BY DEF Adds, Guarded
<1>7. AtInv(c)' /\ IsSeq(todo'[c]) /\ Leads(todo'[c], Level(c)', 0)
  BY <1>1, <1>2, <1>3, <1>5, <1>6 DEF AtInv, Level
<1>8. ASSUME NEW d \in CPUs \ {c}
      PROVE  AtInv(d)' /\ IsSeq(todo'[d]) /\ Leads(todo'[d], Level(d)', 0)
  BY <1>1, <1>2 DEF AtInv, Level, LevelInv
<1> QED
  BY <1>1, <1>2, <1>7, <1>8 DEF LevelInv

(* A call of malloc, free, realloc or the addition of a page keeps the      *)
(* levels; it changes nothing yet.                                          *)
LEMMA CallStep ==
  ASSUME LockInv, LevelInv, NEW c \in CPUs, Call(c)
  PROVE  LevelInv' /\ UNCHANGED <<mmVars, heap, severed, damaged, forgotten>>
<1>1. UNCHANGED <<mmVars, heap, severed, damaged, forgotten>>
  BY DEF Call, CallMalloc, CallFree, CallRealloc, CallAddPage, Calls
<1>2. ASSUME NEW t, NEW b, NEW n, t \notin Guarded \cup {"enter", "leave"}
      PROVE  Adds("call", <<Step(t, b, n)>>)
  BY <1>2, AddsOne DEF Step
<1>3. ASSUME NEW t, NEW b, NEW n, t \notin {"enter", "leave"}
      PROVE  Adds("call", Section(Step(t, b, n)))
  BY <1>3, AddsSection DEF Step
<1>4. ASSUME NEW n, CallMalloc(c, n) PROVE LevelInv'
  <2>1. Adds("call", malloc(n))
    BY <1>2, <1>3, AddsBoth DEF malloc, malloc2, Guarded
  <2>2. Adds("call", malloc(n) \o <<Step("return", NULL, n)>>)
    BY <1>2, <2>1, AddsBoth DEF Guarded
  <2> QED
    BY <1>4, <2>2, CallLevels DEF CallMalloc
<1>5. ASSUME NEW x, CallFree(c, x) PROVE LevelInv'
  BY <1>3, <1>5, CallLevels DEF CallFree, free
<1>6. ASSUME NEW x, NEW n, CallRealloc(c, x, n) PROVE LevelInv'
  <2>1. Adds("call", Section(Step("resize", x.base, n)) \o <<Step("return", NULL, n)>>)
    BY <1>2, <1>3, AddsBoth DEF Guarded
  <2> QED
    BY <1>6, <2>1, CallLevels DEF CallRealloc
<1>7. ASSUME CallAddPage(c) PROVE LevelInv'
  BY <1>3, <1>7, CallLevels DEF CallAddPage
<1> QED
  BY <1>1, <1>4, <1>5, <1>6, <1>7 DEF Call

(* At the start nobody has anything to do.                                  *)
LEMMA LevelInit == Init => LevelInv
<1> SUFFICES ASSUME Init PROVE LevelInv
  OBVIOUS
<1>1. Adds("call", <<>>)
  BY AddsNothing
<1>2. IsSeq(<<>>) /\ Leads(<<>>, 0, 0)
  BY <1>1 DEF Adds, Guarded
<1>3. ASSUME NEW c \in CPUs PROVE todo[c] = <<>> /\ at[c] = "out" /\ depth[c] = 0
  BY DEF Init, CSInit
<1>4. ASSUME NEW c \in CPUs PROVE Level(c) = 0 /\ AtInv(c)
  BY <1>3 DEF Level, AtInv
<1>5. DOMAIN todo = CPUs
  BY DEF Init
<1> QED
  BY <1>2, <1>3, <1>4, <1>5 DEF LevelInv

(* Whatever changes the bits, the lists or the set of allocations is done   *)
(* by a CPU that has the lock.                                              *)
Guards ==
  \/ UNCHANGED <<mmVars, heap, severed, damaged, forgotten>>
  \/ \E c \in CPUs : depth[c] > 0 /\ Work(c)

(* Every step keeps the levels, and only a CPU inside AllocCS changes the   *)
(* lists and the bits.                                                      *)
LEMMA LevelStep ==
  ASSUME LockInv, LevelInv, [Next]_vars
  PROVE  LevelInv' /\ Guards
<1>1. ASSUME NEW c \in CPUs, Lock(c) PROVE LevelInv' /\ Guards
  BY <1>1, LockLevels DEF Guards, Lock, historyVars
<1>2. ASSUME NEW c \in CPUs, Work(c) PROVE LevelInv' /\ Guards
  BY <1>2, WorkStep DEF Guards
<1>3. ASSUME NEW c \in CPUs, Call(c) PROVE LevelInv' /\ Guards
  BY <1>3, CallStep DEF Guards
<1>4. ASSUME UNCHANGED vars \/ \E c \in CPUs : Overrun(c) PROVE LevelInv' /\ Guards
  <2>1. UNCHANGED <<todo, at, depth, mmVars, heap, severed, damaged, forgotten>>
    BY <1>4 DEF Overrun, vars, csVars, historyVars
  <2> QED
    BY <2>1 DEF LevelInv, AtInv, Level, Guards
<1> QED
  BY <1>1, <1>2, <1>3, <1>4 DEF Next

(* The nesting of the calls and the lock agree in every state.              *)
THEOREM NestingInvariance == Spec => [](LockInv /\ LevelInv)
<1>1. Init => LockInv /\ LevelInv
  BY LockInit, LevelInit DEF Init
<1>2. LockInv /\ LevelInv /\ [Next]_vars => (LockInv /\ LevelInv)'
  BY LockStep, UsesLock, LevelStep
<1> QED
  BY <1>1, <1>2, PTL DEF Spec

(* csLeave is only reached by the CPU that is in the section, through all   *)
(* nested and failing calls of malloc, free and realloc: none stays in the  *)
(* endless loop of a csLeave on a lock it does not own, and a CPU that is   *)
(* done with its call has left the section.                                 *)
LeavesWhatItEntered ==
  \A c \in CPUs : at[c] # "hung" /\ (todo[c] = <<>> => at[c] = "out" /\ depth[c] = 0)

(* The memory manager leaves AllocCS exactly as often as it enters it       *)
(* (mm.c's csEnter and csLeave around malloc, free and realloc).            *)
THEOREM SectionsAreLeft == Spec => []LeavesWhatItEntered
<1>1. LockInv /\ LevelInv => LeavesWhatItEntered
  <2> SUFFICES ASSUME LockInv, LevelInv, NEW c \in CPUs
               PROVE  at[c] # "hung" /\ (todo[c] = <<>> => at[c] = "out" /\ depth[c] = 0)
    BY DEF LeavesWhatItEntered
  <2>1. /\ AtInv(c) /\ Leads(todo[c], Level(c), 0) /\ depth[c] \in Nat
        /\ at[c] \in {"out", "spin", "count", "own", "disown", "unlock", "hung"}
    BY DEF LevelInv, LockInv, CSTypeOK
  <2>2. ASSUME todo[c] = <<>> PROVE at[c] = "out" /\ depth[c] = 0
    <3>1. at[c] = "out"
      BY <2>1, <2>2 DEF AtInv
    <3>2. Level(c) = depth[c]
      BY <2>1, <3>1 DEF Level
    <3> QED
      BY <2>1, <2>2, <3>1, <3>2, LeadsEmpty
  <2> QED
    BY <2>1, <2>2 DEF AtInv
<1> QED
  BY <1>1, NestingInvariance, PTL

(* Every change to the bits, AllocList, AllocationInfoList and what they    *)
(* describe is made under AllocCS, also by the code between two sections of *)
(* malloc and by realloc, which calls malloc and free inside its own.       *)
THEOREM WorkIsLocked == Spec => [][Guards]_vars
<1>1. (LockInv /\ LevelInv) /\ [Next]_vars => [Guards]_vars
  BY LevelStep
<1> QED
  BY <1>1, NestingInvariance, PTL DEF Spec

(* A nonempty set of natural numbers has a least element.                   *)
LEMMA Least ==
  ASSUME NEW S \in SUBSET Nat, S # {}
  PROVE  \E i \in S : \A j \in S : i <= j
<1> DEFINE R == OpToRel(<, Nat)
<1>1. IsWellFoundedOn(R, Nat)
  BY NatLessThanWellFounded
<1>2. \A i, j \in Nat : i < j => <<i, j>> \in R
  BY DEF OpToRel
<1> HIDE DEF R
<1>3. PICK i \in S : \A j \in S : ~(<<j, i>> \in R)
  BY <1>1, WFMin
<1>4. ASSUME NEW j \in S PROVE i <= j
  <2>1. i \in Nat /\ j \in Nat /\ ~(<<j, i>> \in R)
    BY <1>3
  <2>2. ~(j < i)
    BY <1>2, <2>1
  <2> QED
    BY <2>1, <2>2
<1> QED
  BY <1>4

(* The binary search                                                        *)

(* The pairs of first and last index the search goes through, and one round *)
(* of it, with f for the rest.                                              *)
Ranges(n) == (0 .. n) \X (-1 .. n - 1)

Probe(items, b, f, low, high) ==
  LET mid == low + (high - low) \div 2 IN
  IF low > high THEN low
  ELSE IF b = items[mid + 1].base THEN mid
  ELSE IF b > items[mid + 1].base THEN f[<<mid + 1, high>>]
  ELSE f[<<low, mid - 1>>]

IsProbe(items, b, f) ==
  f = [r \in Ranges(Len(items)) |-> Probe(items, b, f, r[1], r[2])]

(* findClosestAllocRegion is the value of the recursive function on the     *)
(* whole list.                                                              *)
LEMMA SearchIsProbe ==
  ASSUME NEW items, NEW b
  PROVE  findClosestAllocRegion(items, b) =
           (CHOOSE f : IsProbe(items, b, f))[<<0, Len(items) - 1>>] + 1
BY DEF findClosestAllocRegion, IsProbe, Probe, Ranges

(* The middle of a range lies in it.                                        *)
LEMMA Middle ==
  ASSUME NEW low \in Int, NEW high \in Int, low <= high
  PROVE  low + (high - low) \div 2 \in low .. high
OBVIOUS

(* One round of the search gives an index of the list or the one behind it. *)
LEMMA ProbeType ==
  ASSUME NEW n \in Nat, NEW items, NEW b, NEW f \in [Ranges(n) -> 0 .. n],
         NEW low \in 0 .. n, NEW high \in -1 .. n - 1
  PROVE  Probe(items, b, f, low, high) \in 0 .. n
<1>1. CASE low > high
  BY <1>1 DEF Probe
<1>2. CASE low <= high
  <2> DEFINE mid == low + (high - low) \div 2
  <2>1. mid \in low .. high
    BY <1>2, Middle
  <2> HIDE DEF mid
  <2>2. <<mid + 1, high>> \in Ranges(n) /\ <<low, mid - 1>> \in Ranges(n) /\ mid \in 0 .. n
    BY <2>1 DEF Ranges
  <2>3. f[<<mid + 1, high>>] \in 0 .. n /\ f[<<low, mid - 1>>] \in 0 .. n
    BY <2>2
  <2> QED
    BY <1>2, <2>2, <2>3 DEF Probe, mid
<1> QED
  BY <1>1, <1>2

(* f follows the search from every range shorter than m.                    *)
Follows(items, b, f, n, m) ==
  \A low \in 0 .. n, high \in -1 .. n - 1 :
    high - low + 1 < m => f[<<low, high>>] = Probe(items, b, f, low, high)

(* f and g agree on the ranges shorter than m.                              *)
Agree(f, g, n, m) ==
  \A l \in 0 .. n, h \in -1 .. n - 1 : h - l + 1 < m => f[<<l, h>>] = g[<<l, h>>]

(* One round of the search only asks for shorter ranges.                    *)
LEMMA ProbeLocal ==
  ASSUME NEW n \in Nat, NEW items, NEW b, NEW f, NEW g, NEW m \in Nat,
         NEW low \in 0 .. n, NEW high \in -1 .. n - 1, high - low + 1 <= m, Agree(f, g, n, m)
  PROVE  Probe(items, b, f, low, high) = Probe(items, b, g, low, high)
<1>1. CASE low > high
  BY <1>1 DEF Probe
<1>2. CASE low <= high
  <2> DEFINE mid == low + (high - low) \div 2
  <2>1. mid \in low .. high
    BY <1>2, Middle
  <2> HIDE DEF mid
  <2>2. f[<<mid + 1, high>>] = g[<<mid + 1, high>>] /\ f[<<low, mid - 1>>] = g[<<low, mid - 1>>]
    <3>1. /\ mid + 1 \in 0 .. n /\ high - (mid + 1) + 1 < m
          /\ mid - 1 \in -1 .. n - 1 /\ (mid - 1) - low + 1 < m
      BY <2>1
    <3> QED
      BY <3>1 DEF Agree
  <2> QED
    BY <1>2, <2>2 DEF Probe, mid
<1> QED
  BY <1>1, <1>2

(* What follows the rounds for ranges up to one length can be made to       *)
(* follow them for the next.                                                *)
LEMMA FollowsMore ==
  ASSUME NEW n \in Nat, NEW items, NEW b, NEW m \in Nat,
         NEW f \in [Ranges(n) -> 0 .. n], Follows(items, b, f, n, m)
  PROVE  \E g \in [Ranges(n) -> 0 .. n] : Follows(items, b, g, n, m + 1)
<1> DEFINE g == [r \in Ranges(n) |-> Probe(items, b, f, r[1], r[2])]
<1>1. ASSUME NEW l \in 0 .. n, NEW h \in -1 .. n - 1
      PROVE  g[<<l, h>>] = Probe(items, b, f, l, h)
  BY DEF Ranges
<1>2. g \in [Ranges(n) -> 0 .. n]
  <2>1. ASSUME NEW r \in Ranges(n) PROVE Probe(items, b, f, r[1], r[2]) \in 0 .. n
    BY ProbeType DEF Ranges
  <2> QED
    BY <2>1
<1> HIDE DEF g
<1>3. Agree(g, f, n, m)
  BY <1>1 DEF Follows, Agree
<1>4. ASSUME NEW l \in 0 .. n, NEW h \in -1 .. n - 1, h - l + 1 < m + 1
      PROVE  g[<<l, h>>] = Probe(items, b, g, l, h)
  <2>1. h - l + 1 <= m
    BY <1>4
  <2>3. Probe(items, b, g, l, h) = Probe(items, b, f, l, h)
    BY <1>3, <2>1, ProbeLocal
  <2> QED
    BY <1>1, <2>3
<1> QED
  BY <1>2, <1>4 DEF Follows

(* The recursion of the search defines a function: there is no least length *)
(* at which it stops doing so.                                              *)
LEMMA ProbeExists ==
  ASSUME NEW n \in Nat, NEW items, Len(items) = n, NEW b
  PROVE  \E f \in [Ranges(n) -> 0 .. n] : IsProbe(items, b, f)
<1> DEFINE Can(m) == \E f \in [Ranges(n) -> 0 .. n] : Follows(items, b, f, n, m)
           S == {m \in Nat : ~Can(m)}
<1>1. Can(0)
  <2> DEFINE g == [r \in Ranges(n) |-> r[1]]
  <2>1. g \in [Ranges(n) -> 0 .. n]
    BY DEF Ranges
  <2>2. ASSUME NEW l \in 0 .. n, NEW h \in -1 .. n - 1, h - l + 1 < 0
        PROVE  g[<<l, h>>] = Probe(items, b, g, l, h)
    <3>1. l > h /\ <<l, h>> \in Ranges(n)
      BY <2>2 DEF Ranges
    <3> QED
      BY <3>1 DEF Probe
  <2> HIDE DEF g
  <2> QED
    BY <2>1, <2>2 DEF Follows
<1>2. \A m \in Nat : Can(m) => Can(m + 1)
  BY FollowsMore
<1> HIDE DEF Can
<1>3. S = {}
  <2> SUFFICES ASSUME S # {} PROVE FALSE
    OBVIOUS
  <2>1. S \in SUBSET Nat
    OBVIOUS
  <2>2. PICK m \in S : \A k \in S : m <= k
    <3> HIDE DEF S
    <3> QED
      BY <2>1, Least
  <2>3. m \in Nat /\ ~Can(m) /\ m # 0
    BY <1>1, <2>2
  <2>4. m - 1 \in Nat /\ m - 1 \notin S
    <3> HIDE DEF S
    <3> QED
      BY <2>2, <2>3
  <2>5. Can(m - 1)
    BY <2>4
  <2>6. m - 1 + 1 = m
    BY <2>3
  <2> QED
    BY <1>2, <2>3, <2>4, <2>5, <2>6
<1>4. Can(n + 2)
  BY <1>3
<1>5. PICK f \in [Ranges(n) -> 0 .. n] : Follows(items, b, f, n, n + 2)
  BY <1>4 DEF Can
<1>6. ASSUME NEW l \in 0 .. n, NEW h \in -1 .. n - 1
      PROVE  f[<<l, h>>] = Probe(items, b, f, l, h)
  BY <1>5, <1>6 DEF Follows
<1>7. ASSUME NEW r \in Ranges(n) PROVE f[r] = Probe(items, b, f, r[1], r[2])
  <2>1. r = <<r[1], r[2]>> /\ r[1] \in 0 .. n /\ r[2] \in -1 .. n - 1
    BY DEF Ranges
  <2> QED
    BY <1>6, <2>1
<1>8. IsProbe(items, b, f)
  <2>1. f = [r \in Ranges(n) |-> f[r]]
    OBVIOUS
  <2>2. f = [r \in Ranges(n) |-> Probe(items, b, f, r[1], r[2])]
    BY <1>7, <2>1
  <2> QED
    BY <2>2 DEF IsProbe
<1> QED
  BY <1>8
(* i is where b is, or where it belongs, in a list sorted by its bases.     *)
Sorted(items) == \A i, j \in 1 .. Len(items) : i < j => items[i].base < items[j].base

Belongs(items, b, i) ==
  \/ i <= Len(items) /\ items[i].base = b
  \/ /\ \A j \in 1 .. Len(items) : j < i => items[j].base < b
     /\ \A j \in 1 .. Len(items) : j >= i => items[j].base > b

(* b is not before low and not behind high.                                 *)
Between(items, b, low, high) ==
  /\ low <= high + 1
  /\ \A j \in 1 .. Len(items) : j <= low => items[j].base < b
  /\ \A j \in 1 .. Len(items) : j > high + 1 => items[j].base > b

Right(items, b, f, low, high) ==
  /\ f[<<low, high>>] \in 0 .. Len(items)
  /\ Sorted(items) /\ Between(items, b, low, high) => Belongs(items, b, f[<<low, high>>] + 1)

(* When the search is right for all shorter ranges it is right for this     *)
(* one.                                                                     *)
LEMMA ProbeRight ==
  ASSUME NEW items, NEW n \in Nat, Len(items) = n, \A j \in 1 .. n : items[j].base \in Int,
         NEW b \in Int, NEW f, NEW low \in 0 .. n, NEW high \in -1 .. n - 1,
         f[<<low, high>>] = Probe(items, b, f, low, high),
         \A l \in 0 .. n, h \in -1 .. n - 1 :
           l <= h + 1 /\ h - l < high - low => Right(items, b, f, l, h)
  PROVE  low <= high + 1 => Right(items, b, f, low, high)
<1> SUFFICES ASSUME low <= high + 1 PROVE Right(items, b, f, low, high)
  OBVIOUS
<1> DEFINE mid == low + (high - low) \div 2
<1>3. CASE low > high
  <2>1. low = high + 1 /\ f[<<low, high>>] = low
    BY <1>3 DEF Probe
  <2>2. Between(items, b, low, high) => Belongs(items, b, low + 1)
    BY <2>1 DEF Between, Belongs
  <2> QED
    BY <2>1, <2>2 DEF Right
<1>4. CASE low <= high
  <2>1. mid \in low .. high
    BY <1>4, Middle
  <2>2. /\ b = items[mid + 1].base => f[<<low, high>>] = mid
        /\ b > items[mid + 1].base => f[<<low, high>>] = f[<<mid + 1, high>>]
        /\ b < items[mid + 1].base => f[<<low, high>>] = f[<<low, mid - 1>>]
    <3>1. mid + 1 \in 1 .. n
      <4> HIDE DEF mid
      <4> QED
        BY <2>1
    <3>2. items[mid + 1].base \in Int
      BY <3>1
    <3> QED
      BY <1>4, <3>2 DEF Probe
  <2> HIDE DEF mid
  <2>3. mid + 1 \in 1 .. n /\ mid \in Int
    BY <2>1
  <2>4. CASE b = items[mid + 1].base
    <3>1. f[<<low, high>>] = mid /\ mid \in 0 .. n
      BY <2>2, <2>3, <2>4
    <3>2. Belongs(items, b, mid + 1)
      BY <2>3, <2>4 DEF Belongs
    <3> QED
      BY <3>1, <3>2 DEF Right
  <2>5. CASE b > items[mid + 1].base
    <3>1. Right(items, b, f, mid + 1, high)
      <4>1. mid + 1 \in 0 .. n /\ mid + 1 <= high + 1 /\ high - (mid + 1) < high - low
        BY <2>1, <2>3
      <4> QED
        BY <4>1
    <3>2. ASSUME Sorted(items), Between(items, b, low, high) PROVE Between(items, b, mid + 1, high)
      <4>1. ASSUME NEW j \in 1 .. n, j <= mid + 1 PROVE items[j].base < b
        <5>1. items[j].base \in Int /\ items[mid + 1].base \in Int
          BY <2>3
        <5>2. j = mid + 1 \/ items[j].base < items[mid + 1].base
          BY <2>3, <3>2, <4>1 DEF Sorted
        <5> QED
          BY <2>5, <5>1, <5>2
      <4>2. mid + 1 <= high + 1
        BY <2>1
      <4> QED
        BY <3>2, <4>1, <4>2 DEF Between
    <3> QED
      BY <2>2, <2>5, <3>1, <3>2 DEF Right
  <2>6. CASE b < items[mid + 1].base
    <3>1. Right(items, b, f, low, mid - 1)
      <4>1. mid - 1 \in -1 .. n - 1 /\ low <= mid - 1 + 1 /\ (mid - 1) - low < high - low
        BY <2>1, <2>3
      <4> QED
        BY <4>1
    <3>2. ASSUME Sorted(items), Between(items, b, low, high) PROVE Between(items, b, low, mid - 1)
      <4>1. ASSUME NEW j \in 1 .. n, j > mid - 1 + 1 PROVE items[j].base > b
        <5>1. items[j].base \in Int /\ items[mid + 1].base \in Int
          BY <2>3
        <5>2. j = mid + 1 \/ items[j].base > items[mid + 1].base
          BY <2>3, <3>2, <4>1, <5>1 DEF Sorted
        <5> QED
          BY <2>6, <5>1, <5>2
      <4>2. low <= mid - 1 + 1
        BY <2>1
      <4> QED
        BY <3>2, <4>1, <4>2 DEF Between
    <3> QED
      BY <2>2, <2>6, <3>1, <3>2 DEF Right
  <2>7. items[mid + 1].base \in Int
    BY <2>3
  <2> QED
    BY <2>4, <2>5, <2>6, <2>7
<1> QED
  BY <1>3, <1>4

(* findClosestAllocRegion, on any list, gives an index of the list or the   *)
(* one behind it; on a list sorted by address it gives the entry with the   *)
(* address when there is one and otherwise the place where it belongs:      *)
(* everything before is below the address and everything from there on      *)
(* above it.                                                                *)
THEOREM SearchRight ==
  ASSUME NEW items, NEW n \in Nat, Len(items) = n, \A j \in 1 .. n : items[j].base \in Int,
         NEW b \in Int
  PROVE  /\ findClosestAllocRegion(items, b) \in 1 .. n + 1
         /\ Sorted(items) => Belongs(items, b, findClosestAllocRegion(items, b))
<1> DEFINE f == CHOOSE f : IsProbe(items, b, f)
           Wrong(m) == \E low \in 0 .. n, high \in -1 .. n - 1 :
                         /\ high - low + 1 = m
                         /\ ~Right(items, b, f, low, high)
           S == {m \in Nat : Wrong(m)}
<1>1. PICK g \in [Ranges(n) -> 0 .. n] : IsProbe(items, b, g)
  BY ProbeExists
<1>2. IsProbe(items, b, f)
  BY <1>1
<1>3. findClosestAllocRegion(items, b) = f[<<0, n - 1>>] + 1
  BY SearchIsProbe
<1> HIDE DEF f
<1>4. f = [r \in Ranges(n) |-> Probe(items, b, f, r[1], r[2])]
  BY <1>2 DEF IsProbe
<1>5. ASSUME NEW low \in 0 .. n, NEW high \in -1 .. n - 1
      PROVE  f[<<low, high>>] = Probe(items, b, f, low, high)
  <2>1. <<low, high>> \in Ranges(n)
    BY DEF Ranges
  <2> QED
    BY <1>4, <2>1
<1>6. S = {}
  <2> SUFFICES ASSUME S # {} PROVE FALSE
    OBVIOUS
  <2>1. S \in SUBSET Nat
    OBVIOUS
  <2>2. PICK m \in S : \A k \in S : m <= k
    <3> HIDE DEF S
    <3> QED
      BY <2>1, Least
  <2>3. m \in Nat
    BY <2>1, <2>2
  <2>4. PICK low \in 0 .. n, high \in -1 .. n - 1 :
          high - low + 1 = m /\ ~Right(items, b, f, low, high)
    BY <2>2
  <2>5. ASSUME NEW l \in 0 .. n, NEW h \in -1 .. n - 1, l <= h + 1, h - l < high - low
        PROVE  Right(items, b, f, l, h)
    <3> DEFINE k == h - l + 1
    <3>1. k \in Nat /\ k < m
      BY <2>4, <2>5
    <3>2. k \notin S
      <4> HIDE DEF S, k
      <4> QED
        BY <2>2, <2>3, <3>1
    <3>3. ~Wrong(k)
      BY <3>1, <3>2
    <3> QED
      BY <3>3
  <2>6. low <= high + 1
    BY <2>3, <2>4
  <2>7. Right(items, b, f, low, high)
    BY <1>5, <2>5, <2>6, ProbeRight
  <2> QED
    BY <2>4, <2>7
<1>7. Right(items, b, f, 0, n - 1)
  <2>1. 0 \in 0 .. n /\ n - 1 \in -1 .. n - 1 /\ (n - 1) - 0 + 1 = n
    OBVIOUS
  <2>2. ~Wrong(n)
    BY <1>6
  <2> QED
    BY <2>1, <2>2
<1>8. Between(items, b, 0, n - 1)
  BY DEF Between
<1>9. f[<<0, n - 1>>] \in 0 .. n
  BY <1>7 DEF Right
<1> QED
  BY <1>3, <1>7, <1>8, <1>9 DEF Right

-----------------------------------------------------------------------------
(* Numbers and blocks                                                       *)

(* What the assumptions on the sizes say, one by one.                       *)
LEMMA Constants ==
  /\ PageBlocks \in Nat /\ PageBlocks > 0 /\ ByteBlocks \in Nat /\ ByteBlocks > 0
  /\ InfoPerBlock \in Nat /\ InfoPerBlock > 0 /\ ItemsPerBlock \in Nat /\ ItemsPerBlock > 0
  /\ InitInfoMax \in Nat /\ InitInfoMax > 0 /\ InitItems \in Nat /\ InitItems > 0
  /\ InitPages \in Nat /\ InitPages < InitInfoMax /\ MaxPages \in Nat /\ InitPages <= MaxPages
BY SizesAssumption

(* Division with remainder.                                                 *)
LEMMA DivMod ==
  ASSUME NEW n \in Nat, NEW k \in Nat, k > 0
  PROVE  /\ n \div k \in Nat /\ n % k \in Nat /\ n % k < k
         /\ n = (n \div k) * k + (n % k)
OBVIOUS

(* Multiplication by a natural number keeps the order.                      *)
LEMMA Times ==
  ASSUME NEW a \in Nat, NEW b \in Nat, NEW k \in Nat
  PROVE  /\ a * k \in Nat
         /\ a <= b => a * k <= b * k
         /\ a < b => a * k + k <= b * k
         /\ (a + 1) * k = a * k + k
<1>1. a * k \in Nat /\ b * k \in Nat
  OBVIOUS
<1>2. ASSUME a <= b PROVE a * k <= b * k
  <2>1. b - a \in Nat /\ (b - a) * k \in Nat
    BY <1>2
  <2>2. b * k = a * k + (b - a) * k
    BY <2>1
  <2> QED
    BY <1>1, <2>1, <2>2
<1>3. (a + 1) * k = a * k + k
  OBVIOUS
<1>4. ASSUME a < b PROVE a * k + k <= b * k
  <2>1. b - (a + 1) \in Nat /\ (b - (a + 1)) * k \in Nat
    BY <1>4
  <2>2. b * k = (a + 1) * k + (b - (a + 1)) * k
    BY <2>1
  <2> QED
    BY <1>1, <1>3, <2>1, <2>2
<1> QED
  BY <1>1, <1>2, <1>3, <1>4

(* A quotient is positive when the dividend is not less than the divisor.   *)
LEMMA Divides ==
  ASSUME NEW n \in Nat, NEW k \in Nat, k > 0, n >= k
  PROVE  n \div k \in Nat /\ n \div k > 0
OBVIOUS

(* The numbers of the blocks of a chunk.                                    *)
LEMMA InBlocks ==
  ASSUME NEW b \in Int, NEW n \in Int
  PROVE  \A z : z \in Blocks(b, n) <=> z \in Int /\ b <= z /\ z < b + n
BY DEF Blocks

(* A block lies in the page with its number.                                *)
LEMMA InPage ==
  ASSUME NEW z \in Nat
  PROVE  /\ z \div PageBlocks \in Nat /\ z \in PageOf(z \div PageBlocks)
         /\ \A q \in Nat : z \in PageOf(q) => q = z \div PageBlocks
<1> DEFINE P == PageBlocks
           q == z \div P
<1>1. P \in Nat /\ P > 0
  BY Constants
<1>2. q \in Nat /\ z % P \in Nat /\ z % P < P /\ z = q * P + (z % P)
  BY <1>1, DivMod
<1>3. q * P \in Nat
  BY <1>1, <1>2, Times
<1> HIDE DEF q
<1>4. z \in PageOf(q)
  BY <1>1, <1>2, <1>3, InBlocks DEF PageOf
<1>5. ASSUME NEW r \in Nat, z \in PageOf(r) PROVE r = q
  <2>1. r * P \in Nat /\ r * P <= z /\ z < r * P + P
    BY <1>1, <1>5, Times, InBlocks DEF PageOf
  <2>2. ~(r < q) /\ ~(q < r)
    <3>1. r < q => r * P + P <= q * P
      BY <1>1, <1>2, Times
    <3>2. q < r => q * P + P <= r * P
      BY <1>1, <1>2, Times
    <3> QED
      BY <1>1, <1>2, <1>3, <2>1, <3>1, <3>2
  <2> QED
    BY <1>2, <2>2
<1> QED
  BY <1>2, <1>4, <1>5 DEF q

-----------------------------------------------------------------------------
(* Sequences                                                                *)

(* The head and the tail of a sequence.                                     *)
LEMMA SeqParts ==
  ASSUME NEW s, IsSeq(s)
  PROVE  /\ Len(s) \in Nat /\ DOMAIN s = 1 .. Len(s)
         /\ s # <<>> => Len(s) > 0 /\ Head(s) = s[1] /\ IsSeq(Tail(s)) /\ Len(Tail(s)) = Len(s) - 1
                        /\ \A i \in 1 .. Len(s) - 1 : Tail(s)[i] = s[i + 1]
<1>1. PICK S : s \in Seq(S)
  BY DEF IsSeq
<1>2. Len(s) \in Nat /\ DOMAIN s = 1 .. Len(s)
  BY <1>1, LenProperties
<1>3. ASSUME s # <<>>
      PROVE  /\ Len(s) > 0 /\ Head(s) = s[1] /\ Tail(s) \in Seq(S) /\ Len(Tail(s)) = Len(s) - 1
             /\ \A i \in 1 .. Len(s) - 1 : Tail(s)[i] = s[i + 1]
  BY <1>1, <1>2, <1>3, HeadTailProperties, EmptySeq
<1> QED
  BY <1>2, <1>3 DEF IsSeq

-----------------------------------------------------------------------------
(* What a CPU has still to do, without its steps on the lock                *)

LockOps == {"enter", "leave"}
Pend(s) == {s[i] : i \in {j \in DOMAIN s : s[j].op \notin LockOps}}

(* malloc2 is followed by the step that uses its result, the free2 of a     *)
(* thing by the one that forgets it.                                        *)
Users == {"record", "firstlist", "movelist", "moveinfo"}
Enders == {"setlist", "clear", "setinfo"}
Calm == {"unlink", "copymem", "result", "return"}

Has(s, i, ops) == i \in DOMAIN s /\ s[i].op \in ops
Quiet(s, k) == \A i \in DOMAIN s : i >= k => s[i].op \in Calm \cup LockOps

Singles == {"resize", "addpage", "insert", "error", "free2"} \cup Users \cup Enders
Sections == {"resize", "addpage", "insert", "free2"}

Around(s, op, ops) ==
  \/ /\ Has(s, 1, {"enter"}) /\ Has(s, 2, {op}) /\ Has(s, 3, {"leave"}) /\ Has(s, 4, ops)
     /\ Quiet(s, 5)
  \/ Has(s, 1, {op}) /\ Has(s, 2, {"leave"}) /\ Has(s, 3, ops) /\ Quiet(s, 4)
  \/ Has(s, 1, {"leave"}) /\ Has(s, 2, ops) /\ Quiet(s, 3)

Form(s) ==
  \/ Quiet(s, 1)
  \/ Has(s, 1, Singles) /\ Quiet(s, 2)
  \/ Has(s, 1, {"enter"}) /\ Has(s, 2, Sections) /\ Quiet(s, 3)
  \/ Around(s, "malloc2", Users)
  \/ Around(s, "free2", Enders)

(* What is pending is some step that is not one on the lock.                *)
LEMMA InPend ==
  ASSUME NEW s, NEW k
  PROVE  k \in Pend(s) <=> \E i \in DOMAIN s : s[i] = k /\ k.op \notin LockOps
BY DEF Pend

(* One step taken away.                                                     *)
LEMMA FormTail ==
  ASSUME NEW s, IsSeq(s), s # <<>>, Form(s)
  PROVE  /\ Form(Tail(s))
         /\ Head(s).op \notin LockOps \cup {"malloc2", "free2"} => Quiet(Tail(s), 1)
<1> DEFINE t == Tail(s)
           n == Len(s)
<1>1. n \in Nat /\ n > 0 /\ DOMAIN s = 1 .. n /\ DOMAIN t = 1 .. n - 1 /\ Head(s) = s[1]
      /\ \A i \in 1 .. n - 1 : t[i] = s[i + 1]
  BY SeqParts
<1> HIDE DEF t, n
<1>2. ASSUME NEW i \in Nat, i > 0, NEW ops
      PROVE  Has(s, i + 1, ops) => Has(t, i, ops)
  BY <1>1, <1>2 DEF Has
<1>3. ASSUME NEW k \in Nat
      PROVE  Quiet(s, k + 1) => Quiet(t, k)
  BY <1>1 DEF Quiet
<1>4. /\ \A ops : Has(s, 1 + 1, ops) => Has(t, 1, ops)
      /\ \A ops : Has(s, 2 + 1, ops) => Has(t, 2, ops)
      /\ \A ops : Has(s, 3 + 1, ops) => Has(t, 3, ops)
      /\ Quiet(s, 1 + 1) => Quiet(t, 1)
      /\ Quiet(s, 2 + 1) => Quiet(t, 2)
      /\ Quiet(s, 3 + 1) => Quiet(t, 3)
      /\ Quiet(s, 4 + 1) => Quiet(t, 4)
  BY <1>2, <1>3
<1>5. 1 + 1 = 2 /\ 2 + 1 = 3 /\ 3 + 1 = 4 /\ 4 + 1 = 5
  OBVIOUS
<1>6. Quiet(s, 1) => Quiet(t, 1)
  BY <1>1 DEF Quiet
<1>7. ASSUME NEW op, NEW ops, Around(s, op, ops), op \in {"malloc2", "free2"}, ops \subseteq Singles
      PROVE  Around(t, op, ops) \/ (Has(t, 1, Singles) /\ Quiet(t, 2))
  <2>1. Has(t, 1, ops) => Has(t, 1, Singles)
    BY <1>7 DEF Has
  <2> QED
    BY <1>4, <1>5, <1>7, <2>1 DEF Around
<1>8. Users \subseteq Singles /\ Enders \subseteq Singles
  BY DEF Singles
<1>9. Has(t, 1, Sections) => Has(t, 1, Singles)
  BY DEF Has, Sections, Singles
<1>10. Form(t)
  BY <1>4, <1>5, <1>6, <1>7, <1>8, <1>9 DEF Form
<1>11. ASSUME s[1].op \notin LockOps \cup {"malloc2", "free2"} PROVE Quiet(t, 1)
  <2>1. /\ ~Around(s, "malloc2", Users) /\ ~Around(s, "free2", Enders)
        /\ ~Has(s, 1, {"enter"})
    BY <1>11 DEF Around, Has, LockOps
  <2> QED
    BY <1>4, <1>5, <1>6, <2>1 DEF Form
<1> QED
  BY <1>1, <1>10, <1>11 DEF t

(* In a quiet sequence all that is pending is calm.                         *)
LEMMA QuietCalm ==
  ASSUME NEW s, Quiet(s, 1), DOMAIN s \subseteq Nat \ {0}
  PROVE  \A k \in Pend(s) : k.op \in Calm
BY InPend DEF Quiet

(* The steps that remain when the first is one that works.                  *)
LEMMA FormRest ==
  ASSUME NEW s, IsSeq(s), s # <<>>, Form(s), Head(s).op \notin LockOps
  PROVE  LET R == Pend(Tail(s)) IN
         /\ Pend(s) = {Head(s)} \cup R
         /\ Head(s).op = "malloc2" =>
              \E u \in R : u.op \in Users /\ \A k \in R : k = u \/ k.op \in Calm
         /\ Head(s).op = "free2" =>
              \/ \A k \in R : k.op \in Calm
              \/ \E u \in R : u.op \in Enders /\ \A k \in R : k = u \/ k.op \in Calm
         /\ Head(s).op \notin {"malloc2", "free2"} => \A k \in R : k.op \in Calm
<1> DEFINE t == Tail(s)
           n == Len(s)
           R == Pend(t)
<1>1. n \in Nat /\ n > 0 /\ DOMAIN s = 1 .. n /\ DOMAIN t = 1 .. n - 1 /\ Head(s) = s[1]
      /\ \A i \in 1 .. n - 1 : t[i] = s[i + 1]
  BY SeqParts
<1>2. Head(s).op \notin {"malloc2", "free2"} => Quiet(t, 1)
  BY FormTail
<1> HIDE DEF t, n
<1>3. Pend(s) = {s[1]} \cup R
  <2>1. ASSUME NEW k \in Pend(s) PROVE k = s[1] \/ k \in R
    <3>1. PICK i \in DOMAIN s : s[i] = k /\ k.op \notin LockOps
      BY <2>1, InPend
    <3>2. CASE i > 1
      <4>1. i - 1 \in DOMAIN t /\ t[i - 1] = k
        BY <1>1, <3>1, <3>2
      <4> QED
        BY <3>1, <4>1, InPend
    <3> QED
      BY <1>1, <3>1, <3>2
  <2>2. ASSUME NEW k \in R PROVE k \in Pend(s)
    <3>1. PICK i \in DOMAIN t : t[i] = k /\ k.op \notin LockOps
      BY <2>2, InPend
    <3>2. i + 1 \in DOMAIN s /\ s[i + 1] = k
      BY <1>1, <3>1
    <3> QED
      BY <3>1, <3>2, InPend
  <2>3. s[1] \in Pend(s)
    <3>1. 1 \in DOMAIN s
      BY <1>1
    <3> QED
      BY <1>1, <3>1, InPend
  <2> QED
    BY <2>1, <2>2, <2>3
<1>4. (\A i \in DOMAIN t : t[i].op \in Calm \cup LockOps) => \A k \in R : k.op \in Calm
  BY InPend
<1>5. Quiet(t, 1) => \A k \in R : k.op \in Calm
  BY <1>1, <1>4 DEF Quiet
<1>6. ASSUME NEW op, NEW ops, Around(s, op, ops), s[1].op = op, op \notin LockOps,
             ops \cap LockOps = {}
      PROVE  \E u \in R : u.op \in ops /\ \A k \in R : k = u \/ k.op \in Calm
  <2>1. Has(s, 2, {"leave"}) /\ Has(s, 3, ops) /\ Quiet(s, 4)
    BY <1>6 DEF Around, Has, LockOps
  <2>2. /\ 1 \in DOMAIN t /\ t[1].op = "leave" /\ 2 \in DOMAIN t /\ t[2].op \in ops
        /\ \A i \in DOMAIN t : i > 2 => t[i].op \in Calm \cup LockOps
    BY <1>1, <2>1 DEF Has, Quiet
  <2>3. t[2] \in R
    BY <1>6, <2>2, InPend
  <2>4. ASSUME NEW k \in R PROVE k = t[2] \/ k.op \in Calm
    <3>1. PICK i \in DOMAIN t : t[i] = k /\ k.op \notin LockOps
      BY <2>4, InPend
    <3>2. i = 1 \/ i = 2 \/ i > 2
      BY <1>1, <3>1
    <3> QED
      BY <2>2, <3>1, <3>2 DEF LockOps
  <2> QED
    BY <2>2, <2>3, <2>4
<1>7. Users \cap LockOps = {} /\ Enders \cap LockOps = {}
  BY DEF Users, Enders, LockOps
<1>8. CASE s[1].op = "malloc2"
  <2>1. Around(s, "malloc2", Users)
    BY <1>1, <1>8 DEF Form, Quiet, Has, Around, Singles, Users, Enders, Calm, LockOps
  <2> QED
    BY <1>1, <1>3, <1>6, <1>7, <1>8, <2>1 DEF LockOps, t
<1>9. CASE s[1].op = "free2"
  <2>1. Around(s, "free2", Enders) \/ Quiet(s, 2)
    BY <1>1, <1>9 DEF Form, Quiet, Has, Around, Singles, Users, Enders, Calm, LockOps
  <2>2. Quiet(s, 2) => Quiet(t, 1)
    BY <1>1 DEF Quiet
  <2> QED
    BY <1>1, <1>3, <1>5, <1>6, <1>7, <1>9, <2>1, <2>2 DEF LockOps, t
<1>10. CASE s[1].op \notin {"malloc2", "free2"}
  BY <1>1, <1>2, <1>3, <1>5, <1>10 DEF t
<1> QED
  BY <1>8, <1>9, <1>10

(* A step on the lock taken away.                                           *)
LEMMA LockRest ==
  ASSUME NEW s, IsSeq(s), s # <<>>, Form(s), Head(s).op \in LockOps
  PROVE  /\ Pend(Tail(s)) = Pend(s)
         /\ Head(s).op = "leave" =>
              \/ \A k \in Pend(s) : k.op \in Calm
              \/ Tail(s) # <<>> /\ \A k \in Pend(s) : k = Head(Tail(s)) \/ k.op \in Calm
<1> DEFINE t == Tail(s)
           n == Len(s)
<1>1. n \in Nat /\ n > 0 /\ DOMAIN s = 1 .. n /\ DOMAIN t = 1 .. n - 1 /\ Head(s) = s[1]
      /\ IsSeq(t) /\ Len(t) = n - 1 /\ \A i \in 1 .. n - 1 : t[i] = s[i + 1]
  BY SeqParts
<1>2. t # <<>> => Head(t) = t[1]
  BY <1>1, SeqParts
<1> HIDE DEF t, n
<1>3. ASSUME NEW k \in Pend(s) PROVE \E i \in DOMAIN s : i > 1 /\ s[i] = k /\ k.op \notin LockOps
  <2>1. PICK i \in DOMAIN s : s[i] = k /\ k.op \notin LockOps
    BY <1>3, InPend
  <2>2. i # 1
    BY <1>1, <2>1
  <2> QED
    BY <1>1, <2>1, <2>2
<1>4. ASSUME NEW k \in Pend(s) PROVE k \in Pend(t)
  <2>1. PICK i \in DOMAIN s : i > 1 /\ s[i] = k /\ k.op \notin LockOps
    BY <1>3
  <2>2. i - 1 \in DOMAIN t /\ t[i - 1] = k
    BY <1>1, <2>1
  <2> QED
    BY <2>1, <2>2, InPend
<1>5. ASSUME NEW k \in Pend(t) PROVE k \in Pend(s)
  <2>1. PICK i \in DOMAIN t : t[i] = k /\ k.op \notin LockOps
    BY <1>5, InPend
  <2>2. i + 1 \in DOMAIN s /\ s[i + 1] = k
    BY <1>1, <2>1
  <2> QED
    BY <2>1, <2>2, InPend
<1>6. ASSUME s[1].op = "leave"
      PROVE  \/ \A k \in Pend(s) : k.op \in Calm
             \/ t # <<>> /\ \A k \in Pend(s) : k = Head(t) \/ k.op \in Calm
  <2>1. \/ Quiet(s, 1)
        \/ 2 \in DOMAIN s /\ Quiet(s, 3)
    BY <1>6 DEF Form, Has, Around, Singles, Users, Enders
  <2>2. CASE Quiet(s, 1)
    BY <1>1, <2>2, QuietCalm
  <2>3. CASE 2 \in DOMAIN s /\ Quiet(s, 3)
    <3>1. 1 \in DOMAIN t /\ t[1] = s[2]
      BY <1>1, <2>3
    <3>2. t # <<>>
      BY <1>1, <3>1
    <3>3. ASSUME NEW k \in Pend(s) PROVE k = s[2] \/ k.op \in Calm
      <4>1. PICK i \in DOMAIN s : i > 1 /\ s[i] = k /\ k.op \notin LockOps
        BY <1>3
      <4>2. i = 2 \/ i >= 3
        BY <1>1, <4>1
      <4> QED
        BY <2>3, <4>1, <4>2 DEF Quiet
    <3> QED
      BY <1>2, <3>1, <3>2, <3>3
  <2> QED
    BY <2>1, <2>2, <2>3
<1> QED
  BY <1>1, <1>4, <1>5, <1>6 DEF t

(* The parts of a concatenation.                                            *)
LEMMA ConcatParts ==
  ASSUME NEW m, NEW r, IsSeq(m), IsSeq(r)
  PROVE  LET t == m \o r IN
         /\ IsSeq(t) /\ Len(m) \in Nat /\ Len(r) \in Nat /\ Len(t) = Len(m) + Len(r)
         /\ DOMAIN m = 1 .. Len(m) /\ DOMAIN r = 1 .. Len(r) /\ DOMAIN t = 1 .. Len(m) + Len(r)
         /\ \A i \in 1 .. Len(m) : t[i] = m[i]
         /\ \A i \in 1 .. Len(m) + Len(r) : i > Len(m) => t[i] = r[i - Len(m)]
<1>1. PICK S, U : m \in Seq(S) /\ r \in Seq(U)
  BY DEF IsSeq
<1>2. m \in Seq(S \cup U) /\ r \in Seq(S \cup U)
  BY <1>1, SeqMonotonic
<1> DEFINE t == m \o r
<1>3. /\ t \in Seq(S \cup U) /\ Len(t) = Len(m) + Len(r)
      /\ \A i \in 1 .. Len(m) + Len(r) : t[i] = IF i <= Len(m) THEN m[i] ELSE r[i - Len(m)]
  BY <1>2, ConcatProperties
<1>4. Len(m) \in Nat /\ Len(r) \in Nat /\ DOMAIN m = 1 .. Len(m) /\ DOMAIN r = 1 .. Len(r)
      /\ DOMAIN t = 1 .. Len(t)
  BY <1>2, <1>3, LenProperties
<1> HIDE DEF t
<1>5. IsSeq(t)
  BY <1>3 DEF IsSeq
<1>6. /\ \A i \in 1 .. Len(m) : t[i] = m[i]
      /\ \A i \in 1 .. Len(m) + Len(r) : i > Len(m) => t[i] = r[i - Len(m)]
  BY <1>3, <1>4
<1> QED
  BY <1>3, <1>4, <1>5, <1>6 DEF t

(* Steps put in front of steps that only wait for their turn.               *)
LEMMA FormConcat ==
  ASSUME NEW m, NEW r, IsSeq(m), IsSeq(r)
  PROVE  /\ IsSeq(m \o r)
         /\ Pend(m \o r) = Pend(m) \cup Pend(r)
         /\ Quiet(r, 1) /\ Form(m) => Form(m \o r)
         /\ Quiet(r, 1) /\ Quiet(m, 1) => Quiet(m \o r, 1)
<1> DEFINE t == m \o r
<1>1. /\ IsSeq(t) /\ Len(m) \in Nat /\ Len(r) \in Nat /\ Len(t) = Len(m) + Len(r)
      /\ DOMAIN m = 1 .. Len(m) /\ DOMAIN r = 1 .. Len(r) /\ DOMAIN t = 1 .. Len(m) + Len(r)
      /\ \A i \in 1 .. Len(m) : t[i] = m[i]
      /\ \A i \in 1 .. Len(m) + Len(r) : i > Len(m) => t[i] = r[i - Len(m)]
  BY ConcatParts
<1> HIDE DEF t
<1>2. ASSUME NEW k \in Pend(t) PROVE k \in Pend(m) \cup Pend(r)
  <2>1. PICK i \in DOMAIN t : t[i] = k /\ k.op \notin LockOps
    BY <1>2, InPend
  <2>2. CASE i <= Len(m)
    <3>1. i \in DOMAIN m /\ m[i] = k
      BY <1>1, <2>1, <2>2
    <3> QED
      BY <2>1, <3>1, InPend
  <2>3. CASE i > Len(m)
    <3>1. i - Len(m) \in DOMAIN r /\ r[i - Len(m)] = k
      BY <1>1, <2>1, <2>3
    <3> QED
      BY <2>1, <3>1, InPend
  <2> QED
    BY <1>1, <2>1, <2>2, <2>3
<1>3. ASSUME NEW k \in Pend(m) PROVE k \in Pend(t)
  <2>1. PICK i \in DOMAIN m : m[i] = k /\ k.op \notin LockOps
    BY <1>3, InPend
  <2>2. i \in DOMAIN t /\ t[i] = k
    BY <1>1, <2>1
  <2> QED
    BY <2>1, <2>2, InPend
<1>4. ASSUME NEW k \in Pend(r) PROVE k \in Pend(t)
  <2>1. PICK i \in DOMAIN r : r[i] = k /\ k.op \notin LockOps
    BY <1>4, InPend
  <2>2. /\ i + Len(m) \in 1 .. Len(m) + Len(r) /\ i + Len(m) > Len(m)
        /\ (i + Len(m)) - Len(m) = i
    BY <1>1, <2>1
  <2>3. i + Len(m) \in DOMAIN t /\ t[i + Len(m)] = k
    BY <1>1, <2>1, <2>2
  <2> QED
    BY <2>1, <2>3, InPend
<1>5. ASSUME NEW i, NEW ops, Has(m, i, ops) PROVE Has(t, i, ops)
  BY <1>1, <1>5 DEF Has
<1>6. ASSUME NEW k \in Nat, Quiet(m, k), Quiet(r, 1) PROVE Quiet(t, k)
  <2> SUFFICES ASSUME NEW i \in DOMAIN t, i >= k PROVE t[i].op \in Calm \cup LockOps
    BY DEF Quiet
  <2>1. CASE i <= Len(m)
    BY <1>1, <1>6, <2>1 DEF Quiet
  <2>2. CASE i > Len(m)
    <3>1. i - Len(m) \in DOMAIN r /\ t[i] = r[i - Len(m)] /\ i - Len(m) >= 1
      BY <1>1, <2>2
    <3> QED
      BY <1>6, <3>1 DEF Quiet
  <2> QED
    BY <1>1, <2>1, <2>2
<1>7. ASSUME Quiet(r, 1)
      PROVE  /\ Quiet(m, 1) => Quiet(t, 1)
             /\ Quiet(m, 2) => Quiet(t, 2)
             /\ Quiet(m, 3) => Quiet(t, 3)
             /\ Quiet(m, 4) => Quiet(t, 4)
             /\ Quiet(m, 5) => Quiet(t, 5)
  BY <1>6, <1>7
<1>8. ASSUME Quiet(r, 1), NEW op, NEW ops, Around(m, op, ops) PROVE Around(t, op, ops)
  BY <1>5, <1>7, <1>8 DEF Around
<1>9. ASSUME Quiet(r, 1), Form(m) PROVE Form(t)
  BY <1>5, <1>7, <1>8, <1>9 DEF Form
<1> QED
  BY <1>1, <1>2, <1>3, <1>4, <1>7, <1>9 DEF t

(* The sequences that actions put in front.                                 *)
LEMMA FormSection ==
  ASSUME NEW k, k.op \notin LockOps
  PROVE  /\ IsSeq(Section(k)) /\ Pend(Section(k)) = {k}
         /\ k.op \in Calm => Quiet(Section(k), 1)
         /\ k.op \in Sections => Form(Section(k))
<1> DEFINE s == Section(k)
           S == {Enter, k, Exit}
<1>1. Enter.op = "enter" /\ Exit.op = "leave"
  BY DEF Enter, Exit, Step
<1>2. s \in Seq(S) /\ Len(s) = 3 /\ s[1] = Enter /\ s[2] = k /\ s[3] = Exit
  BY DEF Section
<1> HIDE DEF s, S
<1>3. IsSeq(s) /\ DOMAIN s = 1 .. 3
  BY <1>2, LenProperties DEF IsSeq
<1>4. \A i \in DOMAIN s : i \in {1, 2, 3}
  BY <1>3
<1>5. 1 \in DOMAIN s /\ 2 \in DOMAIN s /\ 3 \in DOMAIN s
  BY <1>3
<1>6. Pend(s) = {k}
  <2>1. k \in Pend(s)
    BY <1>2, <1>5, InPend
  <2>2. ASSUME NEW j \in Pend(s) PROVE j = k
    <3>1. PICK i \in DOMAIN s : s[i] = j /\ j.op \notin LockOps
      BY <2>2, InPend
    <3> QED
      BY <1>1, <1>2, <1>4, <3>1 DEF LockOps
  <2> QED
    BY <2>1, <2>2
<1>7. k.op \in Calm => Quiet(s, 1)
  BY <1>1, <1>2, <1>4 DEF Quiet, LockOps
<1>8. Has(s, 1, {"enter"}) /\ Quiet(s, 3)
  <2>1. \A i \in DOMAIN s : i >= 3 => i = 3
    BY <1>3
  <2> QED
    BY <1>1, <1>2, <1>5, <2>1 DEF Has, Quiet, LockOps
<1>9. k.op \in Sections => Form(s)
  BY <1>2, <1>5, <1>8 DEF Form, Has
<1> QED
  BY <1>3, <1>6, <1>7, <1>9 DEF s

(* A single step has the form of what a CPU has to do.                      *)
LEMMA FormOne ==
  ASSUME NEW k, k.op \notin LockOps
  PROVE  /\ IsSeq(<<k>>) /\ Pend(<<k>>) = {k}
         /\ k.op \in Calm => Quiet(<<k>>, 1)
         /\ k.op \in Singles => Form(<<k>>)
<1> DEFINE s == <<k>>
<1>1. s \in Seq({k}) /\ Len(s) = 1 /\ s[1] = k
  OBVIOUS
<1> HIDE DEF s
<1>2. IsSeq(s) /\ DOMAIN s = 1 .. 1
  BY <1>1, LenProperties DEF IsSeq
<1>3. 1 \in DOMAIN s /\ \A i \in DOMAIN s : i = 1
  BY <1>2
<1>4. Pend(s) = {k}
  BY <1>1, <1>3, InPend
<1>5. k.op \in Calm => Quiet(s, 1)
  BY <1>1, <1>3 DEF Quiet
<1>6. Quiet(s, 2)
  BY <1>3 DEF Quiet
<1>7. k.op \in Singles => Form(s)
  BY <1>1, <1>3, <1>6 DEF Form, Has
<1> QED
  BY <1>2, <1>4, <1>5, <1>7 DEF s

(* So has a step in a section followed by the one that uses or ends it.     *)
LEMMA FormPair ==
  ASSUME NEW k, NEW u, k.op \notin LockOps, u.op \notin LockOps
  PROVE  LET s == Section(k) \o <<u>> IN
         /\ IsSeq(s) /\ Pend(s) = {k, u}
         /\ k.op = "malloc2" /\ u.op \in Users => Form(s)
         /\ k.op = "free2" /\ u.op \in Enders => Form(s)
         /\ k.op \in Sections /\ u.op \in Calm => Form(s)
<1> DEFINE m == Section(k)
           r == <<u>>
           s == m \o r
<1>1. IsSeq(m) /\ IsSeq(r) /\ Pend(m) = {k} /\ Pend(r) = {u}
      /\ (u.op \in Calm => Quiet(r, 1)) /\ (k.op \in Sections => Form(m))
  BY FormSection, FormOne
<1>2. Len(m) = 3 /\ m[1] = Enter /\ m[2] = k /\ m[3] = Exit /\ Len(r) = 1 /\ r[1] = u
  BY DEF Section
<1>3. Enter.op = "enter" /\ Exit.op = "leave"
  BY DEF Enter, Exit, Step
<1> HIDE DEF m, r
<1>4. /\ IsSeq(s) /\ DOMAIN s = 1 .. 3 + 1
      /\ \A i \in 1 .. 3 : s[i] = m[i]
      /\ \A i \in 1 .. 3 + 1 : i > 3 => s[i] = r[i - 3]
  <2>1. /\ IsSeq(s) /\ DOMAIN s = 1 .. Len(m) + Len(r)
        /\ \A i \in 1 .. Len(m) : s[i] = m[i]
        /\ \A i \in 1 .. Len(m) + Len(r) : i > Len(m) => s[i] = r[i - Len(m)]
    BY <1>1, ConcatParts
  <2> HIDE DEF s
  <2> QED
    BY <1>2, <2>1
<1>5. Pend(s) = {k, u} /\ (k.op \in Sections /\ u.op \in Calm => Form(s))
  BY <1>1, FormConcat
<1> HIDE DEF s
<1>6. /\ 1 \in DOMAIN s /\ 2 \in DOMAIN s /\ 3 \in DOMAIN s /\ 4 \in DOMAIN s
      /\ s[1] = Enter /\ s[2] = k /\ s[3] = Exit /\ s[4] = u
      /\ \A i \in DOMAIN s : ~(i >= 5)
  <2>1. 4 \in 1 .. 3 + 1 /\ 4 - 3 = 1
    OBVIOUS
  <2>2. s[4] = r[1]
    BY <1>4, <2>1
  <2> QED
    BY <1>2, <1>4, <2>2
<1>7. ASSUME NEW op, NEW ops, k.op = op, u.op \in ops PROVE Around(s, op, ops)
  BY <1>3, <1>6, <1>7 DEF Around, Has, Quiet
<1> QED
  BY <1>4, <1>5, <1>7 DEF Form, s, m, r

(* What only the CPU that has the lock has still to do.                     *)
Rare == {"free2", "firstlist", "movelist", "setlist", "moveinfo", "setinfo", "clear"}
Rarely(c) == \E k \in Pend(todo[c]) : k.op \in Rare

ShapeInv == \A c \in CPUs : Form(todo[c]) /\ (Rarely(c) => Level(c) > 0)

Rest(c) == Pend(Tail(todo[c]))

(* c does its first step, of kind op, and puts the steps M in its place.    *)
View(c, op, M) ==
  /\ Head(todo[c]).op = op
  /\ Pend(todo[c]) = {Head(todo[c])} \cup Rest(c)
  /\ Pend(todo'[c]) = M \cup Rest(c)
  /\ \A d \in CPUs \ {c} : todo'[d] = todo[d]
  /\ op = "malloc2" => \E u \in Rest(c) : u.op \in Users /\ \A k \in Rest(c) : k = u \/ k.op \in Calm
  /\ op = "free2" => \/ \A k \in Rest(c) : k.op \in Calm
                     \/ \E u \in Rest(c) : u.op \in Enders /\ \A k \in Rest(c) : k = u \/ k.op \in Calm
  /\ op \notin {"malloc2", "free2"} => \A k \in Rest(c) : k.op \in Calm
  /\ op \in Guarded => \A d \in CPUs \ {c} : ~Rarely(d)

(* Nothing to do has the form, too.                                         *)
LEMMA EmptyForm == IsSeq(<<>>) /\ Pend(<<>>) = {} /\ Form(<<>>) /\ Quiet(<<>>, 1)
<1>1. <<>> \in Seq({}) /\ DOMAIN <<>> = {}
  OBVIOUS
<1>2. IsSeq(<<>>)
  BY <1>1 DEF IsSeq
<1>3. Pend(<<>>) = {}
  BY <1>1, InPend
<1>4. Quiet(<<>>, 1)
  BY <1>1 DEF Quiet
<1> QED
  BY <1>2, <1>3, <1>4 DEF Form

(* Only the CPU that is inside AllocCS can have a rare step still to do.    *)
LEMMA OneIsRare ==
  ASSUME LockInv, ShapeInv, NEW c \in CPUs, NEW d \in CPUs, depth[c] > 0, Rarely(d)
  PROVE  d = c
<1>1. Level(d) > 0
  BY DEF ShapeInv
<1>2. Holds(c) /\ Holds(d)
  <2>1. depth[d] \in Nat /\ at[d] \in {"out", "spin", "count", "own", "disown", "unlock", "hung"}
    BY DEF LockInv, CSTypeOK
  <2> QED
    BY <1>1, <2>1 DEF Level, Holds
<1> QED
  BY <1>2 DEF LockInv, HolderInv

(* A step that works keeps the shape, and what is pending changes as View   *)
(* says.                                                                    *)
LEMMA WorkView ==
  ASSUME LockInv, LevelInv, ShapeInv, NEW c \in CPUs, NEW op, NEW more,
         Doing(c, op), Done(c, more), op \notin LockOps, UNCHANGED csVars,
         IsSeq(more), Form(more), op \in {"malloc2", "free2"} => more = <<>>,
         op \notin Guarded => \A k \in Pend(more) : k.op \notin Rare
  PROVE  ShapeInv' /\ View(c, op, Pend(more))
<1> DEFINE s == todo[c]
           r == Tail(s)
<1>1. s # <<>> /\ Head(s).op = op /\ at[c] = "out" /\ IsSeq(s) /\ Leads(s, Level(c), 0)
      /\ DOMAIN todo = CPUs /\ Form(s)
  BY DEF Doing, LevelInv, ShapeInv
<1>2. todo'[c] = more \o r /\ \A d \in CPUs \ {c} : todo'[d] = todo[d]
  BY <1>1 DEF Done
<1>3. op \in Guarded => depth[c] > 0
  <2>1. Level(c) = depth[c]
    BY <1>1 DEF Level, LockInv, CSTypeOK
  <2> HIDE DEF s
  <2> QED
    BY <1>1, <2>1, LeadsTail
<1>4. /\ Pend(s) = {Head(s)} \cup Pend(r)
      /\ Head(s).op = "malloc2" =>
           \E u \in Pend(r) : u.op \in Users /\ \A k \in Pend(r) : k = u \/ k.op \in Calm
      /\ Head(s).op = "free2" =>
           \/ \A k \in Pend(r) : k.op \in Calm
           \/ \E u \in Pend(r) : u.op \in Enders /\ \A k \in Pend(r) : k = u \/ k.op \in Calm
      /\ Head(s).op \notin {"malloc2", "free2"} => \A k \in Pend(r) : k.op \in Calm
  <2> HIDE DEF s
  <2> QED
    BY <1>1, FormRest
<1>5. Form(r) /\ IsSeq(r) /\ (op \notin {"malloc2", "free2"} => Quiet(r, 1))
  <2> HIDE DEF s
  <2> QED
    BY <1>1, FormTail, SeqParts
<1>6. Pend(todo'[c]) = Pend(more) \cup Pend(r)
  <2> HIDE DEF r
  <2> QED
    BY <1>2, <1>5, FormConcat
<1>7. Form(todo'[c])
  <2>1. CASE op \in {"malloc2", "free2"}
    <3>1. <<>> \o r = r
      BY <1>5, EmptyConcat
    <3> QED
      BY <1>2, <1>5, <2>1, <3>1
  <2>2. CASE op \notin {"malloc2", "free2"}
    <3> HIDE DEF r
    <3> QED
      BY <1>2, <1>5, <2>2, FormConcat
  <2> QED
    BY <2>1, <2>2
<1>8. \A d \in CPUs : Level(d)' = Level(d)
  BY DEF Level, csVars
<1>9. Rarely(c)' => Level(c)' > 0
  <2>1. CASE op \in Guarded
    <3>1. Level(c) = depth[c]
      BY <1>1 DEF Level, LockInv, CSTypeOK
    <3> QED
      BY <1>3, <1>8, <2>1, <3>1
  <2>2. CASE op \notin Guarded
    <3>1. op \notin {"malloc2", "free2"}
      BY <2>2 DEF Guarded
    <3>2. \A k \in Pend(more) \cup Pend(r) : k.op \notin Rare
      BY <1>1, <1>4, <2>2, <3>1 DEF Calm, Rare
    <3> QED
      BY <1>6, <3>2 DEF Rarely
  <2> QED
    BY <2>1, <2>2
<1>10. ShapeInv'
  <2>1. ASSUME NEW d \in CPUs \ {c} PROVE Form(todo'[d]) /\ (Rarely(d)' => Level(d)' > 0)
    BY <1>2, <1>8 DEF ShapeInv, Rarely
  <2> QED
    BY <1>7, <1>9, <2>1 DEF ShapeInv
<1>11. op \in Guarded => \A d \in CPUs \ {c} : ~Rarely(d)
  BY <1>3, OneIsRare
<1> QED
  BY <1>1, <1>2, <1>4, <1>6, <1>10, <1>11 DEF View, Rest

(* Steps of csEnter and csLeave leave the work that is still to do alone.   *)
LEMMA LockView ==
  ASSUME LockInv, LevelInv, ShapeInv, NEW c \in CPUs, Lock(c), LevelInv'
  PROVE  ShapeInv' /\ \A d \in CPUs : Pend(todo'[d]) = Pend(todo[d])
<1> DEFINE s == todo[c]
           t == todo'[c]
<1>1. s # <<>> /\ IsSeq(s) /\ Form(s) /\ DOMAIN todo = CPUs /\ IsSeq(t) /\ Leads(t, Level(c)', 0)
  BY DEF Lock, LevelInv, ShapeInv
<1>2. /\ AtInv(c) /\ at[c] \in {"out", "spin", "count", "own", "disown", "unlock", "hung"}
      /\ depth[c] \in Nat /\ DOMAIN at = CPUs /\ DOMAIN depth = CPUs
  BY DEF LevelInv, LockInv, CSTypeOK
<1>3. ASSUME NEW d \in CPUs \ {c}
      PROVE  at'[d] = at[d] /\ depth'[d] = depth[d] /\ todo'[d] = todo[d]
  BY <1>1, <1>2 DEF Lock, Entering, Entered, Leaving, Left, Wait, spinlock, SetCount, Reenter,
     SetOwner, Leave, ClearOwner, Unlock, Done
<1>4. SUFFICES Form(t) /\ Pend(t) = Pend(s) /\ (Rarely(c)' => Level(c)' > 0)
  <2>1. ASSUME NEW d \in CPUs \ {c}
        PROVE  Form(todo'[d]) /\ (Rarely(d)' => Level(d)' > 0) /\ Pend(todo'[d]) = Pend(todo[d])
    BY <1>3 DEF ShapeInv, Rarely, Level
  <2> QED
    BY <1>4, <2>1 DEF ShapeInv
<1>5. ASSUME Done(c, <<>>), Head(s).op \in LockOps
      PROVE  t = Tail(s) /\ Form(t) /\ Pend(t) = Pend(s)
  <2>1. t = <<>> \o Tail(s)
    BY <1>1, <1>5 DEF Done
  <2> HIDE DEF s, t
  <2>2. t = Tail(s)
    BY <1>1, <2>1, EmptyConcat, SeqParts
  <2> QED
    BY <1>1, <1>5, <2>2, FormTail, LockRest
<1>6. Rarely(c) => Level(c) > 0
  BY DEF ShapeInv
<1>7. CASE Head(s).op = "enter" /\ Entering(c) /\ UNCHANGED todo
  <2>1. at'[c] \in {"spin", "count", "own"} /\ depth' = depth /\ at[c] \in {"out", "spin", "count"}
    BY <1>2, <1>7 DEF Entering, Wait, spinlock, SetCount
  <2>2. Level(c)' = Level(c)
    BY <2>1 DEF Level
  <2> QED
    BY <1>1, <1>6, <1>7, <2>2 DEF Rarely
<1>8. CASE Head(s).op = "enter" /\ Entered(c) /\ Done(c, <<>>)
  <2>1. at'[c] = "out" /\ depth'[c] = depth[c] + 1
    BY <1>2, <1>8 DEF Entered, Reenter, SetOwner
  <2>2. Level(c)' > 0
    BY <1>2, <2>1 DEF Level
  <2> QED
    BY <1>5, <1>8, <2>2 DEF LockOps
<1>9. CASE Head(s).op = "leave" /\ Leaving(c) /\ UNCHANGED todo
  <2>1. CASE Leave(c) /\ at'[c] # "out"
    <3>1. CASE at'[c] = "disown"
      <4>1. depth'[c] \in Nat
        <5>1. depth[c] > 0
          <6>1. /\ Leads(s, Level(c), 0) /\ at[c] = "out"
            BY <2>1 DEF LevelInv, Leave
          <6>2. Level(c) = depth[c]
            BY <1>2, <6>1 DEF Level
          <6> HIDE DEF s
          <6> QED
            BY <1>1, <1>9, <6>1, <6>2, LeadsTail
        <5> QED
          BY <1>2, <2>1, <3>1, <5>1 DEF Leave
      <4>2. Level(c)' > 0
        BY <3>1, <4>1 DEF Level
      <4> QED
        BY <1>1, <1>9, <4>2
    <3>2. CASE at'[c] # "disown"
      <4>1. at'[c] = "hung"
        BY <1>2, <2>1, <3>2 DEF Leave
      <4>2. AtInv(c)'
        BY DEF LevelInv
      <4> QED
        BY <4>1, <4>2 DEF AtInv
    <3> QED
      BY <3>1, <3>2
  <2>2. CASE ClearOwner(c)
    <3>1. at'[c] = "unlock" /\ depth' = depth
      BY <1>2, <2>2 DEF ClearOwner
    <3>2. Level(c)' > 0
      BY <1>2, <3>1 DEF Level
    <3> QED
      BY <1>1, <1>9, <3>2
  <2> QED
    BY <1>9, <2>1, <2>2 DEF Leaving
<1>10. CASE Head(s).op = "leave" /\ Left(c) /\ Done(c, <<>>)
  <2>1. t = Tail(s) /\ Form(t) /\ Pend(t) = Pend(s)
    BY <1>5, <1>10 DEF LockOps
  <2>2. \/ \A k \in Pend(s) : k.op \in Calm
        \/ t # <<>> /\ \A k \in Pend(s) : k = Head(t) \/ k.op \in Calm
    <3> HIDE DEF s
    <3> QED
      BY <1>1, <1>10, <2>1, LockRest DEF LockOps
  <2>3. ASSUME NEW k \in Pend(s), k.op \in Rare PROVE Level(c)' > 0
    <3>1. t # <<>> /\ Head(t).op \in Guarded
      BY <2>2, <2>3 DEF Calm, Rare, Guarded
    <3> HIDE DEF t
    <3> QED
      BY <1>1, <3>1, LeadsTail
  <2> QED
    BY <2>1, <2>3 DEF Rarely
<1> QED
  BY <1>7, <1>8, <1>9, <1>10 DEF Lock

(* The work of a CPU, as what it takes from the steps still to do and adds. *)
LEMMA WorkViews ==
  ASSUME LockInv, LevelInv, ShapeInv, NEW c \in CPUs, Work(c)
  PROVE  LET s == Head(todo[c])
             b == s.base
             n == s.size
         IN
         /\ ShapeInv'
         /\ DoMalloc2(c) => View(c, "malloc2", {})
         /\ DoFree2(c) => View(c, "free2", {})
         /\ Record(c) =>
              View(c, "record", IF ret[c] = NULL THEN {}
                                ELSE {Step("insert", ret[c], n), Step("result", ret[c], n)})
         /\ InsertFirst(c) =>
              View(c, "insert", {Step("malloc2", NULL, ItemBlocks(InitItems)), Step("firstlist", b, n)})
         /\ FirstList(c) => View(c, "firstlist", {})
         /\ Insert(c) =>
              View(c, "insert",
                   IF Len(list'.items) > Len(list.items) /\ IsFull(Len(list'.items))
                   THEN {Step("malloc2", NULL, ItemBlocks(2 * list.max)), Step("movelist", NULL, 0)}
                   ELSE {})
         /\ MoveList(c) =>
              View(c, "movelist", (IF ret[c] = NULL THEN {}
                                   ELSE {Step("free2", list.base, ItemBlocks(list.max))})
                                  \cup {Step("setlist", ret[c], 0)})
         /\ SetList(c) => View(c, "setlist", {})
         /\ Result(c) => View(c, "result", {})
         /\ Return(c) => View(c, "return", {})
         /\ Unlink(c) =>
              View(c, "unlink", IF Searchable /\ Found(b)
                                THEN {Step("free2", b, list.items[Closest(b)].size), Step("clear", b, 0)}
                                ELSE {})
         /\ Clear(c) => View(c, "clear", {})
         /\ Resize(c) =>
              View(c, "resize", IF Searchable /\ Found(b)
                                THEN {Step("malloc2", NULL, n), Step("record", NULL, n),
                                      Step("copymem", NULL, 0), Step("unlink", b, 0)}
                                ELSE {Step("error", NULL, 0)})
         /\ Copymem(c) => View(c, "copymem", {})
         /\ AddTable(c) => View(c, "addpage", {})
         /\ AddPage(c) =>
              View(c, "addpage", IF pages' >= infoMax
                                 THEN {Step("malloc2", NULL, InfoBlocks(2 * infoMax)), Step("moveinfo", NULL, 0)}
                                 ELSE {})
         /\ MoveInfo(c) =>
              View(c, "moveinfo", {Step("free2", infoBase, InfoBlocks(infoMax)), Step("setinfo", ret[c], 0)})
         /\ SetInfo(c) => View(c, "setinfo", {Step("free2", infoBase, InfoBlocks(infoMax))})
<1> DEFINE s == Head(todo[c])
           b == s.base
           n == s.size
<1> USE DEF Users, Enders, Calm, LockOps, Singles, Sections, Step
<1>1. IsSeq(<<>>) /\ Pend(<<>>) = {} /\ Form(<<>>)
  BY EmptyForm
<1>2. ASSUME NEW op, Doing(c, op), Done(c, <<>>), op \notin LockOps, UNCHANGED csVars
      PROVE  ShapeInv' /\ View(c, op, {})
  <2>1. \A k \in Pend(<<>>) : k.op \notin Rare
    BY <1>1
  <2> QED
    BY <1>1, <1>2, <2>1, WorkView
<1>3. ASSUME NEW op, NEW more, Doing(c, op), Done(c, more), UNCHANGED csVars, IsSeq(more), Form(more),
             op \in {"insert", "movelist", "moveinfo", "unlink", "resize", "addpage", "setinfo"}
      PROVE  ShapeInv' /\ View(c, op, Pend(more))
  <2>1. op \notin LockOps /\ op \in Guarded /\ op \notin {"malloc2", "free2"}
    BY <1>3 DEF Guarded
  <2> HIDE DEF LockOps
  <2> QED
    BY <1>3, <2>1, WorkView
<1>4. ASSUME DoMalloc2(c) PROVE ShapeInv' /\ View(c, "malloc2", {})
  BY <1>2, <1>4 DEF DoMalloc2
<1>5. ASSUME DoFree2(c) PROVE ShapeInv' /\ View(c, "free2", {})
  BY <1>2, <1>5 DEF DoFree2
<1>6. ASSUME FirstList(c) PROVE ShapeInv' /\ View(c, "firstlist", {})
  BY <1>2, <1>6 DEF FirstList
<1>7. ASSUME SetList(c) PROVE ShapeInv' /\ View(c, "setlist", {})
  BY <1>2, <1>7 DEF SetList
<1>8. ASSUME Result(c) PROVE ShapeInv' /\ View(c, "result", {})
  BY <1>2, <1>8 DEF Result
<1>9. ASSUME Return(c) PROVE ShapeInv' /\ View(c, "return", {})
  BY <1>2, <1>9 DEF Return
<1>10. ASSUME Clear(c) PROVE ShapeInv' /\ View(c, "clear", {})
  BY <1>2, <1>10 DEF Clear
<1>11. ASSUME Copymem(c) PROVE ShapeInv' /\ View(c, "copymem", {})
  BY <1>2, <1>11 DEF Copymem
<1>12. ASSUME AddTable(c) PROVE ShapeInv' /\ View(c, "addpage", {})
  BY <1>2, <1>12 DEF AddTable
<1>13. ASSUME Record(c)
       PROVE  /\ ShapeInv'
              /\ View(c, "record", IF ret[c] = NULL THEN {}
                                   ELSE {Step("insert", ret[c], n), Step("result", ret[c], n)})
  <2> DEFINE full == Section(Step("insert", ret[c], n)) \o <<Step("result", ret[c], n)>>
  <2>1. Doing(c, "record") /\ UNCHANGED csVars
        /\ Done(c, IF ret[c] = NULL THEN <<>> ELSE full)
    BY <1>13 DEF Record
  <2>2. IsSeq(full) /\ Form(full) /\ Pend(full) = {Step("insert", ret[c], n), Step("result", ret[c], n)}
    BY FormPair
  <2> HIDE DEF full
  <2>3. CASE ret[c] = NULL
    BY <1>2, <2>1, <2>3
  <2>4. CASE ret[c] # NULL
    <3>1. \A k \in Pend(full) : k.op \notin Rare
      BY <2>2 DEF Rare
    <3> QED
      BY <2>1, <2>2, <2>4, <3>1, WorkView
  <2> QED
    BY <2>3, <2>4
<1>14. ASSUME InsertFirst(c)
       PROVE  /\ ShapeInv'
              /\ View(c, "insert", {Step("malloc2", NULL, ItemBlocks(InitItems)),
                                    Step("firstlist", b, n)})
  <2> DEFINE k == Step("malloc2", NULL, ItemBlocks(InitItems))
             u == Step("firstlist", b, n)
             more == Section(k) \o <<u>>
  <2>1. Doing(c, "insert") /\ UNCHANGED csVars /\ Done(c, more)
    BY <1>14 DEF InsertFirst, malloc2
  <2>2. IsSeq(more) /\ Form(more) /\ Pend(more) = {k, u}
    BY FormPair
  <2> HIDE DEF more
  <2> QED
    BY <1>3, <2>1, <2>2
<1>15. ASSUME Insert(c)
       PROVE  /\ ShapeInv'
              /\ View(c, "insert",
                      IF Len(list'.items) > Len(list.items) /\ IsFull(Len(list'.items))
                      THEN {Step("malloc2", NULL, ItemBlocks(2 * list.max)), Step("movelist", NULL, 0)}
                      ELSE {})
  <2> DEFINE k == Step("malloc2", NULL, ItemBlocks(2 * list.max))
             u == Step("movelist", NULL, 0)
             more == Section(k) \o <<u>>
             items == WithEntry(list.items, [base |-> s.base, size |-> s.size])
  <2>1. Doing(c, "insert") /\ UNCHANGED csVars /\ list' = [list EXCEPT !.items = items]
        /\ Done(c, IF Len(items) > Len(list.items) /\ IsFull(Len(items)) THEN more ELSE <<>>)
    BY <1>15 DEF Insert, malloc2
  <2>2. IsSeq(more) /\ Form(more) /\ Pend(more) = {k, u}
    BY FormPair
  <2> DEFINE grows == Len(items) > Len(list.items) /\ IsFull(Len(items))
  <2> HIDE DEF more, items
  <2>3. list'.items = items
    BY <2>1
  <2>4. CASE grows
    <3>1. Done(c, more)
      BY <2>1, <2>4
    <3> QED
      BY <1>3, <2>1, <2>2, <2>3, <2>4, <3>1
  <2>5. CASE ~grows
    <3>1. Done(c, <<>>)
      BY <2>1, <2>5
    <3> QED
      BY <1>2, <2>1, <2>3, <2>5, <3>1
  <2> QED
    BY <2>4, <2>5
<1>16. ASSUME MoveList(c)
       PROVE  /\ ShapeInv'
              /\ View(c, "movelist", (IF ret[c] = NULL THEN {}
                                      ELSE {Step("free2", list.base, ItemBlocks(list.max))})
                                     \cup {Step("setlist", ret[c], 0)})
  <2> DEFINE k == Step("free2", list.base, ItemBlocks(list.max))
             u == Step("setlist", ret[c], 0)
             more == Section(k) \o <<u>>
  <2>1. Doing(c, "movelist") /\ UNCHANGED csVars
        /\ Done(c, (IF ret[c] = NULL THEN <<>> ELSE Section(k)) \o <<u>>)
    BY <1>16 DEF MoveList, free2
  <2>2. IsSeq(more) /\ Form(more) /\ Pend(more) = {k, u}
    BY FormPair
  <2>3. IsSeq(<<u>>) /\ Form(<<u>>) /\ Pend(<<u>>) = {u}
    BY FormOne
  <2>4. CASE ret[c] = NULL
    <3>1. <<>> \o <<u>> = <<u>>
      BY <2>3, EmptyConcat
    <3>2. Done(c, <<u>>)
      BY <2>1, <2>4, <3>1
    <3>3. ShapeInv' /\ View(c, "movelist", Pend(<<u>>))
      <4> HIDE DEF u
      <4> QED
        BY <1>3, <2>1, <2>3, <3>2
    <3> QED
      BY <2>3, <2>4, <3>3
  <2>5. CASE ret[c] # NULL
    <3>1. Done(c, more)
      BY <2>1, <2>5
    <3>2. ShapeInv' /\ View(c, "movelist", Pend(more))
      <4> HIDE DEF more
      <4> QED
        BY <1>3, <2>1, <2>2, <3>1
    <3> QED
      BY <2>2, <2>5, <3>2
  <2> QED
    BY <2>4, <2>5
<1>17. ASSUME Unlink(c)
       PROVE  /\ ShapeInv'
              /\ View(c, "unlink", IF Searchable /\ Found(b)
                                   THEN {Step("free2", b, list.items[Closest(b)].size), Step("clear", b, 0)}
                                   ELSE {})
  <2> DEFINE k == Step("free2", b, list.items[Closest(b)].size)
             u == Step("clear", b, 0)
             more == Section(k) \o <<u>>
  <2>1. Doing(c, "unlink") /\ UNCHANGED csVars
        /\ Done(c, IF Searchable /\ Found(b) THEN more ELSE <<>>)
    BY <1>17 DEF Unlink, free2
  <2>2. IsSeq(more) /\ Form(more) /\ Pend(more) = {k, u}
    BY FormPair
  <2> HIDE DEF more
  <2>3. CASE Searchable /\ Found(b)
    <3>1. Done(c, more)
      BY <2>1, <2>3
    <3> QED
      BY <1>3, <2>1, <2>2, <2>3, <3>1
  <2>4. CASE ~(Searchable /\ Found(b))
    <3>1. Done(c, <<>>)
      BY <2>1, <2>4
    <3> QED
      BY <1>2, <2>1, <2>4, <3>1
  <2> QED
    BY <2>3, <2>4
<1>18. ASSUME Resize(c)
       PROVE  /\ ShapeInv'
              /\ View(c, "resize", IF Searchable /\ Found(b)
                                   THEN {Step("malloc2", NULL, n), Step("record", NULL, n),
                                         Step("copymem", NULL, 0), Step("unlink", b, 0)}
                                   ELSE {Step("error", NULL, 0)})
  <2> DEFINE k == Step("malloc2", NULL, n)
             u == Step("record", NULL, n)
             v == Step("copymem", NULL, 0)
             w == Step("unlink", b, 0)
             e == Step("error", NULL, 0)
             m == Section(k) \o <<u>>
             more == (m \o <<v>>) \o Section(w)
  <2>1. Doing(c, "resize") /\ UNCHANGED csVars
        /\ Done(c, IF Searchable /\ Found(b) THEN more ELSE <<e>>)
    BY <1>18 DEF Resize, malloc, malloc2, free
  <2>2. IsSeq(m) /\ Form(m) /\ Pend(m) = {k, u}
    BY FormPair
  <2>3. /\ IsSeq(<<v>>) /\ Quiet(<<v>>, 1) /\ Pend(<<v>>) = {v}
        /\ IsSeq(Section(w)) /\ Quiet(Section(w), 1) /\ Pend(Section(w)) = {w}
        /\ IsSeq(<<e>>) /\ Form(<<e>>) /\ Pend(<<e>>) = {e}
    BY FormOne, FormSection
  <2>4. IsSeq(m \o <<v>>) /\ Form(m \o <<v>>) /\ Pend(m \o <<v>>) = {k, u} \cup {v}
    <3> HIDE DEF m, v
    <3> QED
      BY <2>2, <2>3, FormConcat
  <2>5. IsSeq(more) /\ Form(more) /\ Pend(more) = ({k, u} \cup {v}) \cup {w}
    <3> DEFINE a == m \o <<v>>
    <3> HIDE DEF a, w
    <3>1. IsSeq(a) /\ Form(a) /\ Pend(a) = {k, u} \cup {v}
      BY <2>4 DEF a
    <3>2. IsSeq(a \o Section(w)) /\ Form(a \o Section(w))
          /\ Pend(a \o Section(w)) = ({k, u} \cup {v}) \cup {w}
      BY <2>3, <3>1, FormConcat
    <3> QED
      BY <3>2 DEF a
  <2> HIDE DEF more
  <2>6. CASE Searchable /\ Found(b)
    <3>1. Done(c, more)
      BY <2>1, <2>6
    <3>2. ShapeInv' /\ View(c, "resize", Pend(more))
      BY <1>3, <2>1, <2>5, <3>1
    <3>3. Pend(more) = {k, u, v, w}
      BY <2>5
    <3> QED
      BY <2>6, <3>2, <3>3
  <2>7. CASE ~(Searchable /\ Found(b))
    <3>1. Done(c, <<e>>)
      BY <2>1, <2>7
    <3>2. ShapeInv' /\ View(c, "resize", Pend(<<e>>))
      BY <1>3, <2>1, <2>3, <3>1
    <3> QED
      BY <2>3, <2>7, <3>2
  <2> QED
    BY <2>6, <2>7
<1>19. ASSUME AddPage(c)
       PROVE  /\ ShapeInv'
              /\ View(c, "addpage", IF pages' >= infoMax
                                    THEN {Step("malloc2", NULL, InfoBlocks(2 * infoMax)),
                                          Step("moveinfo", NULL, 0)}
                                    ELSE {})
  <2> DEFINE k == Step("malloc2", NULL, InfoBlocks(2 * infoMax))
             u == Step("moveinfo", NULL, 0)
             more == Section(k) \o <<u>>
  <2>1. Doing(c, "addpage") /\ UNCHANGED csVars /\ Done(c, IF pages' >= infoMax THEN more ELSE <<>>)
    BY <1>19 DEF AddPage, malloc2
  <2>2. IsSeq(more) /\ Form(more) /\ Pend(more) = {k, u}
    BY FormPair
  <2> HIDE DEF more
  <2>3. CASE pages' >= infoMax
    <3>1. Done(c, more)
      BY <2>1, <2>3
    <3> QED
      BY <1>3, <2>1, <2>2, <2>3, <3>1
  <2>4. CASE ~(pages' >= infoMax)
    <3>1. Done(c, <<>>)
      BY <2>1, <2>4
    <3> QED
      BY <1>2, <2>1, <2>4, <3>1
  <2> QED
    BY <2>3, <2>4
<1>20. ASSUME MoveInfo(c)
       PROVE  /\ ShapeInv'
              /\ View(c, "moveinfo", {Step("free2", infoBase, InfoBlocks(infoMax)),
                                      Step("setinfo", ret[c], 0)})
  <2> DEFINE k == Step("free2", infoBase, InfoBlocks(infoMax))
             u == Step("setinfo", ret[c], 0)
             more == Section(k) \o <<u>>
  <2>1. Doing(c, "moveinfo") /\ UNCHANGED csVars /\ Done(c, more)
    BY <1>20 DEF MoveInfo, free2
  <2>2. IsSeq(more) /\ Form(more) /\ Pend(more) = {k, u}
    BY FormPair
  <2> HIDE DEF more
  <2> QED
    BY <1>3, <2>1, <2>2
<1>21. ASSUME SetInfo(c)
       PROVE  ShapeInv' /\ View(c, "setinfo", {Step("free2", infoBase, InfoBlocks(infoMax))})
  <2> DEFINE k == Step("free2", infoBase, InfoBlocks(infoMax))
  <2>1. Doing(c, "setinfo") /\ UNCHANGED csVars /\ Done(c, Section(k))
    BY <1>21 DEF SetInfo, free2
  <2>2. IsSeq(Section(k)) /\ Form(Section(k)) /\ Pend(Section(k)) = {k}
    BY FormSection
  <2> QED
    BY <1>3, <2>1, <2>2
<1> HIDE DEF s, b, n
<1>22. ShapeInv'
  BY <1>4, <1>5, <1>6, <1>7, <1>8, <1>9, <1>10, <1>11, <1>12, <1>13, <1>14, <1>15, <1>16, <1>17,
     <1>18, <1>19, <1>20, <1>21 DEF Work
<1> QED
  BY <1>4, <1>5, <1>6, <1>7, <1>8, <1>9, <1>10, <1>11, <1>12, <1>13, <1>14, <1>15, <1>16, <1>17,
     <1>18, <1>19, <1>20, <1>21, <1>22 DEF s, b, n

-----------------------------------------------------------------------------
(* Types                                                                    *)

Chunk(b, n) == [base |-> b, size |-> n]
Chunks == [base : Nat, size : Nat]

(* A chunk that begins in a memory of p pages.                              *)
Legit(x, p) ==
  /\ x.base \in Nat /\ x.base < p * PageBlocks
  /\ x.size \in Nat \ {0}

Due(ops) == \E c \in CPUs : \E k \in Pend(todo[c]) : k.op \in ops

(* What the user of malloc2's result has asked for, with lists of l entries *)
(* and of bits for m pages.                                                 *)
Amount(k, l, m) ==
  CASE k.op = "record" -> k.size
    [] k.op = "firstlist" -> ItemBlocks(InitItems)
    [] k.op = "movelist" -> ItemBlocks(2 * l)
    [] OTHER -> InfoBlocks(2 * m)

Waits(Q) == \E k \in Q : k.op = "malloc2"

(* Step k of the steps Q of a CPU with the result r, in a memory of p       *)
(* pages.                                                                   *)
StepT(k, Q, r, p, l, m, f) ==
  /\ k.base \in Int /\ k.size \in Nat
  /\ k.op \in {"record", "malloc2", "resize", "return"} => k.size > 0
  /\ k.op \in {"insert", "firstlist", "free2", "result"} => Legit(Chunk(k.base, k.size), p)
  /\ k.op = "malloc2" => \A u \in Q : u.op \in Users => k.size = Amount(u, l, m)
  /\ k.op = "setlist" /\ k.base # NULL => Legit(Chunk(k.base, ItemBlocks(2 * l)), p)
  /\ k.op = "setinfo" /\ ~f => Legit(Chunk(k.base, InfoBlocks(2 * m)), p)
  /\ k.op \in Users /\ ~Waits(Q) /\ r # NULL => Legit(Chunk(r, Amount(k, l, m)), p)

RetT(r, p) == r = NULL \/ (r \in Nat /\ r < p * PageBlocks)

StepsT ==
  /\ DOMAIN ret = CPUs
  /\ \A c \in CPUs :
       /\ RetT(ret[c], pages)
       /\ \A k \in Pend(todo[c]) :
            StepT(k, Pend(todo[c]), ret[c], pages, list.max, infoMax, fault)

Info == Chunk(infoBase, InfoBlocks(infoMax))
List == Chunk(list.base, ItemBlocks(list.max))

PagesT ==
  /\ pages \in InitPages .. MaxPages
  /\ \E k \in Nat \ {0} : infoMax = k * InitInfoMax
  /\ IF Due({"moveinfo", "setinfo"}) THEN pages = infoMax ELSE pages < infoMax
  /\ used \subseteq Blocks(0, infoMax * PageBlocks)
  /\ copied \subseteq Blocks(0, infoMax * PageBlocks)
  /\ Legit(Info, pages)

ListT ==
  /\ list \in [base : Int, max : Nat, items : Seq(Chunks)]
  /\ list.base # NULL => list.max >= ItemsPerBlock /\ Legit(List, pages)
  /\ Due({"movelist", "setlist"}) => list.base # NULL
  /\ IF list.base = NULL \/ Due({"movelist", "setlist"})
     THEN Len(list.items) <= list.max ELSE Len(list.items) < list.max
  /\ \A i \in DOMAIN list.items : list.items[i].size # 0 => Legit(list.items[i], pages)

HeapT == \A x \in heap \cup live : x \in Chunks /\ x.base < pages * PageBlocks

TInv == StepsT /\ PagesT /\ ListT /\ HeapT

(* The least element of a nonempty set of numbers, as malloc2 takes the     *)
(* first hole.                                                              *)
LEMMA MinIn ==
  ASSUME NEW S \in SUBSET Nat, S # {}
  PROVE  Min(S) \in S /\ \A j \in S : Min(S) <= j
<1>1. \E i \in S : \A j \in S : i <= j
  BY Least
<1> QED
  BY <1>1 DEF Min

(* The pages, the capacity of AllocationInfoList and the blocks of both are *)
(* numbers.                                                                 *)
LEMMA PagesPositive ==
  ASSUME PagesT
  PROVE  /\ pages \in Nat /\ infoMax \in Nat /\ infoMax >= InitInfoMax /\ pages <= infoMax
         /\ pages <= MaxPages /\ pages * PageBlocks \in Nat /\ infoMax * PageBlocks \in Nat
         /\ pages * PageBlocks <= infoMax * PageBlocks
<1>1. PICK k \in Nat \ {0} : infoMax = k * InitInfoMax
  BY DEF PagesT
<1>2. infoMax \in Nat /\ infoMax >= InitInfoMax
  <2>1. 1 * InitInfoMax <= k * InitInfoMax /\ k * InitInfoMax \in Nat
    <3>1. 1 <= k /\ k \in Nat /\ 1 \in Nat
      OBVIOUS
    <3> QED
      BY <3>1, Constants, Times
  <2>2. 1 * InitInfoMax = InitInfoMax
    BY Constants
  <2> QED
    BY <1>1, <2>1, <2>2
<1>3. pages \in Nat /\ pages <= infoMax /\ pages <= MaxPages
  BY <1>2, Constants DEF PagesT
<1> QED
  BY <1>2, <1>3, Constants, Times

(* What malloc2 finds begins in the memory and ends inside the list of      *)
(* bits.                                                                    *)
LEMMA FitsLegit ==
  ASSUME PagesT, NEW n \in Nat \ {0}, NEW full, Fits(n, full) # {}
  PROVE  LET b == Min(Fits(n, full)) IN
         /\ b \in Fits(n, full) /\ Legit(Chunk(b, n), pages)
         /\ Blocks(b, n) \subseteq Blocks(0, infoMax * PageBlocks)
<1> DEFINE P == PageBlocks
           b == Min(Fits(n, full))
<1>0. /\ P \in Nat /\ P > 0 /\ ByteBlocks \in Nat /\ ByteBlocks > 0
      /\ pages \in Nat /\ infoMax \in Nat /\ pages <= infoMax
      /\ pages * P \in Nat /\ infoMax * P \in Nat /\ pages * P <= infoMax * P
  BY Constants, PagesPositive
<1>1. \A z : z \in Memory <=> z \in Nat /\ z < pages * P
  BY <1>0, InBlocks DEF Memory
<1>2. Fits(n, full) \subseteq Memory
  BY DEF Fits
<1>3. b \in Fits(n, full)
  <2>1. Fits(n, full) \in SUBSET Nat
    BY <1>1, <1>2
  <2> HIDE DEF Fits
  <2> QED
    BY <2>1, MinIn
<1> HIDE DEF b
<1>4. b \in Nat /\ b < pages * P
  BY <1>1, <1>2, <1>3
<1>5. pages > 0 /\ pages - 1 \in Nat /\ (pages - 1) * P + P = pages * P /\ (pages - 1) * P \in Nat
  <2>1. pages # 0
    BY <1>0, <1>4
  <2> QED
    BY <1>0, <2>1, Times
<1>6. SUFFICES b + n <= infoMax * P
  <2>1. \A z \in Blocks(b, n) : z \in Int /\ 0 <= z /\ z < 0 + infoMax * P
    BY <1>0, <1>4, <1>6, InBlocks
  <2>2. Blocks(b, n) \subseteq Blocks(0, infoMax * P)
    BY <1>0, <2>1, InBlocks
  <2> QED
    BY <1>3, <1>4, <2>2 DEF Legit, Chunk, b
<1>7. CASE IsSmall(n)
  <2>1. b < (pages - 1) * P
    BY <1>3, <1>7 DEF Fits, SmallFits
  <2>2. n < P
    BY <1>0, <1>7 DEF IsSmall
  <2> QED
    BY <1>0, <1>4, <1>5, <2>1, <2>2
<1>8. CASE ~IsSmall(n)
  <2> DEFINE p == b \div P
  <2>1. b % P = 0 /\ p * P + n <= infoMax * P
    BY <1>3, <1>8 DEF Fits, Inside
  <2>2. p \in Nat /\ b = p * P + (b % P)
    BY <1>0, <1>4, DivMod
  <2>3. p * P \in Nat
    BY <1>0, <2>2
  <2> HIDE DEF p
  <2> QED
    BY <2>1, <2>2, <2>3
<1> QED
  BY <1>7, <1>8

(* The pages that malloc2 fills leave a last part of at most a page.        *)
LEMMA FullPagesRest ==
  ASSUME NEW n \in Nat \ {0}, NEW whole \in BOOLEAN
  PROVE  LET full == FullPages(n, whole) IN
         /\ full \in Nat /\ full * PageBlocks \in Nat
         /\ n - full * PageBlocks \in Nat /\ n - full * PageBlocks <= PageBlocks
<1> DEFINE P == PageBlocks
           e == IF whole THEN n ELSE n - 1
           q == e \div P
<1>1. P \in Nat /\ P > 0 /\ e \in Nat /\ e <= n /\ n <= e + 1
  BY Constants
<1> HIDE DEF e
<1>2. q \in Nat /\ e = q * P + (e % P) /\ e % P \in Nat /\ e % P < P
  BY <1>1, DivMod
<1>3. FullPages(n, whole) = q
  BY DEF FullPages, e
<1> HIDE DEF q
<1>4. q * P \in Nat
  BY <1>1, <1>2
<1>5. n - q * P \in Nat /\ n - q * P <= P
  BY <1>1, <1>2, <1>4
<1> QED
  BY <1>2, <1>3, <1>4, <1>5

(* malloc2 marks nothing but what it gives; all of it unless there is a     *)
(* last part it does not mark.                                              *)
LEMMA MarkedIn ==
  ASSUME NEW b \in Nat, NEW n \in Nat \ {0}, NEW full \in Nat, full * PageBlocks \in Nat,
         n - full * PageBlocks \in Nat
  PROVE  /\ Marked(b, n, full) \subseteq Blocks(b, n)
         /\ LastPart(b, n, full) \subseteq Marked(b, n, full) => Marked(b, n, full) = Blocks(b, n)
<1> DEFINE f == full * PageBlocks
           r == n - f
<1>1. f \in Nat /\ r \in Nat /\ n = f + r
  OBVIOUS
<1>2. /\ LastPart(b, n, full) = Blocks(b + f, r)
      /\ Marked(b, n, full) \subseteq Blocks(b, f) \cup Blocks(b + f, r)
      /\ Blocks(b, f) \subseteq Marked(b, n, full)
  BY DEF Marked, LastPart
<1> HIDE DEF f, r
<1>3. \A z : z \in Blocks(b, n) <=> z \in Blocks(b, f) \/ z \in Blocks(b + f, r)
  <2>1. \A z : /\ z \in Blocks(b, n) <=> z \in Int /\ b <= z /\ z < b + n
               /\ z \in Blocks(b, f) <=> z \in Int /\ b <= z /\ z < b + f
               /\ z \in Blocks(b + f, r) <=> z \in Int /\ b + f <= z /\ z < b + f + r
    BY <1>1, InBlocks
  <2> QED
    BY <1>1, <2>1
<1> QED
  BY <1>2, <1>3

(* What lies in the memory still does when pages are added.                 *)
LEMMA LegitMore ==
  ASSUME NEW x, NEW p \in Nat, NEW q \in Nat, p <= q
  PROVE  /\ Legit(x, p) => Legit(x, q)
         /\ RetT(x, p) => RetT(x, q)
         /\ x.base \in Nat /\ x.base < p * PageBlocks => x.base < q * PageBlocks
<1>1. p * PageBlocks \in Nat /\ q * PageBlocks \in Nat /\ p * PageBlocks <= q * PageBlocks
      /\ PageBlocks \in Nat
  BY Constants, Times
<1> QED
  BY <1>1 DEF Legit, RetT

(* A step keeps its type when pages are added, or the lists move while it   *)
(* does not use them.                                                       *)
LEMMA StepMore ==
  ASSUME NEW k, NEW Q, NEW r, NEW p \in Nat, NEW q \in Nat, p <= q, k \in Q,
         NEW l, NEW m, NEW f, NEW l2, NEW m2, NEW f2,
         StepT(k, Q, r, p, l, m, f), f2 \/ ~f,
         (l2 = l /\ m2 = m) \/ \A j \in Q : j.op \notin Rare
  PROVE  StepT(k, Q, r, q, l2, m2, f2)
<1>1. \A x : Legit(x, p) => Legit(x, q)
  BY LegitMore
<1>2. CASE l2 = l /\ m2 = m
  BY <1>1, <1>2 DEF StepT
<1>3. CASE \A j \in Q : j.op \notin Rare
  <2>1. \A j \in Q : j.op \in Users => Amount(j, l, m) = j.size /\ Amount(j, l2, m2) = j.size
    BY <1>3 DEF Users, Amount, Rare
  <2>2. k.op \notin {"setlist", "setinfo"}
    BY <1>3 DEF Rare
  <2> QED
    BY <1>1, <2>1, <2>2 DEF StepT
<1> QED
  BY <1>2, <1>3

(* A calm step keeps its type whatever happens to the rest.                 *)
LEMMA StepCalm ==
  ASSUME NEW k, NEW Q, NEW r, NEW p \in Nat, NEW q \in Nat, p <= q, k.op \in Calm,
         NEW l, NEW m, NEW f, NEW Q2, NEW r2, NEW l2, NEW m2, NEW f2,
         StepT(k, Q, r, p, l, m, f)
  PROVE  StepT(k, Q2, r2, q, l2, m2, f2)
<1>1. \A x : Legit(x, p) => Legit(x, q)
  BY LegitMore
<1> QED
  BY <1>1 DEF StepT, Calm, Users

(* The steps still to do after c has done one of its own.                   *)
LEMMA StepsAfter ==
  ASSUME StepsT, NEW c \in CPUs, NEW op, NEW M, View(c, op, M),
         DOMAIN ret' = CPUs, \A d \in CPUs \ {c} : ret'[d] = ret[d], RetT(ret'[c], pages'),
         pages \in Nat, pages' \in Nat, pages <= pages',
         op \in Guarded \/ (list'.max = list.max /\ infoMax' = infoMax), ~fault,
         \A k \in M \cup Rest(c) : k \in M \/ k.op \notin Calm =>
           StepT(k, M \cup Rest(c), ret'[c], pages', list'.max, infoMax', fault')
  PROVE  StepsT'
<1>1. ASSUME NEW d \in CPUs \ {c}
      PROVE  /\ RetT(ret'[d], pages')
             /\ \A k \in Pend(todo'[d]) :
                  StepT(k, Pend(todo'[d]), ret'[d], pages', list'.max, infoMax', fault')
  <2>1. todo'[d] = todo[d] /\ ret'[d] = ret[d]
    BY DEF View
  <2>2. (list'.max = list.max /\ infoMax' = infoMax) \/ \A j \in Pend(todo[d]) : j.op \notin Rare
    BY DEF View, Rarely
  <2>3. RetT(ret[d], pages')
    BY LegitMore DEF StepsT
  <2>4. ASSUME NEW k \in Pend(todo[d])
        PROVE  StepT(k, Pend(todo[d]), ret[d], pages', list'.max, infoMax', fault')
    <3>1. StepT(k, Pend(todo[d]), ret[d], pages, list.max, infoMax, fault)
      BY DEF StepsT
    <3> QED
      BY <2>2, <3>1, StepMore
  <2> QED
    BY <2>1, <2>3, <2>4
<1>2. ASSUME NEW k \in Pend(todo'[c])
      PROVE  StepT(k, Pend(todo'[c]), ret'[c], pages', list'.max, infoMax', fault')
  <2>1. Pend(todo'[c]) = M \cup Rest(c) /\ Rest(c) \subseteq Pend(todo[c])
    BY DEF View
  <2>2. CASE k \in M \/ k.op \notin Calm
    BY <1>2, <2>1, <2>2
  <2>3. CASE k \in Rest(c) /\ k.op \in Calm
    <3>1. StepT(k, Pend(todo[c]), ret[c], pages, list.max, infoMax, fault)
      BY <2>1, <2>3 DEF StepsT
    <3> QED
      BY <2>3, <3>1, StepCalm
  <2> QED
    BY <1>2, <2>1, <2>2, <2>3
<1> QED
  BY <1>1, <1>2 DEF StepsT

(* Who has rare steps to do, before and after.                              *)
LEMMA AnyAfter ==
  ASSUME NEW c \in CPUs, NEW op, NEW M, View(c, op, M), NEW ops, ops \subseteq Rare
  PROVE  /\ op \in Guarded => /\ Due(ops) <=> op \in ops \/ \E k \in Rest(c) : k.op \in ops
                              /\ Due(ops)' <=> \E k \in M \cup Rest(c) : k.op \in ops
         /\ op \notin Rare /\ (\A k \in M : k.op \notin Rare) => (Due(ops)' <=> Due(ops))
<1>1. /\ Pend(todo[c]) = {Head(todo[c])} \cup Rest(c) /\ Head(todo[c]).op = op
      /\ Pend(todo'[c]) = M \cup Rest(c)
      /\ \A d \in CPUs \ {c} : todo'[d] = todo[d]
  BY DEF View
<1>2. op \in Guarded => \A d \in CPUs \ {c} : \A k \in Pend(todo[d]) : k.op \notin ops
  BY DEF View, Rarely
<1>3. Due(ops) <=> \/ \E k \in {Head(todo[c])} \cup Rest(c) : k.op \in ops
                   \/ \E d \in CPUs \ {c} : \E k \in Pend(todo[d]) : k.op \in ops
  BY <1>1 DEF Due
<1>4. Due(ops)' <=> \/ \E k \in M \cup Rest(c) : k.op \in ops
                    \/ \E d \in CPUs \ {c} : \E k \in Pend(todo[d]) : k.op \in ops
  <2>1. Due(ops)' <=> \E d \in CPUs : \E k \in Pend(todo'[d]) : k.op \in ops
    BY DEF Due
  <2> QED
    BY <1>1, <2>1
<1> QED
  BY <1>1, <1>2, <1>3, <1>4

(* A positive multiple of k is at least k.                                  *)
LEMMA Multiple ==
  ASSUME NEW n \in Nat, NEW k \in Nat, n > 0, k > 0, n % k = 0
  PROVE  n >= k
<1>1. n = (n \div k) * k + (n % k) /\ n \div k \in Nat
  BY DivMod
<1> DEFINE q == n \div k
<1>2. q \in Nat /\ n = q * k
  BY <1>1
<1> HIDE DEF q
<1>3. q # 0
  BY <1>2
<1>4. 1 * k <= q * k
  BY <1>2, <1>3, Times
<1> QED
  BY <1>2, <1>4

(* The lists have at least one block each, so malloc2 is never asked for    *)
(* none.                                                                    *)
LEMMA SizesPositive ==
  /\ ItemBlocks(InitItems) \in Nat \ {0} /\ InitItems >= ItemsPerBlock
  /\ PagesT => InfoBlocks(infoMax) \in Nat \ {0} /\ InfoBlocks(2 * infoMax) \in Nat \ {0}
  /\ ListT /\ list.base # NULL => ItemBlocks(2 * list.max) \in Nat \ {0}
<1>1. InitItems >= ItemsPerBlock /\ InitInfoMax >= InfoPerBlock
  BY Multiple, Constants, SizesAssumption
<1>2. ItemBlocks(InitItems) \in Nat \ {0}
  BY <1>1, Constants, Divides DEF ItemBlocks
<1>3. ASSUME PagesT PROVE InfoBlocks(infoMax) \in Nat \ {0} /\ InfoBlocks(2 * infoMax) \in Nat \ {0}
  <2>1. infoMax \in Nat /\ infoMax >= InfoPerBlock /\ 2 * infoMax \in Nat /\ 2 * infoMax >= InfoPerBlock
    BY <1>1, <1>3, PagesPositive, Constants
  <2>2. infoMax \div InfoPerBlock \in Nat /\ infoMax \div InfoPerBlock > 0
    BY <2>1, Constants, Divides
  <2>3. (2 * infoMax) \div InfoPerBlock \in Nat /\ (2 * infoMax) \div InfoPerBlock > 0
    BY <2>1, Constants, Divides
  <2> QED
    BY <2>2, <2>3 DEF InfoBlocks
<1>4. ASSUME ListT, list.base # NULL PROVE ItemBlocks(2 * list.max) \in Nat \ {0}
  <2>1. list.max \in Nat /\ list.max >= ItemsPerBlock
    BY <1>4 DEF ListT
  <2>2. 2 * list.max \in Nat /\ 2 * list.max >= ItemsPerBlock
    BY <2>1, Constants
  <2> QED
    BY <2>2, Constants, Divides DEF ItemBlocks
<1> QED
  BY <1>1, <1>2, <1>3, <1>4

(* Which of the rare steps are there after a step under the lock.           *)
LEMMA CalmAny ==
  ASSUME NEW c \in CPUs, NEW op, NEW M, View(c, op, M), NEW ops, ops \subseteq Rare,
         op \in Guarded, op \notin {"malloc2", "free2"}
  PROVE  (Due(ops) <=> op \in ops) /\ (Due(ops)' <=> \E k \in M : k.op \in ops)
<1>1. \A k \in Rest(c) : k.op \notin ops
  BY DEF View, Calm, Rare
<1> QED
  BY <1>1, AnyAfter

(* A step that leaves the bits alone keeps their types.                     *)
LEMMA PagesSame ==
  ASSUME PagesT, UNCHANGED <<used, pages, infoMax, infoBase, copied>>,
         Due({"moveinfo", "setinfo"})' <=> Due({"moveinfo", "setinfo"})
  PROVE  PagesT'
BY DEF PagesT, Info

(* A step that leaves AllocList alone keeps its types.                      *)
LEMMA ListSame ==
  ASSUME ListT, UNCHANGED list, pages \in Nat, pages' \in Nat, pages <= pages',
         Due({"movelist", "setlist"})' <=> Due({"movelist", "setlist"})
  PROVE  ListT'
<1>1. \A x : Legit(x, pages) => Legit(x, pages')
  BY LegitMore
<1> QED
  BY <1>1 DEF ListT, List

(* A step that allocates nothing keeps the types of what is allocated.      *)
LEMMA HeapSame ==
  ASSUME HeapT, heap' \cup live' \subseteq heap \cup live, pages \in Nat, pages' \in Nat,
         pages <= pages'
  PROVE  HeapT'
<1>1. ASSUME NEW x \in heap' \cup live' PROVE x \in Chunks /\ x.base < pages' * PageBlocks
  <2>1. x \in Chunks /\ x.base < pages * PageBlocks /\ x.base \in Nat
    BY <1>1 DEF HeapT, Chunks
  <2> QED
    BY <2>1, LegitMore
<1> QED
  BY <1>1 DEF HeapT

(* The types of the step a CPU is about to take.                            *)
LEMMA HeadT ==
  ASSUME StepsT, NEW c \in CPUs, NEW op, NEW M, View(c, op, M)
  PROVE  LET k == Head(todo[c]) IN
         /\ k.op = op /\ k \in Pend(todo[c])
         /\ StepT(k, Pend(todo[c]), ret[c], pages, list.max, infoMax, fault)
         /\ k.base \in Int /\ k.size \in Nat
         /\ op \in {"record", "malloc2", "resize", "return"} => k.size > 0
         /\ op \in {"insert", "firstlist", "free2", "result"} => Legit(Chunk(k.base, k.size), pages)
         /\ op \in Users /\ ret[c] # NULL =>
              Legit(Chunk(ret[c], Amount(k, list.max, infoMax)), pages)
<1> DEFINE k == Head(todo[c])
<1>1. k.op = op /\ k \in Pend(todo[c]) /\ Pend(todo[c]) = {k} \cup Rest(c)
  BY DEF View
<1>2. StepT(k, Pend(todo[c]), ret[c], pages, list.max, infoMax, fault)
  BY <1>1 DEF StepsT
<1>3. op \in Users => ~Waits(Pend(todo[c]))
  BY <1>1 DEF View, Waits, Users, Calm
<1> HIDE DEF k
<1>4. /\ k.base \in Int /\ k.size \in Nat
      /\ op \in {"record", "malloc2", "resize", "return"} => k.size > 0
      /\ op \in {"insert", "firstlist", "free2", "result"} => Legit(Chunk(k.base, k.size), pages)
      /\ op \in Users /\ ret[c] # NULL =>
           Legit(Chunk(ret[c], Amount(k, list.max, infoMax)), pages)
  BY <1>1, <1>2, <1>3 DEF StepT
<1> QED
  BY <1>1, <1>2, <1>4 DEF k

(* A step that leaves the lists and the bits alone.                         *)
LEMMA PlainT ==
  ASSUME TInv, NEW c \in CPUs, NEW op, NEW M, View(c, op, M), UNCHANGED mmVars,
         op \notin {"malloc2", "free2"}, ~fault,
         DOMAIN ret' = CPUs, \A d \in CPUs \ {c} : ret'[d] = ret[d], RetT(ret'[c], pages),
         \A x \in heap' \cup live' : x \in Chunks /\ x.base < pages * PageBlocks,
         \A k \in M : StepT(k, M \cup Rest(c), ret'[c], pages, list.max, infoMax, fault'),
         Due({"moveinfo", "setinfo"})' <=> Due({"moveinfo", "setinfo"}),
         Due({"movelist", "setlist"})' <=> Due({"movelist", "setlist"})
  PROVE  TInv'
<1>0. /\ StepsT /\ PagesT /\ ListT /\ HeapT
      /\ UNCHANGED <<used, pages, infoMax, infoBase, copied, list>>
  BY DEF TInv, mmVars
<1>1. pages \in Nat /\ pages' \in Nat /\ pages <= pages'
  BY <1>0, PagesPositive
<1>2. StepsT'
  <2>1. \A k \in M \cup Rest(c) : k \in M \/ k.op \notin Calm =>
          StepT(k, M \cup Rest(c), ret'[c], pages', list'.max, infoMax', fault')
    BY <1>0 DEF View
  <2>2. RetT(ret'[c], pages') /\ list'.max = list.max /\ infoMax' = infoMax
    BY <1>0
  <2> QED
    BY <1>0, <1>1, <2>1, <2>2, StepsAfter
<1>3. PagesT'
  BY <1>0, PagesSame
<1>4. ListT'
  BY <1>0, <1>1, ListSame
<1>5. HeapT'
  BY <1>0 DEF HeapT
<1> QED
  BY <1>2, <1>3, <1>4, <1>5 DEF TInv

(* The fields of a step.                                                    *)
LEMMA StepFields ==
  ASSUME NEW t, NEW b, NEW n
  PROVE  Step(t, b, n).op = t /\ Step(t, b, n).base = b /\ Step(t, b, n).size = n
BY DEF Step

Moves == {"moveinfo", "setinfo", "movelist", "setlist"}

(* A step that does not move a list leaves it open whether one is being     *)
(* moved.                                                                   *)
LEMMA AnySame ==
  ASSUME NEW c \in CPUs, NEW op, NEW M, View(c, op, M), op \notin Moves \cup {"malloc2", "free2"},
         \A k \in M : k.op \notin Moves,
         op \in Guarded \/ (op \notin Rare /\ \A k \in M : k.op \notin Rare)
  PROVE  /\ Due({"moveinfo", "setinfo"})' <=> Due({"moveinfo", "setinfo"})
         /\ Due({"movelist", "setlist"})' <=> Due({"movelist", "setlist"})
<1>1. {"moveinfo", "setinfo"} \subseteq Rare /\ {"movelist", "setlist"} \subseteq Rare
  BY DEF Rare
<1>2. CASE op \in Guarded
  <2>1. Due({"moveinfo", "setinfo"}) <=> op \in {"moveinfo", "setinfo"}
    BY <1>1, <1>2, CalmAny
  <2>2. Due({"moveinfo", "setinfo"})' <=> \E k \in M : k.op \in {"moveinfo", "setinfo"}
    BY <1>1, <1>2, CalmAny
  <2>3. Due({"movelist", "setlist"}) <=> op \in {"movelist", "setlist"}
    BY <1>1, <1>2, CalmAny
  <2>4. Due({"movelist", "setlist"})' <=> \E k \in M : k.op \in {"movelist", "setlist"}
    BY <1>1, <1>2, CalmAny
  <2> QED
    BY <2>1, <2>2, <2>3, <2>4 DEF Moves
<1>3. CASE op \notin Rare /\ \A k \in M : k.op \notin Rare
  BY <1>1, <1>3, AnyAfter
<1> QED
  BY <1>2, <1>3

(* recordAllocation keeps the types.                                        *)
LEMMA RecordT ==
  ASSUME TInv, NEW c \in CPUs, ~fault, Record(c),
         View(c, "record", IF ret[c] = NULL THEN {}
                           ELSE {Step("insert", ret[c], Head(todo[c]).size),
                                 Step("result", ret[c], Head(todo[c]).size)})
  PROVE  TInv'
<1> DEFINE k == Head(todo[c])
           n == k.size
           i == Step("insert", ret[c], n)
           o == Step("result", ret[c], n)
           M == IF ret[c] = NULL THEN {} ELSE {i, o}
<1>1. StepsT /\ PagesT /\ HeapT
  BY DEF TInv
<1>2. UNCHANGED <<mmVars, ret, heap, live, fault>>
  BY DEF Record, historyVars
<1>3. /\ k.op = "record" /\ n \in Nat
      /\ ret[c] # NULL => Legit(Chunk(ret[c], Amount(k, list.max, infoMax)), pages)
  BY <1>1, HeadT DEF Users
<1>4. ret[c] # NULL => Legit(Chunk(ret[c], n), pages)
  BY <1>3 DEF Amount
<1>5. ret[c] # NULL => ret[c] \in Int
  BY <1>1 DEF StepsT, RetT
<1>6. i.op = "insert" /\ i.base = ret[c] /\ i.size = n /\ o.op = "result" /\ o.base = ret[c] /\ o.size = n
  BY StepFields
<1> HIDE DEF i, o, k, n
<1>7. \A j \in M : StepT(j, M \cup Rest(c), ret'[c], pages, list.max, infoMax, fault')
  BY <1>3, <1>4, <1>5, <1>6 DEF StepT, Users
<1>8. \A j \in M : j.op \notin Rare
  BY <1>6 DEF Rare
<1>10. View(c, "record", M)
  BY DEF i, o, k, n
<1> HIDE DEF M
<1>9. \A j \in M : j.op \notin Moves
  BY <1>8 DEF Moves, Rare
<1>11. DOMAIN ret' = CPUs /\ RetT(ret'[c], pages) /\ \A d \in CPUs : ret'[d] = ret[d]
  BY <1>1, <1>2 DEF StepsT
<1>12. \A x \in heap' \cup live' : x \in Chunks /\ x.base < pages * PageBlocks
  BY <1>1, <1>2 DEF HeapT
<1> HIDE DEF M
<1> QED
  BY <1>2, <1>7, <1>8, <1>9, <1>10, <1>11, <1>12, AnySame, PlainT DEF Rare, Moves

(* Steps that add nothing.                                                  *)
LEMMA QuietT ==
  ASSUME TInv, NEW c \in CPUs, ~fault,
         \/ Result(c) /\ View(c, "result", {})
         \/ Return(c) /\ View(c, "return", {})
         \/ Copymem(c) /\ View(c, "copymem", {})
         \/ AddTable(c) /\ View(c, "addpage", {})
  PROVE  TInv'
<1> DEFINE k == Head(todo[c])
<1>1. StepsT /\ PagesT /\ HeapT /\ DOMAIN ret = CPUs /\ RetT(ret[c], pages)
  BY DEF TInv, StepsT
<1>2. ASSUME NEW op, View(c, op, {}), UNCHANGED mmVars, op \in {"result", "return", "copymem", "addpage"},
             DOMAIN ret' = CPUs, \A d \in CPUs \ {c} : ret'[d] = ret[d], RetT(ret'[c], pages),
             \A x \in heap' \cup live' : x \in Chunks /\ x.base < pages * PageBlocks
      PROVE  TInv'
  <2>1. op \notin Moves \cup {"malloc2", "free2"} /\ op \notin Rare
    BY <1>2 DEF Moves, Rare
  <2> DEFINE M == {}
  <2>2. View(c, op, M) /\ \A j \in M : j.op \notin Moves /\ j.op \notin Rare
    BY <1>2
  <2>3. \A j \in M : StepT(j, M \cup Rest(c), ret'[c], pages, list.max, infoMax, fault')
    OBVIOUS
  <2> HIDE DEF M
  <2>4. /\ Due({"moveinfo", "setinfo"})' <=> Due({"moveinfo", "setinfo"})
        /\ Due({"movelist", "setlist"})' <=> Due({"movelist", "setlist"})
    BY <2>1, <2>2, AnySame
  <2>5. op \notin {"malloc2", "free2"}
    BY <2>1
  <2> QED
    BY <1>2, <2>2, <2>3, <2>4, <2>5, PlainT
<1>3. CASE Result(c) /\ View(c, "result", {})
  <2>1. ret' = [ret EXCEPT ![c] = k.base] /\ UNCHANGED <<mmVars, heap, live>>
    BY <1>3 DEF Result, historyVars
  <2>2. Legit(Chunk(k.base, k.size), pages)
    BY <1>1, <1>3, HeadT
  <2>3. RetT(k.base, pages)
    BY <2>2 DEF Legit, Chunk, RetT
  <2>4. \A x \in heap' \cup live' : x \in Chunks /\ x.base < pages * PageBlocks
    BY <1>1, <2>1 DEF HeapT
  <2> QED
    BY <1>1, <1>2, <1>3, <2>1, <2>3, <2>4
<1>4. CASE Return(c) /\ View(c, "return", {})
  <2>1. /\ ret' = [ret EXCEPT ![c] = NULL] /\ UNCHANGED <<mmVars, heap>>
        /\ live' = IF ret[c] = NULL THEN live ELSE live \cup {Chunk(ret[c], k.size)}
    BY <1>4 DEF Return, Chunk
  <2>2. k.size \in Nat
    BY <1>1, <1>4, HeadT
  <2>3. ret[c] # NULL => Chunk(ret[c], k.size) \in Chunks /\ Chunk(ret[c], k.size).base < pages * PageBlocks
    BY <1>1, <2>2 DEF RetT, Chunk, Chunks
  <2>4. \A x \in heap' \cup live' : x \in Chunks /\ x.base < pages * PageBlocks
    BY <1>1, <2>1, <2>3 DEF HeapT
  <2>5. RetT(NULL, pages)
    BY DEF RetT
  <2> QED
    BY <1>1, <1>2, <1>4, <2>1, <2>4, <2>5
<1>5. CASE Copymem(c) /\ View(c, "copymem", {})
  <2>1. UNCHANGED <<mmVars, ret, heap, live>>
    BY <1>5 DEF Copymem, historyVars
  <2>2. \A x \in heap' \cup live' : x \in Chunks /\ x.base < pages * PageBlocks
    BY <1>1, <2>1 DEF HeapT
  <2> QED
    BY <1>1, <1>2, <1>5, <2>1, <2>2
<1>6. CASE AddTable(c) /\ View(c, "addpage", {})
  <2>1. UNCHANGED <<mmVars, ret, heap, live>>
    BY <1>6 DEF AddTable, historyVars
  <2>2. \A x \in heap' \cup live' : x \in Chunks /\ x.base < pages * PageBlocks
    BY <1>1, <2>1 DEF HeapT
  <2> QED
    BY <1>1, <1>2, <1>6, <2>1, <2>2
<1> QED
  BY <1>3, <1>4, <1>5, <1>6

(* Steps that change nothing but what is still to do, and the fault.        *)
LEMMA AddsT ==
  ASSUME TInv, NEW c \in CPUs, NEW op, NEW M, View(c, op, M), ~fault,
         UNCHANGED <<mmVars, ret, heap, live>>, op \notin {"malloc2", "free2"},
         \A k \in M : StepT(k, M \cup Rest(c), ret[c], pages, list.max, infoMax, fault'),
         Due({"moveinfo", "setinfo"})' <=> Due({"moveinfo", "setinfo"}),
         Due({"movelist", "setlist"})' <=> Due({"movelist", "setlist"})
  PROVE  TInv'
<1>1. StepsT /\ HeapT /\ DOMAIN ret = CPUs /\ RetT(ret[c], pages)
  BY DEF TInv, StepsT
<1>2. /\ DOMAIN ret' = CPUs /\ \A d \in CPUs \ {c} : ret'[d] = ret[d]
      /\ ret'[c] = ret[c] /\ UNCHANGED mmVars
  BY <1>1
<1>3. \A x \in heap' \cup live' : x \in Chunks /\ x.base < pages * PageBlocks
  BY <1>1 DEF HeapT
<1> QED
  BY <1>1, <1>2, <1>3, PlainT

(* addToAllocList with no list yet keeps the types.                         *)
LEMMA InsertFirstT ==
  ASSUME TInv, NEW c \in CPUs, ~fault, InsertFirst(c),
         View(c, "insert", {Step("malloc2", NULL, ItemBlocks(InitItems)),
                            Step("firstlist", Head(todo[c]).base, Head(todo[c]).size)})
  PROVE  TInv'
<1> DEFINE h == Head(todo[c])
           k == Step("malloc2", NULL, ItemBlocks(InitItems))
           u == Step("firstlist", h.base, h.size)
           M == {k, u}
<1>1. StepsT
  BY DEF TInv
<1>2. UNCHANGED <<mmVars, ret, heap, live>>
  BY DEF InsertFirst, historyVars
<1>3. h.base \in Int /\ h.size \in Nat /\ Legit(Chunk(h.base, h.size), pages)
  BY <1>1, HeadT
<1>4. /\ k.op = "malloc2" /\ k.base = -1 /\ k.size = ItemBlocks(InitItems) /\ k.size \in Nat \ {0}
      /\ u.op = "firstlist" /\ u.base = h.base /\ u.size = h.size
  BY StepFields, SizesPositive DEF NULL
<1>5. \A j \in Rest(c) : j.op \in Calm
  BY DEF View
<1> HIDE DEF h, k, u
<1>6. \A j \in M \cup Rest(c) : j.op \in Users => Amount(j, list.max, infoMax) = k.size
  BY <1>4, <1>5 DEF Amount, Calm, Users
<1>7. Waits(M \cup Rest(c))
  BY <1>4 DEF Waits
<1>8. StepT(k, M \cup Rest(c), ret[c], pages, list.max, infoMax, fault')
  BY <1>4, <1>6 DEF StepT, Users
<1>9. StepT(u, M \cup Rest(c), ret[c], pages, list.max, infoMax, fault')
  BY <1>3, <1>4, <1>7 DEF StepT
<1>10. View(c, "insert", M) /\ \A j \in M : j.op \notin Moves
  BY <1>4 DEF h, k, u, Moves
<1> HIDE DEF M
<1>11. \A j \in M : j = k \/ j = u
  BY DEF M
<1> QED
  BY <1>2, <1>8, <1>9, <1>10, <1>11, AnySame, AddsT DEF Moves, Guarded

(* realloc keeps the types.                                                 *)
LEMMA ResizeT ==
  ASSUME TInv, NEW c \in CPUs, ~fault, Resize(c),
         View(c, "resize", IF Searchable /\ Found(Head(todo[c]).base)
                           THEN {Step("malloc2", NULL, Head(todo[c]).size),
                                 Step("record", NULL, Head(todo[c]).size),
                                 Step("copymem", NULL, 0), Step("unlink", Head(todo[c]).base, 0)}
                           ELSE {Step("error", NULL, 0)})
  PROVE  TInv'
<1> DEFINE h == Head(todo[c])
           k == Step("malloc2", NULL, h.size)
           u == Step("record", NULL, h.size)
           v == Step("copymem", NULL, 0)
           w == Step("unlink", h.base, 0)
           e == Step("error", NULL, 0)
           M == IF Searchable /\ Found(h.base) THEN {k, u, v, w} ELSE {e}
<1>1. StepsT
  BY DEF TInv
<1>2. UNCHANGED <<mmVars, ret, heap, live>>
  BY DEF Resize, historyVars
<1>3. h.base \in Int /\ h.size \in Nat /\ h.size > 0
  BY <1>1, HeadT
<1>4. /\ k.op = "malloc2" /\ k.base = -1 /\ k.size = h.size
      /\ u.op = "record" /\ u.base = -1 /\ u.size = h.size
      /\ v.op = "copymem" /\ v.base = -1 /\ v.size = 0
      /\ w.op = "unlink" /\ w.base = h.base /\ w.size = 0
      /\ e.op = "error" /\ e.base = -1 /\ e.size = 0
  BY StepFields DEF NULL
<1>5. \A j \in Rest(c) : j.op \in Calm
  BY DEF View
<1>10. View(c, "resize", M)
  OBVIOUS
<1> HIDE DEF h, k, u, v, w, e
<1>6. \A j \in M \cup Rest(c) : j.op \in Users => Amount(j, list.max, infoMax) = h.size
  BY <1>4, <1>5 DEF Amount, Calm, Users
<1>7. k \in M => Waits(M \cup Rest(c))
  BY <1>4 DEF Waits
<1>8. \A j \in M : j.op \notin Moves /\ (j = e \/ (j \in {k, u, v, w} /\ k \in M))
  BY <1>4 DEF Moves
<1> HIDE DEF M
<1>9. \A j \in M : StepT(j, M \cup Rest(c), ret[c], pages, list.max, infoMax, fault')
  BY <1>3, <1>4, <1>6, <1>7, <1>8 DEF StepT, Users
<1> QED
  BY <1>2, <1>8, <1>9, <1>10, AnySame, AddsT DEF Moves, Guarded

(* The move of AllocList in addToAllocList keeps the types.                 *)
LEMMA MoveListT ==
  ASSUME TInv, NEW c \in CPUs, ~fault, MoveList(c),
         View(c, "movelist", (IF ret[c] = NULL THEN {}
                              ELSE {Step("free2", list.base, ItemBlocks(list.max))})
                             \cup {Step("setlist", ret[c], 0)})
  PROVE  TInv'
<1> DEFINE h == Head(todo[c])
           k == Step("free2", list.base, ItemBlocks(list.max))
           u == Step("setlist", ret[c], 0)
           M == (IF ret[c] = NULL THEN {} ELSE {k}) \cup {u}
<1>1. StepsT /\ ListT /\ RetT(ret[c], pages)
  BY DEF TInv, StepsT
<1>2. UNCHANGED <<mmVars, ret, heap, live>>
  BY DEF MoveList, historyVars
<1>3. ret[c] # NULL => Legit(Chunk(ret[c], ItemBlocks(2 * list.max)), pages)
  <2>1. h.op = "movelist" /\ (ret[c] # NULL => Legit(Chunk(ret[c], Amount(h, list.max, infoMax)), pages))
    BY <1>1, HeadT DEF Users
  <2> HIDE DEF h
  <2>2. Amount(h, list.max, infoMax) = ItemBlocks(2 * list.max)
    BY <2>1 DEF Amount
  <2> QED
    BY <2>1, <2>2
<1>4. /\ k.op = "free2" /\ k.base = list.base /\ k.size = ItemBlocks(list.max)
      /\ u.op = "setlist" /\ u.base = ret[c] /\ u.size = 0
  BY StepFields
<1>5. View(c, "movelist", M)
  OBVIOUS
<1> HIDE DEF h, k, u
<1>6. u \in M /\ \A j \in M : j = u \/ j = k
  OBVIOUS
<1> HIDE DEF M
<1>7. /\ Due({"moveinfo", "setinfo"})' <=> Due({"moveinfo", "setinfo"})
      /\ Due({"movelist", "setlist"})' <=> Due({"movelist", "setlist"})
      /\ Due({"movelist", "setlist"})
  <2>1. {"moveinfo", "setinfo"} \subseteq Rare /\ {"movelist", "setlist"} \subseteq Rare
    BY DEF Rare
  <2>2. "movelist" \in Guarded /\ "movelist" \notin {"malloc2", "free2"}
    BY DEF Guarded
  <2>3. ~Due({"moveinfo", "setinfo"}) /\ ~Due({"moveinfo", "setinfo"})'
    <3>1. "movelist" \notin {"moveinfo", "setinfo"} /\ ~\E j \in M : j.op \in {"moveinfo", "setinfo"}
      BY <1>4, <1>6
    <3> QED
      BY <1>5, <2>1, <2>2, <3>1, CalmAny
  <2>4. Due({"movelist", "setlist"}) /\ Due({"movelist", "setlist"})'
    <3>1. "movelist" \in {"movelist", "setlist"} /\ \E j \in M : j.op \in {"movelist", "setlist"}
      BY <1>4, <1>6
    <3> QED
      BY <1>5, <2>1, <2>2, <3>1, CalmAny
  <2> QED
    BY <2>3, <2>4
<1>8. Legit(List, pages)
  BY <1>1, <1>7 DEF ListT
<1>9. \A j \in M : StepT(j, M \cup Rest(c), ret[c], pages, list.max, infoMax, fault')
  <2>1. StepT(u, M \cup Rest(c), ret[c], pages, list.max, infoMax, fault')
    BY <1>1, <1>3, <1>4 DEF StepT, Users, RetT, NULL
  <2>2. StepT(k, M \cup Rest(c), ret[c], pages, list.max, infoMax, fault')
    <3>1. k.base \in Int /\ k.size \in Nat /\ Legit(Chunk(k.base, k.size), pages)
      BY <1>4, <1>8 DEF List, Legit, Chunk
    <3> QED
      BY <1>4, <3>1 DEF StepT, Users
  <2> QED
    BY <1>6, <2>1, <2>2
<1> QED
  BY <1>2, <1>5, <1>7, <1>9, AddsT

(* The search stays in the list.                                            *)
LEMMA ClosestIn ==
  ASSUME ListT, NEW b \in Int
  PROVE  /\ Closest(b) \in 1 .. Len(list.items) + 1 /\ Len(list.items) \in Nat
         /\ DOMAIN list.items = 1 .. Len(list.items)
         /\ \A j \in DOMAIN list.items : list.items[j] \in Chunks
         /\ Sorted(list.items) => Belongs(list.items, b, Closest(b))
<1> DEFINE items == list.items
<1>1. items \in Seq(Chunks)
  BY DEF ListT
<1> HIDE DEF items
<1>2. Len(items) \in Nat /\ DOMAIN items = 1 .. Len(items) /\ \A j \in 1 .. Len(items) : items[j] \in Chunks
  BY <1>1, LenProperties, ElementOfSeq
<1>3. \A j \in 1 .. Len(items) : items[j].base \in Int
  BY <1>2 DEF Chunks
<1>4. /\ findClosestAllocRegion(items, b) \in 1 .. Len(items) + 1
      /\ Sorted(items) => Belongs(items, b, findClosestAllocRegion(items, b))
  BY <1>2, <1>3, SearchRight
<1> QED
  BY <1>2, <1>4 DEF Closest, items

(* free's search for the entry keeps the types.                             *)
LEMMA UnlinkT ==
  ASSUME TInv, NEW c \in CPUs, ~fault, Unlink(c),
         View(c, "unlink", IF Searchable /\ Found(Head(todo[c]).base)
                           THEN {Step("free2", Head(todo[c]).base,
                                      list.items[Closest(Head(todo[c]).base)].size),
                                 Step("clear", Head(todo[c]).base, 0)}
                           ELSE {})
  PROVE  TInv'
<1> DEFINE b == Head(todo[c]).base
           z == list.items[Closest(b)].size
           k == Step("free2", b, z)
           u == Step("clear", b, 0)
           M == IF Searchable /\ Found(b) THEN {k, u} ELSE {}
<1>1. StepsT /\ ListT
  BY DEF TInv
<1>2. UNCHANGED <<mmVars, ret, heap, live>>
  BY DEF Unlink, historyVars
<1>3. b \in Int
  BY <1>1, HeadT
<1>4. View(c, "unlink", M)
  OBVIOUS
<1> HIDE DEF b
<1>5. ASSUME Found(b) PROVE Legit(Chunk(b, z), pages)
  <2>1. Closest(b) \in DOMAIN list.items
    BY <1>1, <1>3, <1>5, ClosestIn DEF Found
  <2>2. Legit(list.items[Closest(b)], pages)
    BY <1>1, <1>5, <2>1 DEF Found, ListT
  <2> QED
    BY <1>5, <2>2 DEF Legit, Chunk, Found
<1>6. /\ k.op = "free2" /\ k.base = b /\ k.size = z /\ u.op = "clear" /\ u.base = b /\ u.size = 0
  BY StepFields
<1> HIDE DEF k, u
<1>7. \A j \in M : Found(b) /\ (j = u \/ j = k)
  OBVIOUS
<1> HIDE DEF M
<1>8. \A j \in M : j.op \notin Moves
  BY <1>6, <1>7 DEF Moves
<1>9. ASSUME Found(b)
      PROVE  /\ StepT(u, M \cup Rest(c), ret[c], pages, list.max, infoMax, fault')
             /\ StepT(k, M \cup Rest(c), ret[c], pages, list.max, infoMax, fault')
  <2>1. z \in Nat /\ Legit(Chunk(b, z), pages)
    BY <1>5, <1>9 DEF Legit, Chunk
  <2> HIDE DEF z
  <2> QED
    BY <1>3, <1>6, <2>1 DEF StepT, Users
<1>10. \A j \in M : StepT(j, M \cup Rest(c), ret[c], pages, list.max, infoMax, fault')
  BY <1>7, <1>9
<1>11. "unlink" \notin Moves \cup {"malloc2", "free2"} /\ "unlink" \in Guarded
  BY DEF Moves, Guarded
<1> QED
  BY <1>2, <1>4, <1>8, <1>10, <1>11, AnySame, AddsT

(* The move of AllocationInfoList keeps the types.                          *)
LEMMA MoveInfoT ==
  ASSUME TInv, NEW c \in CPUs, ~fault, MoveInfo(c),
         View(c, "moveinfo", {Step("free2", infoBase, InfoBlocks(infoMax)), Step("setinfo", ret[c], 0)})
  PROVE  TInv'
<1> DEFINE h == Head(todo[c])
           k == Step("free2", infoBase, InfoBlocks(infoMax))
           u == Step("setinfo", ret[c], 0)
           M == {k, u}
<1>1. StepsT /\ PagesT /\ ListT /\ HeapT /\ DOMAIN ret = CPUs /\ RetT(ret[c], pages)
  BY DEF TInv, StepsT
<1>2. /\ UNCHANGED <<used, pages, infoMax, infoBase, list, ret, heap, live>> /\ copied' = used
      /\ fault' = (ret[c] = NULL)
  BY DEF MoveInfo, historyVars
<1>3. ret[c] # NULL => Legit(Chunk(ret[c], InfoBlocks(2 * infoMax)), pages)
  <2>1. h.op = "moveinfo" /\ (ret[c] # NULL => Legit(Chunk(ret[c], Amount(h, list.max, infoMax)), pages))
    BY <1>1, HeadT DEF Users
  <2> HIDE DEF h
  <2>2. Amount(h, list.max, infoMax) = InfoBlocks(2 * infoMax)
    BY <2>1 DEF Amount
  <2> QED
    BY <2>1, <2>2
<1>4. /\ k.op = "free2" /\ k.base = infoBase /\ k.size = InfoBlocks(infoMax)
      /\ u.op = "setinfo" /\ u.base = ret[c] /\ u.size = 0
  BY StepFields
<1>5. View(c, "moveinfo", M)
  OBVIOUS
<1> HIDE DEF h, k, u
<1>6. u \in M /\ \A j \in M : j = u \/ j = k
  OBVIOUS
<1> HIDE DEF M
<1>7. /\ Due({"movelist", "setlist"})' <=> Due({"movelist", "setlist"})
      /\ Due({"moveinfo", "setinfo"}) /\ Due({"moveinfo", "setinfo"})'
  <2>1. {"moveinfo", "setinfo"} \subseteq Rare /\ {"movelist", "setlist"} \subseteq Rare
    BY DEF Rare
  <2>2. "moveinfo" \in Guarded /\ "moveinfo" \notin {"malloc2", "free2"}
    BY DEF Guarded
  <2>3. ~Due({"movelist", "setlist"}) /\ ~Due({"movelist", "setlist"})'
    <3>1. "moveinfo" \notin {"movelist", "setlist"} /\ ~\E j \in M : j.op \in {"movelist", "setlist"}
      BY <1>4, <1>6
    <3> QED
      BY <1>5, <2>1, <2>2, <3>1, CalmAny
  <2>4. Due({"moveinfo", "setinfo"}) /\ Due({"moveinfo", "setinfo"})'
    <3>1. "moveinfo" \in {"moveinfo", "setinfo"} /\ \E j \in M : j.op \in {"moveinfo", "setinfo"}
      BY <1>4, <1>6
    <3> QED
      BY <1>5, <2>1, <2>2, <3>1, CalmAny
  <2> QED
    BY <2>3, <2>4
<1>8. pages \in Nat /\ pages' \in Nat /\ pages <= pages' /\ pages' = pages
  BY <1>1, <1>2, PagesPositive
<1>9. \A j \in M : StepT(j, M \cup Rest(c), ret[c], pages, list.max, infoMax, fault')
  <2>1. StepT(u, M \cup Rest(c), ret[c], pages, list.max, infoMax, fault')
    <3>1. u.base \in Int /\ u.size \in Nat
      BY <1>1, <1>4 DEF RetT, NULL
    <3>2. ~fault' => Legit(Chunk(u.base, InfoBlocks(2 * infoMax)), pages)
      BY <1>2, <1>3, <1>4
    <3> QED
      BY <1>4, <3>1, <3>2 DEF StepT, Users
  <2>2. StepT(k, M \cup Rest(c), ret[c], pages, list.max, infoMax, fault')
    <3>1. k.base \in Int /\ k.size \in Nat /\ Legit(Chunk(k.base, k.size), pages)
      BY <1>1, <1>4 DEF PagesT, Info, Legit, Chunk
    <3> QED
      BY <1>4, <3>1 DEF StepT, Users
  <2> QED
    BY <1>6, <2>1, <2>2
<1>10. StepsT'
  <2>1. \A j \in M \cup Rest(c) : j \in M \/ j.op \notin Calm =>
          StepT(j, M \cup Rest(c), ret'[c], pages', list'.max, infoMax', fault')
    BY <1>2, <1>5, <1>9 DEF View
  <2>2. /\ DOMAIN ret' = CPUs /\ \A d \in CPUs \ {c} : ret'[d] = ret[d]
        /\ RetT(ret'[c], pages') /\ list'.max = list.max /\ infoMax' = infoMax
    BY <1>1, <1>2
  <2> QED
    BY <1>1, <1>5, <1>8, <2>1, <2>2, StepsAfter
<1>11. PagesT'
  BY <1>1, <1>2, <1>7 DEF PagesT, Info
<1>12. ListT'
  BY <1>1, <1>2, <1>7, <1>8, ListSame
<1>13. HeapT'
  BY <1>1, <1>2, <1>8, HeapSame
<1> QED
  BY <1>10, <1>11, <1>12, <1>13 DEF TInv

(* Of a small allocation the last part, which is all of it, is marked.      *)
LEMMA SmallMarked ==
  ASSUME NEW b \in Nat, NEW n \in Nat \ {0}, NEW full \in Nat, full * PageBlocks \in Nat, IsSmall(n)
  PROVE  LastPart(b, n, full) \subseteq Marked(b, n, full)
<1>1. PageBlocks \in Nat /\ ByteBlocks \in Nat /\ n < PageBlocks - ByteBlocks
  BY Constants DEF IsSmall
<1>2. n - full * PageBlocks # PageBlocks
  BY <1>1
<1> QED
  BY <1>2 DEF Marked

(* What malloc2 does: nothing, or it gives what it found and marks it.      *)
LEMMA MallocDoes ==
  ASSUME TInv, NEW c \in CPUs, DoMalloc2(c), View(c, "malloc2", {})
  PROVE  LET n == Head(todo[c]).size IN
         /\ n \in Nat \ {0}
         /\ UNCHANGED <<pages, infoMax, infoBase, copied, list, live, severed, forgotten, fault>>
         /\ \/ ret' = [ret EXCEPT ![c] = NULL] /\ UNCHANGED <<used, heap, damaged>>
            \/ \E b \in Nat, full \in Nat :
                 /\ full * PageBlocks \in Nat /\ n - full * PageBlocks \in Nat
                 /\ b \in Fits(n, full) /\ Legit(Chunk(b, n), pages)
                 /\ Blocks(b, n) \subseteq Blocks(0, infoMax * PageBlocks)
                 /\ ret' = [ret EXCEPT ![c] = b]
                 /\ used' = used \cup Marked(b, n, full)
                 /\ Marked(b, n, full) \subseteq Blocks(b, n)
                 /\ heap' = heap \cup {Chunk(b, n)}
                 /\ ~damaged' => /\ ~damaged
                                 /\ IsSmall(n) \/ LastPart(b, n, full) \cap used = {}
                                 /\ IsSmall(n) \/ LastPart(b, n, full) \subseteq Marked(b, n, full)
<1> DEFINE n == Head(todo[c]).size
<1>1. n \in Nat \ {0} /\ PagesT
  BY HeadT DEF TInv
<1>2. UNCHANGED <<pages, infoMax, infoBase, copied, list, live, severed, forgotten, fault>>
  BY DEF DoMalloc2
<1>3. PICK whole \in Whole(c) :
        LET full == FullPages(n, whole)
            b == Min(Fits(n, full))
            last == LastPart(b, n, full)
        IN
        \/ ret' = [ret EXCEPT ![c] = NULL] /\ UNCHANGED <<used, heap, damaged>>
        \/ /\ Fits(n, full) # {} /\ ret' = [ret EXCEPT ![c] = b]
           /\ used' = used \cup Marked(b, n, full) /\ heap' = heap \cup {Chunk(b, n)}
           /\ damaged' = (damaged \/ (~IsSmall(n) /\ (last \cap used # {} \/ ~(last \subseteq Marked(b, n, full)))))
  BY DEF DoMalloc2, Chunk
<1>4. whole \in BOOLEAN
  BY DEF Whole
<1> DEFINE full == FullPages(n, whole)
           b == Min(Fits(n, full))
           last == LastPart(b, n, full)
<1>5. CASE /\ Fits(n, full) # {} /\ ret' = [ret EXCEPT ![c] = b]
           /\ used' = used \cup Marked(b, n, full) /\ heap' = heap \cup {Chunk(b, n)}
           /\ damaged' = (damaged \/ (~IsSmall(n) /\ (last \cap used # {} \/ ~(last \subseteq Marked(b, n, full)))))
  <2> HIDE DEF n
  <2>1. full \in Nat /\ full * PageBlocks \in Nat /\ n - full * PageBlocks \in Nat
    BY <1>1, <1>4, FullPagesRest
  <2> HIDE DEF full
  <2>2. /\ b \in Fits(n, full) /\ Legit(Chunk(b, n), pages)
        /\ Blocks(b, n) \subseteq Blocks(0, infoMax * PageBlocks)
    BY <1>1, <1>5, FitsLegit
  <2> HIDE DEF b
  <2>3. b \in Nat
    BY <2>2 DEF Legit, Chunk
  <2>4. Marked(b, n, full) \subseteq Blocks(b, n)
    BY <1>1, <2>1, <2>3, MarkedIn
  <2>5. ~damaged' => /\ ~damaged
                     /\ IsSmall(n) \/ last \cap used = {}
                     /\ IsSmall(n) \/ last \subseteq Marked(b, n, full)
    BY <1>5, Zenon
  <2> HIDE DEF last
  <2>6. \E x \in Nat, y \in Nat :
                 /\ y * PageBlocks \in Nat /\ n - y * PageBlocks \in Nat
                 /\ x \in Fits(n, y) /\ Legit(Chunk(x, n), pages)
                 /\ Blocks(x, n) \subseteq Blocks(0, infoMax * PageBlocks)
                 /\ ret' = [ret EXCEPT ![c] = x]
                 /\ used' = used \cup Marked(x, n, y)
                 /\ Marked(x, n, y) \subseteq Blocks(x, n)
                 /\ heap' = heap \cup {Chunk(x, n)}
                 /\ ~damaged' => /\ ~damaged
                                 /\ IsSmall(n) \/ LastPart(x, n, y) \cap used = {}
                                 /\ IsSmall(n) \/ LastPart(x, n, y) \subseteq Marked(x, n, y)
    BY <1>5, <2>1, <2>2, <2>3, <2>4, <2>5, Zenon DEF last
  <2> QED
    BY <1>1, <1>2, <2>6 DEF n
<1> QED
  BY <1>1, <1>2, <1>3, <1>5

(* malloc2 keeps the types.                                                 *)
LEMMA MallocT ==
  ASSUME TInv, NEW c \in CPUs, ~fault, DoMalloc2(c), View(c, "malloc2", {})
  PROVE  TInv'
<1> DEFINE h == Head(todo[c])
           n == h.size
           M == {}
<1>0. StepsT /\ PagesT /\ ListT /\ HeapT /\ DOMAIN ret = CPUs /\ RetT(ret[c], pages)
  BY DEF TInv, StepsT
<1>1. /\ n \in Nat \ {0} /\ UNCHANGED <<pages, infoMax, infoBase, copied, list, live, fault>>
      /\ \/ ret' = [ret EXCEPT ![c] = NULL] /\ UNCHANGED <<used, heap>>
         \/ \E b \in Nat : /\ ret' = [ret EXCEPT ![c] = b] /\ Legit(Chunk(b, n), pages)
                          /\ used' \subseteq used \cup Blocks(0, infoMax * PageBlocks)
                          /\ heap' = heap \cup {Chunk(b, n)}
  <2>1. \/ ret' = [ret EXCEPT ![c] = NULL] /\ UNCHANGED <<used, heap>>
        \/ \E b \in Nat, full \in Nat :
             /\ Legit(Chunk(b, n), pages)
             /\ Blocks(b, n) \subseteq Blocks(0, infoMax * PageBlocks)
             /\ ret' = [ret EXCEPT ![c] = b]
             /\ used' = used \cup Marked(b, n, full)
             /\ Marked(b, n, full) \subseteq Blocks(b, n)
             /\ heap' = heap \cup {Chunk(b, n)}
    BY MallocDoes
  <2>2. n \in Nat \ {0} /\ UNCHANGED <<pages, infoMax, infoBase, copied, list, live, fault>>
    BY MallocDoes
  <2> HIDE DEF n
  <2>3. ASSUME NEW b \in Nat, NEW full \in Nat, Blocks(b, n) \subseteq Blocks(0, infoMax * PageBlocks),
               used' = used \cup Marked(b, n, full), Marked(b, n, full) \subseteq Blocks(b, n)
        PROVE  used' \subseteq used \cup Blocks(0, infoMax * PageBlocks)
    BY <2>3
  <2> QED
    BY <2>1, <2>2, <2>3
<1>3. StepT(h, Pend(todo[c]), ret[c], pages, list.max, infoMax, fault) /\ h.op = "malloc2"
  BY <1>0, HeadT
<1>4. PICK u \in Rest(c) : u.op \in Users /\ \A k \in Rest(c) : k = u \/ k.op \in Calm
  BY DEF View
<1>5. n = Amount(u, list.max, infoMax)
  BY <1>3, <1>4 DEF StepT, View
<1>7. View(c, "malloc2", M) /\ M \cup Rest(c) = Rest(c) /\ \A j \in M : FALSE
  OBVIOUS
<1>8. pages \in Nat /\ pages' \in Nat /\ pages <= pages' /\ pages' = pages /\ PageBlocks \in Nat
  BY <1>0, <1>1, PagesPositive, Constants
<1> HIDE DEF h, n, M
<1>9. RetT(ret'[c], pages) /\ (ret'[c] # NULL => Legit(Chunk(ret'[c], n), pages))
  BY <1>0, <1>1 DEF RetT, Legit, Chunk
<1>10. StepsT'
  <2>2. StepT(u, Pend(todo[c]), ret[c], pages, list.max, infoMax, fault)
    BY <1>0, <1>4 DEF StepsT, View
  <2>3. StepT(u, M \cup Rest(c), ret'[c], pages', list'.max, infoMax', fault')
    BY <1>1, <1>4, <1>5, <1>9, <2>2 DEF StepT, Users
  <2>4. \A k \in M \cup Rest(c) : k \in M \/ k.op \notin Calm =>
          StepT(k, M \cup Rest(c), ret'[c], pages', list'.max, infoMax', fault')
    BY <1>4, <1>7, <2>3
  <2>5. DOMAIN ret' = CPUs /\ \A d \in CPUs \ {c} : ret'[d] = ret[d]
    BY <1>0, <1>1
  <2>6. "malloc2" \in Guarded /\ RetT(ret'[c], pages')
    BY <1>1, <1>9 DEF Guarded
  <2> QED
    BY <1>0, <1>7, <1>8, <2>4, <2>5, <2>6, StepsAfter
<1>11. /\ Due({"moveinfo", "setinfo"})' <=> Due({"moveinfo", "setinfo"})
       /\ Due({"movelist", "setlist"})' <=> Due({"movelist", "setlist"})
  <2>1. /\ {"moveinfo", "setinfo"} \subseteq Rare /\ {"movelist", "setlist"} \subseteq Rare
        /\ "malloc2" \notin Rare
    BY DEF Rare
  <2> QED
    BY <1>7, <2>1, AnyAfter
<1>12. ListT'
  BY <1>0, <1>1, <1>8, <1>11, ListSame
<1>13. PagesT'
  BY <1>0, <1>1, <1>11 DEF PagesT, Info
<1>14. HeapT'
  <2>1. \A b \in Nat : Legit(Chunk(b, n), pages) => Chunk(b, n) \in Chunks /\ Chunk(b, n).base < pages * PageBlocks
    BY DEF Legit, Chunk, Chunks
  <2> QED
    BY <1>0, <1>1, <2>1 DEF HeapT
<1> QED
  BY <1>10, <1>12, <1>13, <1>14 DEF TInv

(* free2 clears nothing but what it is given.                               *)
LEMMA ClearedIn ==
  ASSUME NEW b \in Nat, NEW n \in Nat
  PROVE  Cleared(b, n) \subseteq Blocks(b, n)
<1> DEFINE P == PageBlocks
           m == n \div P
           r == n % P
<1>1. P \in Nat /\ m \in Nat /\ r \in Nat /\ n = m * P + r
  BY Constants, DivMod
<1>2. Cleared(b, n) \subseteq Blocks(b, m * P) \cup Blocks(b + m * P, r)
  BY DEF Cleared
<1> HIDE DEF m, r
<1>3. m * P \in Nat
  BY <1>1
<1>4. \A z \in Blocks(b, m * P) \cup Blocks(b + m * P, r) : z \in Int /\ b <= z /\ z < b + n
  BY <1>1, <1>3, InBlocks
<1>5. \A z \in Cleared(b, n) : z \in Blocks(b, n)
  BY <1>1, <1>2, <1>4, InBlocks
<1> QED
  BY <1>5

(* free2 keeps the types.                                                   *)
LEMMA FreeT ==
  ASSUME TInv, NEW c \in CPUs, ~fault, DoFree2(c), View(c, "free2", {})
  PROVE  TInv'
<1> DEFINE h == Head(todo[c])
           M == {}
<1>0. StepsT /\ PagesT /\ ListT /\ HeapT /\ DOMAIN ret = CPUs /\ RetT(ret[c], pages)
  BY DEF TInv, StepsT
<1>1. /\ UNCHANGED <<pages, infoMax, infoBase, copied, list, ret, live, fault>>
      /\ used' = used \ Cleared(h.base, h.size) /\ heap' \subseteq heap
  BY DEF DoFree2
<1>3. pages \in Nat /\ pages' \in Nat /\ pages <= pages' /\ pages' = pages
      /\ pages * PageBlocks \in Nat /\ PageBlocks \in Nat /\ infoMax \in Nat
  BY <1>0, <1>1, PagesPositive, Constants
<1>5. View(c, "free2", M) /\ M \cup Rest(c) = Rest(c) /\ \A j \in M : FALSE
  OBVIOUS
<1> HIDE DEF h, M
<1>8. /\ Due({"moveinfo", "setinfo"})' <=> Due({"moveinfo", "setinfo"})
      /\ Due({"movelist", "setlist"})' <=> Due({"movelist", "setlist"})
  <2>1. /\ {"moveinfo", "setinfo"} \subseteq Rare /\ {"movelist", "setlist"} \subseteq Rare
        /\ "free2" \in Guarded
        /\ "free2" \notin {"moveinfo", "setinfo"} /\ "free2" \notin {"movelist", "setlist"}
    BY DEF Rare, Guarded
  <2> QED
    BY <1>5, <2>1, AnyAfter
<1>9. StepsT'
  <2>1. ASSUME NEW k \in Rest(c), k.op \notin Calm
        PROVE  StepT(k, M \cup Rest(c), ret'[c], pages', list'.max, infoMax', fault')
    <3>1. StepT(k, Pend(todo[c]), ret[c], pages, list.max, infoMax, fault) /\ k.op \in Enders
      BY <1>0, <2>1 DEF StepsT, View
    <3> QED
      BY <1>1, <3>1 DEF StepT, Enders, Users
  <2>2. DOMAIN ret' = CPUs /\ \A d \in CPUs \ {c} : ret'[d] = ret[d]
    BY <1>0, <1>1
  <2>3. "free2" \in Guarded /\ RetT(ret'[c], pages')
    BY <1>0, <1>1 DEF Guarded
  <2>4. \A k \in M \cup Rest(c) : k \in M \/ k.op \notin Calm =>
          StepT(k, M \cup Rest(c), ret'[c], pages', list'.max, infoMax', fault')
    BY <1>5, <2>1
  <2> QED
    BY <1>0, <1>3, <1>5, <2>2, <2>3, <2>4, StepsAfter
<1>10. PagesT'
  BY <1>0, <1>1, <1>8 DEF PagesT, Info
<1>11. ListT'
  BY <1>0, <1>1, <1>3, <1>8, ListSame
<1>12. HeapT'
  BY <1>0, <1>1, <1>3, HeapSame
<1> QED
  BY <1>9, <1>10, <1>11, <1>12 DEF TInv

(* What InsertAt does, place by place.                                      *)
LEMMA InsertParts ==
  ASSUME NEW S, NEW s \in Seq(S), NEW x \in S, NEW i \in 1 .. Len(s) + 1
  PROVE  LET t == InsertAt(s, i, x) IN
         /\ t \in Seq(S) /\ Len(t) = Len(s) + 1
         /\ \A j \in 1 .. Len(s) + 1 :
              t[j] = IF j < i THEN s[j] ELSE IF j = i THEN x ELSE s[j - 1]
<1> DEFINE n == Len(s)
           a == SubSeq(s, 1, i - 1)
           e == <<x>>
           z == SubSeq(s, i, n)
<1>0. n \in Nat /\ i \in Int /\ 1 <= i /\ i <= n + 1 /\ DOMAIN s = 1 .. n
      /\ \A j \in 1 .. n : s[j] \in S
  BY LenProperties, ElementOfSeq
<1>1. a \in Seq(S) /\ Len(a) = i - 1 /\ \A j \in 1 .. i - 1 : a[j] = s[j]
  <2>1. \A j \in 1 .. i - 1 : s[j] \in S
    BY <1>0
  <2>2. a \in Seq(S)
    BY <1>0, <2>1, SubSeqProperties
  <2>3. Len(a) = IF 1 <= i - 1 THEN (i - 1) - 1 + 1 ELSE 0
    BY <1>0, <2>1, SubSeqProperties
  <2>4. \A j \in 1 .. i - 1 : a[j] = s[j]
    <3>1. ASSUME NEW j \in 1 .. i - 1 PROVE a[j] = s[j]
      <4>1. j \in 1 .. (i - 1) - 1 + 1 /\ 1 + j - 1 = j
        BY <1>0
      <4>2. a[j] = s[1 + j - 1]
        BY <1>0, <2>1, <4>1, SubSeqProperties
      <4> QED
        BY <4>1, <4>2
    <3> QED
      BY <3>1
  <2> QED
    BY <1>0, <2>2, <2>3, <2>4
<1>2. z \in Seq(S) /\ Len(z) = n - i + 1 /\ \A j \in 1 .. n - i + 1 : z[j] = s[i + j - 1]
  BY <1>0, SubSeqProperties
<1>3. e \in Seq(S) /\ Len(e) = 1 /\ e[1] = x
  OBVIOUS
<1> HIDE DEF a, e, z
<1>4. /\ a \o e \in Seq(S) /\ Len(a \o e) = i
      /\ \A j \in 1 .. i : (a \o e)[j] = IF j <= i - 1 THEN a[j] ELSE e[j - (i - 1)]
  <2>1. /\ a \o e \in Seq(S) /\ Len(a \o e) = Len(a) + Len(e)
        /\ \A j \in 1 .. Len(a) + Len(e) : (a \o e)[j] = IF j <= Len(a) THEN a[j] ELSE e[j - Len(a)]
    BY <1>1, <1>3, ConcatProperties
  <2>2. Len(a) + Len(e) = i
    BY <1>0, <1>1, <1>3
  <2> QED
    BY <1>1, <2>1, <2>2
<1> DEFINE y == a \o e
<1>5. y \in Seq(S) /\ Len(y) = i
      /\ \A j \in 1 .. i : y[j] = IF j <= i - 1 THEN a[j] ELSE e[j - (i - 1)]
  BY <1>4
<1> HIDE DEF y
<1> DEFINE t == y \o z
<1>6. /\ t \in Seq(S) /\ Len(t) = n + 1
      /\ \A j \in 1 .. n + 1 : t[j] = IF j <= i THEN y[j] ELSE z[j - i]
  <2>1. /\ t \in Seq(S) /\ Len(t) = Len(y) + Len(z)
        /\ \A j \in 1 .. Len(y) + Len(z) : t[j] = IF j <= Len(y) THEN y[j] ELSE z[j - Len(y)]
    BY <1>2, <1>5, ConcatProperties
  <2>2. Len(y) + Len(z) = n + 1
    BY <1>0, <1>2, <1>5
  <2> HIDE DEF t
  <2> QED
    BY <1>5, <2>1, <2>2
<1>7. t = InsertAt(s, i, x)
  BY DEF InsertAt, y, a, e, z
<1> HIDE DEF t
<1>8. ASSUME NEW j \in 1 .. n + 1
      PROVE  t[j] = IF j < i THEN s[j] ELSE IF j = i THEN x ELSE s[j - 1]
  <2>1. CASE j < i
    <3>1. j \in 1 .. i /\ j <= i - 1 /\ j <= i /\ j \in 1 .. i - 1
      BY <1>0, <2>1
    <3> QED
      BY <1>1, <1>5, <1>6, <2>1, <3>1
  <2>2. CASE j = i
    <3>1. j \in 1 .. i /\ ~(j <= i - 1) /\ j <= i /\ j - (i - 1) = 1 /\ ~(j < i)
      BY <1>0, <2>2
    <3> QED
      BY <1>3, <1>5, <1>6, <2>2, <3>1
  <2>3. CASE j > i
    <3>1. j - i \in 1 .. n - i + 1 /\ ~(j <= i) /\ i + (j - i) - 1 = j - 1 /\ ~(j < i) /\ j # i
      BY <1>0, <2>3
    <3> QED
      BY <1>2, <1>6, <3>1
  <2> QED
    BY <1>0, <2>1, <2>2, <2>3
<1> QED
  BY <1>6, <1>7, <1>8

(* The list with an entry more: what it has, and where.                     *)
LEMMA WithEntryParts ==
  ASSUME NEW s \in Seq(Chunks), NEW x \in Chunks
  PROVE  LET t == WithEntry(s, x)
             i == findClosestAllocRegion(s, x.base)
             n == Len(s)
         IN
         /\ t \in Seq(Chunks) /\ i \in 1 .. n + 1 /\ n \in Nat
         /\ \/ /\ Len(t) = n /\ i <= n /\ s[i].size = 0
               /\ \A j \in 1 .. n : t[j] = IF j = i THEN x ELSE s[j]
            \/ /\ Len(t) = n + 1
               /\ i <= n => s[i].size # 0
               /\ \A j \in 1 .. n + 1 : t[j] = IF j < i THEN s[j] ELSE IF j = i THEN x ELSE s[j - 1]
<1> DEFINE i == findClosestAllocRegion(s, x.base)
           n == Len(s)
<1>1. n \in Nat /\ DOMAIN s = 1 .. n /\ \A j \in 1 .. n : s[j] \in Chunks
  BY LenProperties, ElementOfSeq
<1>2. (\A j \in 1 .. n : s[j].base \in Int) /\ x.base \in Int
  BY <1>1 DEF Chunks
<1>3. i \in 1 .. n + 1
  BY <1>1, <1>2, SearchRight
<1>4. WithEntry(s, x) = IF i <= n /\ s[i].size = 0 THEN [s EXCEPT ![i] = x] ELSE InsertAt(s, i, x)
  BY DEF WithEntry
<1> HIDE DEF i
<1>5. CASE i <= n /\ s[i].size = 0
  <2>1. i \in 1 .. n
    BY <1>3, <1>5
  <2>2. [s EXCEPT ![i] = x] \in Seq(Chunks) /\ Len([s EXCEPT ![i] = x]) = n
        /\ \A j \in 1 .. n : [s EXCEPT ![i] = x][j] = IF j = i THEN x ELSE s[j]
    BY <2>1, ExceptSeq
  <2> QED
    BY <1>1, <1>3, <1>4, <1>5, <2>2 DEF i
<1>6. CASE ~(i <= n /\ s[i].size = 0)
  <2> DEFINE t == InsertAt(s, i, x)
  <2>1. /\ t \in Seq(Chunks) /\ Len(t) = n + 1
        /\ \A j \in 1 .. n + 1 : t[j] = IF j < i THEN s[j] ELSE IF j = i THEN x ELSE s[j - 1]
    BY <1>3, InsertParts
  <2>2. t = WithEntry(s, x)
    BY <1>4, <1>6
  <2> HIDE DEF t
  <2> QED
    BY <1>1, <1>3, <1>6, <2>1, <2>2 DEF i
<1> QED
  BY <1>5, <1>6

(* A step that changes AllocList only.                                      *)
LEMMA ListChangeT ==
  ASSUME TInv, NEW c \in CPUs, ~fault, NEW op, NEW M, View(c, op, M),
         op \in {"firstlist", "insert", "setlist", "clear"},
         UNCHANGED <<used, pages, infoMax, infoBase, copied, ret, heap, live>>,
         \A k \in M : k.op \notin {"moveinfo", "setinfo"},
         \A k \in M : StepT(k, M \cup Rest(c), ret[c], pages, list'.max, infoMax, fault'),
         ListT'
  PROVE  TInv'
<1>1. StepsT /\ PagesT /\ HeapT /\ DOMAIN ret = CPUs /\ RetT(ret[c], pages)
  BY DEF TInv, StepsT
<1>2. pages \in Nat /\ pages' \in Nat /\ pages <= pages'
  BY <1>1, PagesPositive
<1>3. op \in Guarded /\ op \notin {"malloc2", "free2"} /\ op \notin {"moveinfo", "setinfo"}
      /\ {"moveinfo", "setinfo"} \subseteq Rare
  BY DEF Guarded, Rare
<1>4. Due({"moveinfo", "setinfo"})' <=> Due({"moveinfo", "setinfo"})
  BY <1>3, CalmAny
<1>5. \A k \in M \cup Rest(c) : k \in M \/ k.op \notin Calm =>
        StepT(k, M \cup Rest(c), ret'[c], pages', list'.max, infoMax', fault')
  BY <1>3 DEF View
<1>6. DOMAIN ret' = CPUs /\ (\A d \in CPUs \ {c} : ret'[d] = ret[d]) /\ RetT(ret'[c], pages')
  BY <1>1
<1>7. StepsT'
  BY <1>1, <1>2, <1>3, <1>5, <1>6, StepsAfter
<1>8. PagesT'
  BY <1>1, <1>4, PagesSame
<1>9. HeapT'
  BY <1>1, <1>2, HeapSame
<1> QED
  BY <1>7, <1>8, <1>9 DEF TInv

(* Inside a section that CPU alone moves AllocList.                         *)
LEMMA NoListMoves ==
  ASSUME NEW c \in CPUs, NEW op, NEW M, View(c, op, M), op \in Guarded,
         op \notin {"malloc2", "free2"}
  PROVE  /\ Due({"movelist", "setlist"}) <=> op \in {"movelist", "setlist"}
         /\ Due({"movelist", "setlist"})' <=> \E k \in M : k.op \in {"movelist", "setlist"}
<1>1. {"movelist", "setlist"} \subseteq Rare
  BY DEF Rare
<1> QED
  BY <1>1, CalmAny

(* The first list of allocations keeps the types.                           *)
LEMMA FirstListT ==
  ASSUME TInv, NEW c \in CPUs, ~fault, FirstList(c), View(c, "firstlist", {})
  PROVE  TInv'
<1> DEFINE h == Head(todo[c])
           x == Chunk(h.base, h.size)
           items == <<x>>
           M == {}
<1>1. StepsT /\ PagesT /\ RetT(ret[c], pages)
  BY DEF TInv, StepsT
<1>2. /\ UNCHANGED <<used, pages, infoMax, infoBase, copied, ret, heap, live>>
      /\ list' = [base |-> ret[c], max |-> InitItems, items |-> items]
  BY DEF FirstList, historyVars, Chunk
<1>3. Legit(x, pages) /\ (ret[c] # NULL => Legit(Chunk(ret[c], ItemBlocks(InitItems)), pages))
  <2>1. /\ h.op = "firstlist" /\ Legit(x, pages)
        /\ ret[c] # NULL => Legit(Chunk(ret[c], Amount(h, list.max, infoMax)), pages)
    BY <1>1, HeadT DEF Users
  <2> HIDE DEF h
  <2>2. Amount(h, list.max, infoMax) = ItemBlocks(InitItems)
    BY <2>1 DEF Amount
  <2> QED
    BY <2>1, <2>2
<1>4. x \in Chunks
  BY <1>3 DEF Legit, Chunk, Chunks
<1> HIDE DEF x
<1>5. items \in Seq(Chunks) /\ Len(items) = 1 /\ DOMAIN items = {1} /\ items[1] = x
  <2>1. items \in Seq(Chunks) /\ Len(items) = 1 /\ items[1] = x
    BY <1>4
  <2> HIDE DEF items
  <2>2. DOMAIN items = 1 .. 1
    BY <2>1, LenProperties
  <2> QED
    BY <2>1, <2>2
<1> HIDE DEF items
<1>6. View(c, "firstlist", M) /\ \A j \in M : FALSE
  OBVIOUS
<1> HIDE DEF M
<1>7. ~Due({"movelist", "setlist"})'
  BY <1>6, NoListMoves DEF Guarded
<1>8. list'.base = ret[c] /\ list'.max = InitItems /\ list'.items = items
      /\ list' \in [base : Int, max : Nat, items : Seq(Chunks)]
  <2>1. ret[c] \in Int
    BY <1>1 DEF RetT, NULL
  <2> QED
    BY <1>2, <1>5, <2>1, Constants
<1>9. InitItems > 1 /\ InitItems \in Nat /\ InitItems >= ItemsPerBlock
  BY SizesAssumption, SizesPositive
<1>10. ListT'
  <2>1. List' = Chunk(ret[c], ItemBlocks(InitItems))
    BY <1>8 DEF List
  <2>2. list'.base # NULL => list'.max >= ItemsPerBlock /\ Legit(List', pages')
    BY <1>2, <1>3, <1>8, <1>9, <2>1
  <2>3. Len(list'.items) < list'.max /\ Len(list'.items) <= list'.max
    <3>1. Len(list'.items) = 1 /\ list'.max = InitItems
      BY <1>5, <1>8
    <3> QED
      BY <1>9, <3>1
  <2>4. \A i \in DOMAIN list'.items : list'.items[i].size # 0 => Legit(list'.items[i], pages')
    BY <1>2, <1>3, <1>5, <1>8
  <2> QED
    BY <1>7, <1>8, <2>2, <2>3, <2>4 DEF ListT
<1> QED
  BY <1>2, <1>6, <1>10, ListChangeT

(* The insertion into AllocList keeps the types.                            *)
LEMMA InsertT ==
  ASSUME TInv, NEW c \in CPUs, ~fault, Insert(c),
         View(c, "insert",
              IF Len(list'.items) > Len(list.items) /\ IsFull(Len(list'.items))
              THEN {Step("malloc2", NULL, ItemBlocks(2 * list.max)), Step("movelist", NULL, 0)}
              ELSE {})
  PROVE  TInv'
<1> DEFINE h == Head(todo[c])
           x == Chunk(h.base, h.size)
           s == list.items
           t == WithEntry(s, x)
           full == Len(list'.items) > Len(list.items) /\ IsFull(Len(list'.items))
           k == Step("malloc2", NULL, ItemBlocks(2 * list.max))
           u == Step("movelist", NULL, 0)
           M == IF full THEN {k, u} ELSE {}
<1>1. StepsT /\ PagesT /\ ListT
  BY DEF TInv, StepsT
<1>2. /\ UNCHANGED <<used, pages, infoMax, infoBase, copied, ret, heap, live>>
      /\ list.base # NULL /\ list' = [list EXCEPT !.items = t]
  BY DEF Insert, historyVars, Chunk
<1>3. Legit(x, pages)
  BY <1>1, HeadT
<1>4. x \in Chunks
  BY <1>3 DEF Legit, Chunk, Chunks
<1>5. s \in Seq(Chunks) /\ list.max \in Nat /\ list \in [base : Int, max : Nat, items : Seq(Chunks)]
  BY <1>1 DEF ListT
<1>6. View(c, "insert", M)
  OBVIOUS
<1>7. /\ k.op = "malloc2" /\ k.base = -1 /\ k.size = ItemBlocks(2 * list.max)
      /\ u.op = "movelist" /\ u.base = -1 /\ u.size = 0
  BY StepFields DEF NULL
<1> HIDE DEF h, x, k, u
<1>8. /\ t \in Seq(Chunks) /\ Len(s) \in Nat /\ Len(t) \in {Len(s), Len(s) + 1}
      /\ \A j \in DOMAIN t : t[j] = x \/ \E i \in DOMAIN s : t[j] = s[i]
  <2> DEFINE i == findClosestAllocRegion(s, x.base)
             n == Len(s)
  <2>1. /\ t \in Seq(Chunks) /\ i \in 1 .. n + 1 /\ n \in Nat
        /\ \/ /\ Len(t) = n
              /\ \A j \in 1 .. n : t[j] = IF j = i THEN x ELSE s[j]
           \/ /\ Len(t) = n + 1
              /\ \A j \in 1 .. n + 1 : t[j] = IF j < i THEN s[j] ELSE IF j = i THEN x ELSE s[j - 1]
    BY <1>4, <1>5, WithEntryParts
  <2> HIDE DEF i, t
  <2>2. DOMAIN t = 1 .. Len(t) /\ DOMAIN s = 1 .. n
    BY <1>5, <2>1, LenProperties
  <2>3. ASSUME NEW j \in DOMAIN t PROVE t[j] = x \/ \E l \in DOMAIN s : t[j] = s[l]
    <3>1. CASE Len(t) = n /\ \A l \in 1 .. n : t[l] = IF l = i THEN x ELSE s[l]
      BY <2>2, <2>3, <3>1
    <3>2. CASE /\ Len(t) = n + 1
               /\ \A l \in 1 .. n + 1 : t[l] = IF l < i THEN s[l] ELSE IF l = i THEN x ELSE s[l - 1]
      <4>1. t[j] = IF j < i THEN s[j] ELSE IF j = i THEN x ELSE s[j - 1]
        BY <2>2, <2>3, <3>2
      <4>2. j < i => j \in DOMAIN s
        BY <2>1, <2>2, <2>3, <3>2
      <4>3. j > i => j - 1 \in DOMAIN s
        BY <2>1, <2>2, <2>3, <3>2
      <4>4. j < i \/ j = i \/ (j > i /\ ~(j < i) /\ j # i)
        BY <2>1, <2>2, <2>3, <3>2
      <4> QED
        BY <4>1, <4>2, <4>3, <4>4
    <3> QED
      BY <2>1, <3>1, <3>2
  <2> QED
    BY <2>1, <2>3
<1> HIDE DEF t
<1>9. /\ list'.items = t /\ list'.max = list.max /\ list'.base = list.base
      /\ list' \in [base : Int, max : Nat, items : Seq(Chunks)]
  BY <1>2, <1>5, <1>8
<1>10. Len(s) < list.max /\ list.max >= ItemsPerBlock /\ Legit(List, pages)
       /\ (Due({"movelist", "setlist"})' <=> full)
  <2>1. ~Due({"movelist", "setlist"})
    BY <1>6, NoListMoves DEF Guarded
  <2>2. Due({"movelist", "setlist"})' <=> \E j \in M : j.op \in {"movelist", "setlist"}
    <3> HIDE DEF M
    <3> QED
      BY <1>6, NoListMoves DEF Guarded
  <2>3. full <=> \E j \in M : j.op \in {"movelist", "setlist"}
    BY <1>7
  <2> QED
    BY <1>1, <1>2, <2>1, <2>2, <2>3 DEF ListT
<1>11. full \/ Len(t) < list.max
  BY <1>5, <1>8, <1>9, <1>10 DEF IsFull
<1>12. Len(t) <= list.max
  BY <1>5, <1>8, <1>10
<1>13. \A i \in DOMAIN t : t[i].size # 0 => Legit(t[i], pages)
  BY <1>1, <1>3, <1>8 DEF ListT
<1>14. List' = List
  BY <1>9 DEF List
<1>15. ListT'
  BY <1>2, <1>9, <1>10, <1>11, <1>12, <1>13, <1>14 DEF ListT
<1>16. \A j \in M : (j = k \/ j = u) /\ k \in M /\ j.op \notin {"moveinfo", "setinfo"}
  BY <1>7
<1>17. \A j \in Rest(c) : j.op \in Calm
  BY DEF View
<1> HIDE DEF M
<1>18. ItemBlocks(2 * list.max) \in Nat \ {0}
  BY <1>1, <1>2, SizesPositive
<1>19. ASSUME k \in M
       PROVE  /\ StepT(k, M \cup Rest(c), ret[c], pages, list'.max, infoMax, fault')
              /\ StepT(u, M \cup Rest(c), ret[c], pages, list'.max, infoMax, fault')
  <2>1. Waits(M \cup Rest(c))
    BY <1>7, <1>19 DEF Waits
  <2>2. \A j \in M \cup Rest(c) : j.op \in Users => Amount(j, list'.max, infoMax) = ItemBlocks(2 * list.max)
    BY <1>7, <1>9, <1>16, <1>17 DEF Calm, Users, Amount
  <2>3. StepT(k, M \cup Rest(c), ret[c], pages, list'.max, infoMax, fault')
    BY <1>7, <1>18, <2>2 DEF StepT, Users
  <2>4. StepT(u, M \cup Rest(c), ret[c], pages, list'.max, infoMax, fault')
    BY <1>7, <2>1 DEF StepT
  <2> QED
    BY <2>3, <2>4
<1>20. \A j \in M : StepT(j, M \cup Rest(c), ret[c], pages, list'.max, infoMax, fault')
  BY <1>16, <1>19
<1> QED
  BY <1>2, <1>6, <1>15, <1>16, <1>20, ListChangeT

(* The change to the new AllocList keeps the types: the one more entry      *)
(* fits.                                                                    *)
LEMMA SetListT ==
  ASSUME TInv, NEW c \in CPUs, ~fault, SetList(c), View(c, "setlist", {})
  PROVE  TInv'
<1> DEFINE h == Head(todo[c])
           M == {}
<1>1. StepsT /\ PagesT /\ ListT
  BY DEF TInv, StepsT
<1>2. /\ UNCHANGED <<used, pages, infoMax, infoBase, copied, ret, heap, live>>
      /\ list' = [list EXCEPT !.base = h.base, !.max = 2 * @]
  BY DEF SetList
<1>3. h.base \in Int /\ (h.base # NULL => Legit(Chunk(h.base, ItemBlocks(2 * list.max)), pages))
  <2>1. h.op = "setlist" /\ StepT(h, Pend(todo[c]), ret[c], pages, list.max, infoMax, fault)
    BY <1>1, HeadT
  <2> HIDE DEF h
  <2> QED
    BY <2>1 DEF StepT
<1>4. View(c, "setlist", M) /\ \A j \in M : FALSE
  OBVIOUS
<1> HIDE DEF M, h
<1>5. Due({"movelist", "setlist"}) /\ ~Due({"movelist", "setlist"})'
  BY <1>4, NoListMoves DEF Guarded
<1>6. /\ list.base # NULL /\ list.max >= ItemsPerBlock /\ Len(list.items) <= list.max
      /\ list \in [base : Int, max : Nat, items : Seq(Chunks)] /\ Len(list.items) \in Nat
  <2>1. list.items \in Seq(Chunks)
    BY <1>1 DEF ListT
  <2>2. Len(list.items) \in Nat
    BY <2>1, LenProperties
  <2> QED
    BY <1>1, <1>5, <2>2 DEF ListT
<1>7. /\ list'.base = h.base /\ list'.max = 2 * list.max /\ list'.items = list.items
      /\ list' \in [base : Int, max : Nat, items : Seq(Chunks)]
  <2> DEFINE m == 2 * list.max
  <2>1. m \in Nat /\ list' = [list EXCEPT !.base = h.base, !.max = m]
    BY <1>2, <1>6
  <2> HIDE DEF m
  <2>2. list' = [base |-> h.base, max |-> m, items |-> list.items]
    BY <1>6, <2>1
  <2> QED
    BY <1>3, <1>6, <2>1, <2>2 DEF m
<1>8. list'.max >= ItemsPerBlock /\ Len(list'.items) < list'.max
  BY <1>6, <1>7, Constants
<1>9. \A i \in DOMAIN list'.items : list'.items[i].size # 0 => Legit(list'.items[i], pages')
  BY <1>1, <1>2, <1>7 DEF ListT
<1>10. h.base # NULL => Legit(List', pages')
  BY <1>2, <1>3, <1>7 DEF List
<1>11. Len(list'.items) <= list'.max
  BY <1>6, <1>7
<1>12. ListT'
  BY <1>5, <1>7, <1>8, <1>9, <1>10, <1>11 DEF ListT
<1> QED
  BY <1>2, <1>4, <1>12, ListChangeT

(* Entry i freed.                                                           *)
LEMMA ClearParts ==
  ASSUME ListT, NEW l, NEW i, l = [list EXCEPT !.items = [list.items EXCEPT ![i].size = 0]]
  PROVE  /\ l \in [base : Int, max : Nat, items : Seq(Chunks)]
         /\ l.base = list.base /\ l.max = list.max
         /\ Len(l.items) = Len(list.items) /\ DOMAIN l.items = DOMAIN list.items
         /\ DOMAIN list.items = 1 .. Len(list.items) /\ Len(list.items) \in Nat
         /\ \A j \in DOMAIN list.items :
              /\ list.items[j] \in Chunks
              /\ l.items[j] = IF j = i THEN [list.items[j] EXCEPT !.size = 0] ELSE list.items[j]
<1> DEFINE s == list.items
           t == [s EXCEPT ![i].size = 0]
<1>1. list \in [base : Int, max : Nat, items : Seq(Chunks)] /\ s \in Seq(Chunks)
  BY DEF ListT
<1>2. l = [list EXCEPT !.items = t]
  OBVIOUS
<1> HIDE DEF s
<1>3. Len(s) \in Nat /\ DOMAIN s = 1 .. Len(s) /\ \A j \in DOMAIN s : s[j] \in Chunks
  BY <1>1, LenProperties, ElementOfSeq
<1>4. CASE i \in DOMAIN s
  <2> DEFINE e == [s[i] EXCEPT !.size = 0]
  <2>1. e \in Chunks
    BY <1>3, <1>4 DEF Chunks
  <2>2. t = [s EXCEPT ![i] = e]
    OBVIOUS
  <2> HIDE DEF e, t
  <2>3. t \in Seq(Chunks) /\ Len(t) = Len(s) /\ \A j \in 1 .. Len(s) : t[j] = IF j = i THEN e ELSE s[j]
    BY <1>1, <1>3, <1>4, <2>1, <2>2, ExceptSeq
  <2>4. DOMAIN t = 1 .. Len(s)
    BY <2>3, LenProperties
  <2> QED
    BY <1>1, <1>2, <1>3, <2>3, <2>4 DEF e, s
<1>5. CASE i \notin DOMAIN s
  <2>1. t = s
    BY <1>1, <1>5
  <2> HIDE DEF t
  <2>2. l = list
    BY <1>1, <1>2, <2>1 DEF s
  <2> QED
    BY <1>1, <1>3, <1>5, <2>2 DEF s
<1> QED
  BY <1>4, <1>5

(* The removal of the entry of what was freed keeps the types.              *)
LEMMA ClearT ==
  ASSUME TInv, NEW c \in CPUs, ~fault, Clear(c), View(c, "clear", {})
  PROVE  TInv'
<1> DEFINE i == Closest(Head(todo[c]).base)
           M == {}
<1>1. StepsT /\ PagesT /\ ListT
  BY DEF TInv, StepsT
<1>2. /\ UNCHANGED <<used, pages, infoMax, infoBase, copied, ret, heap, live>>
      /\ list' = [list EXCEPT !.items[i].size = 0]
  BY DEF Clear, historyVars
<1>3. list' = [list EXCEPT !.items = [list.items EXCEPT ![i].size = 0]]
  BY <1>1, <1>2 DEF ListT
<1>4. View(c, "clear", M) /\ \A j \in M : FALSE
  OBVIOUS
<1> HIDE DEF M, i
<1>5. ~Due({"movelist", "setlist"}) /\ ~Due({"movelist", "setlist"})'
  BY <1>4, NoListMoves DEF Guarded
<1>6. /\ list' \in [base : Int, max : Nat, items : Seq(Chunks)]
      /\ list'.base = list.base /\ list'.max = list.max
      /\ Len(list'.items) = Len(list.items) /\ DOMAIN list'.items = DOMAIN list.items
      /\ \A j \in DOMAIN list.items :
           /\ list.items[j] \in Chunks
           /\ list'.items[j] = IF j = i THEN [list.items[j] EXCEPT !.size = 0] ELSE list.items[j]
  BY <1>1, <1>3, ClearParts
<1>7. ASSUME NEW j \in DOMAIN list'.items, list'.items[j].size # 0
      PROVE  Legit(list'.items[j], pages)
  <2>1. j \in DOMAIN list.items /\ list.items[j] \in Chunks
    BY <1>6, <1>7
  <2>2. j # i
    <3>1. [list.items[j] EXCEPT !.size = 0].size = 0
      BY <2>1 DEF Chunks
    <3> QED
      BY <1>6, <1>7, <2>1, <3>1
  <2>3. list'.items[j] = list.items[j]
    BY <1>6, <2>1, <2>2
  <2> QED
    BY <1>1, <1>7, <2>1, <2>3 DEF ListT
<1>8. List' = List
  BY <1>6 DEF List
<1>9. ListT'
  BY <1>1, <1>2, <1>5, <1>6, <1>7, <1>8 DEF ListT
<1> QED
  BY <1>2, <1>4, <1>9, ListChangeT

(* Inside a section that CPU alone moves AllocationInfoList.                *)
LEMMA NoInfoMoves ==
  ASSUME NEW c \in CPUs, NEW op, NEW M, View(c, op, M), op \in Guarded,
         op \notin {"malloc2", "free2"}
  PROVE  /\ Due({"moveinfo", "setinfo"}) <=> op \in {"moveinfo", "setinfo"}
         /\ Due({"moveinfo", "setinfo"})' <=> \E k \in M : k.op \in {"moveinfo", "setinfo"}
<1>1. {"moveinfo", "setinfo"} \subseteq Rare
  BY DEF Rare
<1> QED
  BY <1>1, CalmAny

(* The addition of a page keeps the types: AllocationInfoList has room for  *)
(* it or moves.                                                             *)
LEMMA AddPageT ==
  ASSUME TInv, NEW c \in CPUs, ~fault, AddPage(c),
         View(c, "addpage", IF pages' >= infoMax
                            THEN {Step("malloc2", NULL, InfoBlocks(2 * infoMax)),
                                  Step("moveinfo", NULL, 0)}
                            ELSE {})
  PROVE  TInv'
<1> DEFINE k == Step("malloc2", NULL, InfoBlocks(2 * infoMax))
           u == Step("moveinfo", NULL, 0)
           M == IF pages' >= infoMax THEN {k, u} ELSE {}
           P == PageBlocks
<1>1. StepsT /\ PagesT /\ ListT /\ HeapT /\ DOMAIN ret = CPUs /\ RetT(ret[c], pages)
  BY DEF TInv, StepsT
<1>2. /\ UNCHANGED <<infoMax, infoBase, copied, list, ret, heap, live, fault>>
      /\ pages < MaxPages /\ pages' = pages + 1 /\ used' = used \ PageOf(pages)
  BY DEF AddPage, historyVars
<1>3. View(c, "addpage", M)
  OBVIOUS
<1>4. /\ k.op = "malloc2" /\ k.base = -1 /\ k.size = InfoBlocks(2 * infoMax)
      /\ u.op = "moveinfo" /\ u.base = -1 /\ u.size = 0
  BY StepFields DEF NULL
<1> HIDE DEF k, u
<1>5. /\ pages' >= infoMax <=> \E j \in M : j.op \in {"moveinfo", "setinfo"}
      /\ ~\E j \in M : j.op \in {"movelist", "setlist"}
      /\ \A j \in M : (j = k \/ j = u) /\ k \in M
  BY <1>4
<1> HIDE DEF M
<1>6. ~Due({"moveinfo", "setinfo"}) /\ (Due({"moveinfo", "setinfo"})' <=> pages' >= infoMax)
  BY <1>3, <1>5, NoInfoMoves DEF Guarded
<1>7. ~Due({"movelist", "setlist"}) /\ ~Due({"movelist", "setlist"})'
  BY <1>3, <1>5, NoListMoves DEF Guarded
<1>8. /\ pages \in Nat /\ pages' \in Nat /\ pages <= pages' /\ infoMax \in Nat /\ P \in Nat /\ P > 0
      /\ pages * P \in Nat
  BY <1>1, <1>2, PagesPositive, Constants
<1>9. pages < infoMax
  BY <1>1, <1>6 DEF PagesT
<1>11. PagesT'
  <2>1. pages' \in InitPages .. MaxPages
    BY <1>1, <1>2, <1>8, Constants DEF PagesT
  <2>2. IF Due({"moveinfo", "setinfo"})' THEN pages' = infoMax' ELSE pages' < infoMax'
    BY <1>2, <1>6, <1>8, <1>9
  <2>3. Legit(Info', pages')
    <3>1. Info' = Info
      BY <1>2 DEF Info
    <3>2. Legit(Info, pages)
      BY <1>1 DEF PagesT
    <3> QED
      BY <1>8, <3>1, <3>2, LegitMore
  <2>4. \E j \in Nat \ {0} : infoMax' = j * InitInfoMax
    BY <1>1, <1>2 DEF PagesT
  <2>5. used' \subseteq Blocks(0, infoMax' * P) /\ copied' \subseteq Blocks(0, infoMax' * P)
    BY <1>1, <1>2 DEF PagesT
  <2> QED
    BY <1>2, <2>1, <2>2, <2>3, <2>4, <2>5 DEF PagesT
<1>12. \A j \in Rest(c) : j.op \in Calm
  BY <1>3 DEF View
<1>13. InfoBlocks(2 * infoMax) \in Nat \ {0}
  BY <1>1, SizesPositive
<1>14. ASSUME k \in M
       PROVE  /\ StepT(k, M \cup Rest(c), ret'[c], pages', list'.max, infoMax', fault')
              /\ StepT(u, M \cup Rest(c), ret'[c], pages', list'.max, infoMax', fault')
  <2>1. Waits(M \cup Rest(c))
    BY <1>4, <1>14 DEF Waits
  <2>2. \A j \in M \cup Rest(c) : j.op \in Users => Amount(j, list'.max, infoMax') = InfoBlocks(2 * infoMax)
    BY <1>2, <1>4, <1>5, <1>12 DEF Calm, Users, Amount
  <2>3. StepT(k, M \cup Rest(c), ret'[c], pages', list'.max, infoMax', fault')
    BY <1>4, <1>13, <2>2 DEF StepT, Users
  <2>4. StepT(u, M \cup Rest(c), ret'[c], pages', list'.max, infoMax', fault')
    BY <1>4, <2>1 DEF StepT
  <2> QED
    BY <2>3, <2>4
<1>15. StepsT'
  <2>1. \A j \in M \cup Rest(c) : j \in M \/ j.op \notin Calm =>
          StepT(j, M \cup Rest(c), ret'[c], pages', list'.max, infoMax', fault')
    BY <1>5, <1>12, <1>14
  <2>2. DOMAIN ret' = CPUs /\ (\A d \in CPUs \ {c} : ret'[d] = ret[d]) /\ RetT(ret'[c], pages')
    <3>1. RetT(ret[c], pages')
      BY <1>1, <1>8, LegitMore
    <3> QED
      BY <1>1, <1>2, <3>1
  <2>3. "addpage" \in Guarded
    BY DEF Guarded
  <2> QED
    BY <1>1, <1>3, <1>8, <2>1, <2>2, <2>3, StepsAfter
<1>16. ListT'
  BY <1>1, <1>2, <1>7, <1>8, ListSame
<1>17. HeapT'
  BY <1>1, <1>2, <1>8, HeapSame
<1> QED
  BY <1>11, <1>15, <1>16, <1>17 DEF TInv

(* The change to the new AllocationInfoList keeps the types.                *)
LEMMA SetInfoT ==
  ASSUME TInv, NEW c \in CPUs, ~fault, SetInfo(c),
         View(c, "setinfo", {Step("free2", infoBase, InfoBlocks(infoMax))})
  PROVE  TInv'
<1> DEFINE h == Head(todo[c])
           k == Step("free2", infoBase, InfoBlocks(infoMax))
           M == {k}
           P == PageBlocks
<1>1. StepsT /\ PagesT /\ ListT /\ HeapT /\ DOMAIN ret = CPUs /\ RetT(ret[c], pages)
  BY DEF TInv, StepsT
<1>2. /\ UNCHANGED <<pages, list, ret, heap, live, fault>>
      /\ infoBase' = h.base /\ infoMax' = 2 * infoMax /\ copied' = {}
      /\ used' = copied \cup Blocks(pages * P, (2 * infoMax - pages) * P)
  BY DEF SetInfo, historyVars
<1>3. View(c, "setinfo", M)
  OBVIOUS
<1>4. k.op = "free2" /\ k.base = infoBase /\ k.size = InfoBlocks(infoMax)
  BY StepFields
<1>5. Legit(Chunk(h.base, InfoBlocks(2 * infoMax)), pages)
  <2>1. h.op = "setinfo" /\ StepT(h, Pend(todo[c]), ret[c], pages, list.max, infoMax, fault)
    BY <1>1, HeadT
  <2> HIDE DEF h
  <2> QED
    BY <2>1 DEF StepT
<1> HIDE DEF h, k
<1>6. \A j \in M : j = k
  OBVIOUS
<1> HIDE DEF M
<1>7. Due({"moveinfo", "setinfo"}) /\ ~Due({"moveinfo", "setinfo"})'
      /\ ~Due({"movelist", "setlist"}) /\ ~Due({"movelist", "setlist"})'
  BY <1>3, <1>4, <1>6, NoInfoMoves, NoListMoves DEF Guarded
<1>8. /\ pages \in Nat /\ pages' \in Nat /\ pages <= pages' /\ pages = pages' /\ infoMax \in Nat
      /\ P \in Nat /\ P > 0 /\ pages * P \in Nat /\ infoMax * P \in Nat /\ infoMax > 0
      /\ pages = infoMax
  BY <1>1, <1>2, <1>7, PagesPositive, Constants DEF PagesT
<1>9. infoMax' \in Nat /\ infoMax' * P = infoMax * P + infoMax * P /\ (2 * infoMax - pages) * P = infoMax * P
  <2>1. infoMax' = infoMax + infoMax /\ 2 * infoMax - pages = infoMax
    BY <1>2, <1>8
  <2> QED
    BY <1>8, <2>1
<1> DEFINE a == infoMax * P
           b == infoMax' * P
<1>10. /\ a \in Nat /\ b = a + a /\ b \in Int
       /\ \A z : z \in used' <=> z \in copied \/ (z \in Int /\ a <= z /\ z < a + a)
  BY <1>2, <1>8, <1>9, InBlocks
<1>12. used' \subseteq Blocks(0, b) /\ copied' \subseteq Blocks(0, b)
  <2>1. \A z \in copied : z \in Int /\ 0 <= z /\ z < a
    <3>1. copied \subseteq Blocks(0, a)
      BY <1>1 DEF PagesT
    <3> QED
      BY <1>8, <3>1, InBlocks
  <2> HIDE DEF a, b
  <2>2. \A z \in used' : z \in Int /\ 0 <= z /\ z < 0 + b
    BY <1>10, <2>1
  <2>3. \A z \in used' : z \in Blocks(0, b)
    BY <1>10, <2>2, InBlocks
  <2> QED
    BY <1>2, <2>3
<1>13. PagesT'
  <2>1. pages' \in InitPages .. MaxPages
    BY <1>1, <1>2 DEF PagesT
  <2>2. pages' < infoMax'
    BY <1>2, <1>8
  <2>3. Legit(Info', pages')
    BY <1>2, <1>5 DEF Info
  <2>4. \E j \in Nat \ {0} : infoMax' = j * InitInfoMax
    <3>1. PICK j \in Nat \ {0} : infoMax = j * InitInfoMax
      BY <1>1 DEF PagesT
    <3>2. 2 * j \in Nat \ {0} /\ infoMax' = (2 * j) * InitInfoMax
      BY <1>2, <3>1, Constants
    <3> QED
      BY <3>2
  <2> QED
    BY <1>7, <1>12, <2>1, <2>2, <2>3, <2>4 DEF PagesT
<1>14. StepsT'
  <2>1. StepT(k, M \cup Rest(c), ret'[c], pages', list'.max, infoMax', fault')
    <3>1. k.base \in Int /\ k.size \in Nat /\ Legit(Chunk(k.base, k.size), pages)
      BY <1>1, <1>4 DEF PagesT, Info, Legit, Chunk
    <3> QED
      BY <1>4, <1>8, <3>1 DEF StepT, Users
  <2>2. \A j \in M \cup Rest(c) : j \in M \/ j.op \notin Calm =>
          StepT(j, M \cup Rest(c), ret'[c], pages', list'.max, infoMax', fault')
    BY <1>3, <1>6, <2>1 DEF View
  <2>3. DOMAIN ret' = CPUs /\ (\A d \in CPUs \ {c} : ret'[d] = ret[d]) /\ RetT(ret'[c], pages')
    BY <1>1, <1>2
  <2>4. "setinfo" \in Guarded
    BY DEF Guarded
  <2> QED
    BY <1>1, <1>3, <1>8, <2>2, <2>3, <2>4, StepsAfter
<1>15. ListT'
  BY <1>1, <1>2, <1>7, <1>8, ListSame
<1>16. HeapT'
  BY <1>1, <1>2, <1>8, HeapSame
<1> QED
  BY <1>13, <1>14, <1>15, <1>16 DEF TInv

(* Every piece of work keeps the types.                                     *)
LEMMA WorkT ==
  ASSUME LockInv, LevelInv, ShapeInv, TInv, NEW c \in CPUs, ~fault, Work(c)
  PROVE  ShapeInv' /\ TInv'
<1>1. ShapeInv'
  BY WorkViews
<1>2. CASE DoMalloc2(c)
  BY <1>1, <1>2, WorkViews, MallocT
<1>3. CASE DoFree2(c)
  BY <1>1, <1>3, WorkViews, FreeT
<1>4. CASE Record(c)
  BY <1>1, <1>4, WorkViews, RecordT
<1>5. CASE InsertFirst(c)
  BY <1>1, <1>5, WorkViews, InsertFirstT
<1>6. CASE FirstList(c)
  BY <1>1, <1>6, WorkViews, FirstListT
<1>7. CASE Insert(c)
  BY <1>1, <1>7, WorkViews, InsertT
<1>8. CASE MoveList(c)
  BY <1>1, <1>8, WorkViews, MoveListT
<1>9. CASE SetList(c)
  BY <1>1, <1>9, WorkViews, SetListT
<1>10. CASE Result(c) \/ Return(c) \/ Copymem(c) \/ AddTable(c)
  BY <1>1, <1>10, WorkViews, QuietT
<1>11. CASE Unlink(c)
  BY <1>1, <1>11, WorkViews, UnlinkT
<1>12. CASE Clear(c)
  BY <1>1, <1>12, WorkViews, ClearT
<1>13. CASE Resize(c)
  BY <1>1, <1>13, WorkViews, ResizeT
<1>14. CASE AddPage(c)
  BY <1>1, <1>14, WorkViews, AddPageT
<1>15. CASE MoveInfo(c)
  BY <1>1, <1>15, WorkViews, MoveInfoT
<1>16. CASE SetInfo(c)
  BY <1>1, <1>16, WorkViews, SetInfoT
<1> QED
  BY <1>2, <1>3, <1>4, <1>5, <1>6, <1>7, <1>8, <1>9, <1>10, <1>11, <1>12, <1>13, <1>14, <1>15,
     <1>16 DEF Work

(* What is still to do decides the types, not the lock.                     *)
LEMMA SameT ==
  ASSUME TInv, UNCHANGED <<mmVars, ret, heap, live>>, fault => fault',
         \A d \in CPUs : Pend(todo'[d]) = Pend(todo[d])
  PROVE  TInv'
<1>1. StepsT /\ PagesT /\ ListT /\ HeapT
      /\ UNCHANGED <<used, pages, infoMax, infoBase, copied, list>>
  BY DEF TInv, mmVars
<1>2. \A ops : Due(ops)' <=> Due(ops)
  BY DEF Due
<1>3. pages \in Nat
  BY <1>1, PagesPositive
<1>4. StepsT'
  <2>1. \A k, Q, r, p, l, m : StepT(k, Q, r, p, l, m, fault) => StepT(k, Q, r, p, l, m, fault')
    BY DEF StepT
  <2> QED
    BY <1>1, <2>1 DEF StepsT
<1>5. PagesT'
  BY <1>1, <1>2, PagesSame
<1>6. ListT'
  BY <1>1, <1>2, <1>3, ListSame
<1>7. HeapT'
  BY <1>1, <1>3, HeapSame
<1> QED
  BY <1>4, <1>5, <1>6, <1>7 DEF TInv

(* What a call begins with.                                                 *)
Begins(c, M) ==
  /\ Pend(todo[c]) = {} /\ Pend(todo'[c]) = M
  /\ \A d \in CPUs \ {c} : todo'[d] = todo[d]

(* A call begins with the steps it is given.                                *)
LEMMA CallView ==
  ASSUME LockInv, LevelInv, ShapeInv, NEW c \in CPUs, NEW steps, Calls(c, steps),
         IsSeq(steps), Form(steps), \A k \in Pend(steps) : k.op \notin Rare
  PROVE  ShapeInv' /\ Begins(c, Pend(steps))
<1>1. /\ todo[c] = <<>> /\ DOMAIN todo = CPUs /\ UNCHANGED csVars
      /\ todo' = [todo EXCEPT ![c] = steps]
  BY DEF Calls, LevelInv
<1>2. todo'[c] = steps /\ \A d \in CPUs \ {c} : todo'[d] = todo[d]
  BY <1>1
<1>3. Begins(c, Pend(steps))
  BY <1>1, <1>2, EmptyForm DEF Begins
<1>4. \A d \in CPUs : Level(d)' = Level(d)
  BY <1>1 DEF Level, csVars
<1>5. ~Rarely(c)'
  BY <1>2 DEF Rarely
<1>6. ASSUME NEW d \in CPUs \ {c} PROVE Form(todo'[d]) /\ (Rarely(d)' => Level(d)' > 0)
  BY <1>2, <1>4 DEF ShapeInv, Rarely
<1> QED
  BY <1>2, <1>3, <1>5, <1>6 DEF ShapeInv

(* What malloc, free, realloc and the addition of a page begin with.        *)
LEMMA CallViews ==
  ASSUME LockInv, LevelInv, ShapeInv, NEW c \in CPUs
  PROVE  /\ \A n \in Sizes : CallMalloc(c, n) =>
              ShapeInv' /\ Begins(c, {Step("malloc2", NULL, n), Step("record", NULL, n),
                                      Step("return", NULL, n)})
         /\ \A x : CallFree(c, x) => ShapeInv' /\ Begins(c, {Step("unlink", x.base, 0)})
         /\ \A x, n : CallRealloc(c, x, n) =>
              ShapeInv' /\ Begins(c, {Step("resize", x.base, n), Step("return", NULL, n)})
         /\ CallAddPage(c) => ShapeInv' /\ Begins(c, {Step("addpage", NULL, 0)})
<1>1. ASSUME NEW n \in Sizes, CallMalloc(c, n)
      PROVE  ShapeInv' /\ Begins(c, {Step("malloc2", NULL, n), Step("record", NULL, n),
                                     Step("return", NULL, n)})
  <2> DEFINE k == Step("malloc2", NULL, n)
             u == Step("record", NULL, n)
             v == Step("return", NULL, n)
             a == Section(k) \o <<u>>
             s == a \o <<v>>
  <2>1. Calls(c, s)
    BY <1>1 DEF CallMalloc, malloc, malloc2
  <2>2. k.op = "malloc2" /\ u.op = "record" /\ v.op = "return"
    BY StepFields
  <2> HIDE DEF k, u, v
  <2>3. IsSeq(a) /\ Pend(a) = {k, u} /\ Form(a)
    BY <2>2, FormPair DEF LockOps, Users
  <2>4. IsSeq(<<v>>) /\ Pend(<<v>>) = {v} /\ Quiet(<<v>>, 1)
    BY <2>2, FormOne DEF LockOps, Calm
  <2> HIDE DEF a
  <2>5. IsSeq(s) /\ Pend(s) = {k, u} \cup {v} /\ Form(s)
    BY <2>3, <2>4, FormConcat
  <2>6. Pend(s) = {k, u, v} /\ \A j \in Pend(s) : j.op \notin Rare
    BY <2>2, <2>5 DEF Rare
  <2> HIDE DEF s
  <2>7. ShapeInv' /\ Begins(c, {k, u, v})
    BY <2>1, <2>5, <2>6, CallView
  <2> QED
    BY <2>7 DEF k, u, v
<1>2. ASSUME NEW x, CallFree(c, x) PROVE ShapeInv' /\ Begins(c, {Step("unlink", x.base, 0)})
  <2> DEFINE k == Step("unlink", x.base, 0)
             s == Section(k)
  <2>1. Calls(c, s)
    BY <1>2 DEF CallFree, free
  <2>2. k.op = "unlink"
    BY StepFields
  <2> HIDE DEF k
  <2>3. IsSeq(s) /\ Pend(s) = {k} /\ Quiet(s, 1)
    BY <2>2, FormSection DEF LockOps, Calm
  <2> HIDE DEF s
  <2>4. Form(s) /\ \A j \in Pend(s) : j.op \notin Rare
    BY <2>2, <2>3 DEF Form, Rare
  <2>5. ShapeInv' /\ Begins(c, {k})
    BY <2>1, <2>3, <2>4, CallView
  <2> QED
    BY <2>5 DEF k
<1>3. ASSUME NEW x, NEW n, CallRealloc(c, x, n)
      PROVE  ShapeInv' /\ Begins(c, {Step("resize", x.base, n), Step("return", NULL, n)})
  <2> DEFINE k == Step("resize", x.base, n)
             v == Step("return", NULL, n)
             s == Section(k) \o <<v>>
  <2>1. Calls(c, s)
    BY <1>3 DEF CallRealloc
  <2>2. k.op = "resize" /\ v.op = "return"
    BY StepFields
  <2> HIDE DEF k, v
  <2>3. IsSeq(s) /\ Pend(s) = {k, v} /\ Form(s)
    BY <2>2, FormPair DEF LockOps, Calm, Sections
  <2> HIDE DEF s
  <2>4. \A j \in Pend(s) : j.op \notin Rare
    BY <2>2, <2>3 DEF Rare
  <2>5. ShapeInv' /\ Begins(c, {k, v})
    BY <2>1, <2>3, <2>4, CallView
  <2> QED
    BY <2>5 DEF k, v
<1>4. ASSUME CallAddPage(c) PROVE ShapeInv' /\ Begins(c, {Step("addpage", NULL, 0)})
  <2> DEFINE k == Step("addpage", NULL, 0)
             s == Section(k)
  <2>1. Calls(c, s)
    BY <1>4 DEF CallAddPage
  <2>2. k.op = "addpage"
    BY StepFields
  <2> HIDE DEF k
  <2>3. IsSeq(s) /\ Pend(s) = {k} /\ Form(s)
    BY <2>2, FormSection DEF LockOps, Sections
  <2> HIDE DEF s
  <2>4. \A j \in Pend(s) : j.op \notin Rare
    BY <2>2, <2>3 DEF Rare
  <2>5. ShapeInv' /\ Begins(c, {k})
    BY <2>1, <2>3, <2>4, CallView
  <2> QED
    BY <2>5 DEF k
<1> QED
  BY <1>1, <1>2, <1>3, <1>4

(* A call adds steps of the right types.                                    *)
LEMMA BeginT ==
  ASSUME TInv, NEW c \in CPUs, NEW M, Begins(c, M), UNCHANGED <<mmVars, ret, heap, fault>>,
         live' \subseteq live, \A k \in M : k.op \notin Rare,
         \A k \in M : StepT(k, M, ret[c], pages, list.max, infoMax, fault)
  PROVE  TInv'
<1>1. StepsT /\ PagesT /\ ListT /\ HeapT
      /\ UNCHANGED <<used, pages, infoMax, infoBase, copied, list, ret, fault, heap>>
  BY DEF TInv, mmVars
<1>2. Due({"moveinfo", "setinfo"})' <=> Due({"moveinfo", "setinfo"})
  BY DEF Due, Begins, Rare
<1>3. Due({"movelist", "setlist"})' <=> Due({"movelist", "setlist"})
  BY DEF Due, Begins, Rare
<1>4. pages \in Nat
  BY <1>1, PagesPositive
<1>5. StepsT'
  <2>1. ASSUME NEW d \in CPUs, NEW k \in Pend(todo'[d])
        PROVE  StepT(k, Pend(todo'[d]), ret[d], pages, list.max, infoMax, fault)
    <3>1. CASE d = c
      BY <2>1, <3>1 DEF Begins
    <3>2. CASE d # c
      BY <1>1, <2>1, <3>2 DEF Begins, StepsT
    <3> QED
      BY <3>1, <3>2
  <2> QED
    BY <1>1, <2>1 DEF StepsT
<1>6. PagesT'
  BY <1>1, <1>2, PagesSame
<1>7. ListT'
  BY <1>1, <1>3, <1>4, ListSame
<1>8. HeapT'
  BY <1>1, <1>4, HeapSame
<1> QED
  BY <1>5, <1>6, <1>7, <1>8 DEF TInv

(* Calls keep the types.                                                    *)
LEMMA CallT ==
  ASSUME LockInv, LevelInv, ShapeInv, TInv, NEW c \in CPUs, Call(c)
  PROVE  ShapeInv' /\ TInv'
<1>1. ASSUME NEW x \in live PROVE x.base \in Int
  BY <1>1 DEF TInv, HeapT, Chunks
<1>2. \A n \in Sizes : n \in Nat /\ n > 0
  BY SizesAssumption
<1>3. CASE \E n \in Sizes : CallMalloc(c, n)
  <2>1. PICK n \in Sizes : CallMalloc(c, n)
    BY <1>3
  <2> DEFINE k == Step("malloc2", NULL, n)
             u == Step("record", NULL, n)
             v == Step("return", NULL, n)
             M == {k, u, v}
  <2>2. ShapeInv' /\ Begins(c, M)
    BY <2>1, CallViews
  <2>3. UNCHANGED <<mmVars, ret, heap, fault>> /\ live' \subseteq live
    BY <2>1 DEF CallMalloc, Calls
  <2>4. /\ k.op = "malloc2" /\ k.base = -1 /\ k.size = n
        /\ u.op = "record" /\ u.base = -1 /\ u.size = n
        /\ v.op = "return" /\ v.base = -1 /\ v.size = n
    BY StepFields DEF NULL
  <2> HIDE DEF k, u, v
  <2>5. \A j \in M : j.op \notin Rare
    BY <2>4 DEF Rare
  <2>6. Waits(M) /\ \A j \in M : j.op \in Users => Amount(j, list.max, infoMax) = n
    BY <2>4 DEF Waits, Users, Amount
  <2>7. \A j \in M : j = k \/ j = u \/ j = v
    OBVIOUS
  <2> HIDE DEF M
  <2>8. \A j \in M : StepT(j, M, ret[c], pages, list.max, infoMax, fault)
    BY <1>2, <2>4, <2>6, <2>7 DEF StepT
  <2> QED
    BY <2>2, <2>3, <2>5, <2>8, BeginT
<1>4. CASE \E x \in live : CallFree(c, x)
  <2>1. PICK x \in live : CallFree(c, x)
    BY <1>4
  <2> DEFINE k == Step("unlink", x.base, 0)
             M == {k}
  <2>2. ShapeInv' /\ Begins(c, M)
    BY <2>1, CallViews
  <2>3. UNCHANGED <<mmVars, ret, heap, fault>> /\ live' \subseteq live
    BY <2>1 DEF CallFree, Calls
  <2>4. k.op = "unlink" /\ k.base = x.base /\ k.size = 0
    BY StepFields
  <2> HIDE DEF k
  <2>5. \A j \in M : j = k /\ j.op \notin Rare
    BY <2>4 DEF Rare
  <2> HIDE DEF M
  <2>6. \A j \in M : StepT(j, M, ret[c], pages, list.max, infoMax, fault)
    BY <1>1, <2>4, <2>5 DEF StepT, Users
  <2> QED
    BY <2>2, <2>3, <2>5, <2>6, BeginT
<1>5. CASE \E x \in live, n \in Sizes : CallRealloc(c, x, n)
  <2>1. PICK x \in live, n \in Sizes : CallRealloc(c, x, n)
    BY <1>5
  <2> DEFINE k == Step("resize", x.base, n)
             v == Step("return", NULL, n)
             M == {k, v}
  <2>2. ShapeInv' /\ Begins(c, M)
    BY <2>1, CallViews
  <2>3. UNCHANGED <<mmVars, ret, heap, fault>> /\ live' \subseteq live
    BY <2>1 DEF CallRealloc, Calls
  <2>4. k.op = "resize" /\ k.base = x.base /\ k.size = n /\ v.op = "return" /\ v.base = -1 /\ v.size = n
    BY StepFields DEF NULL
  <2> HIDE DEF k, v
  <2>5. \A j \in M : (j = k \/ j = v) /\ j.op \notin Rare
    BY <2>4 DEF Rare
  <2> HIDE DEF M
  <2>6. \A j \in M : StepT(j, M, ret[c], pages, list.max, infoMax, fault)
    BY <1>1, <1>2, <2>4, <2>5 DEF StepT, Users
  <2> QED
    BY <2>2, <2>3, <2>5, <2>6, BeginT
<1>6. CASE CallAddPage(c)
  <2> DEFINE k == Step("addpage", NULL, 0)
             M == {k}
  <2>2. ShapeInv' /\ Begins(c, M)
    BY <1>6, CallViews
  <2>3. UNCHANGED <<mmVars, ret, heap, fault>> /\ live' \subseteq live
    BY <1>6 DEF CallAddPage, Calls
  <2>4. k.op = "addpage" /\ k.base = -1 /\ k.size = 0
    BY StepFields DEF NULL
  <2> HIDE DEF k
  <2>5. \A j \in M : j = k /\ j.op \notin Rare
    BY <2>4 DEF Rare
  <2> HIDE DEF M
  <2>6. \A j \in M : StepT(j, M, ret[c], pages, list.max, infoMax, fault)
    BY <2>4, <2>5 DEF StepT, Users
  <2> QED
    BY <2>2, <2>3, <2>5, <2>6, BeginT
<1> QED
  BY <1>3, <1>4, <1>5, <1>6 DEF Call

(* The types hold after mmInit.                                             *)
LEMMA InitT == Init => ShapeInv /\ TInv
<1> SUFFICES ASSUME Init PROVE ShapeInv /\ TInv
  OBVIOUS
<1> DEFINE P == PageBlocks
           a == InitPages * P
           e == InitInfoMax * P
           n == InfoBlocks(InitInfoMax)
<1>1. \A c \in CPUs : todo[c] = <<>> /\ Pend(todo[c]) = {} /\ Form(todo[c])
  BY EmptyForm DEF Init
<1>2. ShapeInv /\ \A ops : ~Due(ops)
  BY <1>1 DEF ShapeInv, Rarely, Due
<1>3. /\ infoMax = InitInfoMax /\ infoBase = 0 /\ pages = InitPages /\ copied = {}
      /\ used = Blocks(0, n) \cup Blocks(a, (InitInfoMax - InitPages) * P)
      /\ list = [base |-> -1, max |-> 0, items |-> <<>>]
      /\ ret = [c \in CPUs |-> NULL] /\ heap = {Chunk(0, n)} /\ live = {}
  BY DEF Init, NULL, Chunk
<1>4. /\ P \in Nat /\ P > 0 /\ InitPages \in Nat /\ InitInfoMax \in Nat /\ InitInfoMax > 0
      /\ InitPages < InitInfoMax /\ MaxPages \in Nat /\ InitPages <= MaxPages
      /\ n <= a
  BY Constants, SizesAssumption DEF InfoBlocks
<1>5. n \in Nat \ {0}
  <2>1. InitInfoMax >= InfoPerBlock
    BY Multiple, Constants, SizesAssumption
  <2> QED
    BY <1>4, <2>1, Constants, Divides DEF InfoBlocks
<1>6. a \in Nat /\ e \in Nat /\ a <= e /\ InitInfoMax - InitPages \in Nat
      /\ (InitInfoMax - InitPages) * P = e - a
  <2>1. a \in Nat /\ e \in Nat /\ a <= e
    BY <1>4, Times
  <2> QED
    BY <1>4, <2>1
<1>7. \A z : z \in used <=> (z \in Int /\ 0 <= z /\ z < n) \/ (z \in Int /\ a <= z /\ z < e)
  <2> HIDE DEF n, a, e
  <2>1. \A z : z \in Blocks(0, n) <=> z \in Int /\ 0 <= z /\ z < 0 + n
    BY <1>5, InBlocks
  <2>2. \A z : z \in Blocks(a, e - a) <=> z \in Int /\ a <= z /\ z < a + (e - a)
    BY <1>6, InBlocks
  <2>3. a + (e - a) = e /\ 0 + n = n
    BY <1>5, <1>6
  <2> QED
    BY <1>3, <1>6, <2>1, <2>2, <2>3
<1>8. Legit(Info, pages)
  <2> HIDE DEF n
  <2>1. Info = Chunk(0, n)
    BY <1>3 DEF Info, n
  <2>2. pages * PageBlocks = a
    BY <1>3
  <2> HIDE DEF a
  <2> QED
    BY <1>4, <1>5, <1>6, <2>1, <2>2 DEF Legit, Chunk
<1>9. PagesT
  <2>1. pages \in InitPages .. MaxPages
    BY <1>3, <1>4
  <2>2. \E k \in Nat \ {0} : infoMax = k * InitInfoMax
    <3>1. infoMax = 1 * InitInfoMax
      BY <1>3, <1>4
    <3> QED
      BY <3>1
  <2>4. used \subseteq Blocks(0, infoMax * P) /\ copied \subseteq Blocks(0, infoMax * P)
    <3>1. infoMax * P = e
      BY <1>3
    <3> HIDE DEF e, a, n
    <3>2. \A z \in used : z \in Int /\ 0 <= z /\ z < 0 + e
      BY <1>4, <1>5, <1>6, <1>7
    <3> QED
      BY <1>3, <1>6, <3>1, <3>2, InBlocks
  <2> QED
    BY <1>2, <1>3, <1>4, <1>8, <2>1, <2>2, <2>4 DEF PagesT
<1>10. StepsT
  BY <1>1, <1>3 DEF StepsT, RetT
<1>11. ListT
  <2>1. <<>> \in Seq(Chunks) /\ Len(<<>>) = 0 /\ DOMAIN <<>> = {}
    OBVIOUS
  <2>2. list.base = -1 /\ list.max = 0 /\ list.items = <<>>
    BY <1>3
  <2>3. list \in [base : Int, max : Nat, items : Seq(Chunks)]
    BY <1>3, <2>1
  <2> QED
    BY <1>2, <2>1, <2>2, <2>3 DEF ListT, NULL
<1>12. HeapT
  <2>1. Chunk(0, n) \in Chunks /\ Chunk(0, n).base = 0
    BY <1>5 DEF Chunk, Chunks
  <2>2. 0 < pages * PageBlocks
    <3>1. pages * PageBlocks = a
      BY <1>3
    <3> HIDE DEF a, n
    <3> QED
      BY <1>4, <1>5, <1>6, <3>1
  <2> HIDE DEF n
  <2> QED
    BY <1>3, <2>1, <2>2 DEF HeapT
<1> QED
  BY <1>2, <1>9, <1>10, <1>11, <1>12 DEF TInv

(* Every step keeps the lock, the levels, the shape of what is to do, and   *)
(* the types.                                                               *)
LEMMA StepTypes ==
  ASSUME LockInv, LevelInv, ShapeInv, TInv, [Next]_vars
  PROVE  LockInv' /\ LevelInv' /\ ShapeInv' /\ TInv'
<1>1. LockInv' /\ LevelInv'
  BY LockStep, UsesLock, LevelStep
<1>2. ASSUME NEW c \in CPUs, Lock(c) PROVE ShapeInv' /\ TInv'
  <2>1. ShapeInv' /\ \A d \in CPUs : Pend(todo'[d]) = Pend(todo[d])
    BY <1>1, <1>2, LockView
  <2>2. UNCHANGED <<mmVars, ret, heap, live, fault>>
    BY <1>2 DEF Lock, historyVars
  <2> QED
    BY <2>1, <2>2, SameT
<1>3. ASSUME UNCHANGED vars \/ \E c \in CPUs : Overrun(c) PROVE ShapeInv' /\ TInv'
  <2>1. UNCHANGED <<todo, at, depth, mmVars, ret, heap, live>> /\ (fault => fault')
    BY <1>3 DEF Overrun, vars, csVars, historyVars
  <2>2. ShapeInv'
    BY <2>1 DEF ShapeInv, Rarely, Level
  <2> QED
    BY <1>1, <2>1, <2>2, SameT
<1>4. ASSUME ~fault, NEW c \in CPUs, Work(c) PROVE ShapeInv' /\ TInv'
  BY <1>4, WorkT
<1>5. ASSUME NEW c \in CPUs, Call(c) PROVE ShapeInv' /\ TInv'
  BY <1>5, CallT
<1> QED
  BY <1>1, <1>2, <1>3, <1>4, <1>5 DEF Next

(* The lock, the levels of its sections, the shape of what each CPU has     *)
(* still to do and the types of the lists, the bits and the answers are an  *)
(* inductive invariant of the memory manager.                               *)
THEOREM TypeInvariance == Spec => [](LockInv /\ LevelInv /\ ShapeInv /\ TInv)
<1>1. Init => LockInv /\ LevelInv /\ ShapeInv /\ TInv
  BY LockInit, LevelInit, InitT DEF Init
<1>2. (LockInv /\ LevelInv /\ ShapeInv /\ TInv) /\ [Next]_vars
        => (LockInv /\ LevelInv /\ ShapeInv /\ TInv)'
  BY StepTypes
<1> QED
  BY <1>1, <1>2, PTL DEF Spec

(* What malloc2, realloc and addToAllocList hand out lies in the memory     *)
(* there is, AllocList never holds more entries than it has room for, and   *)
(* no bit outside AllocationInfoList is set, for any number of CPUs and     *)
(* pages.                                                                   *)
THEOREM TypeCorrect == Spec => []TypeOK
<1>1. ASSUME LockInv, TInv PROVE TypeOK
  <2>1. StepsT /\ PagesT /\ ListT /\ HeapT
    BY <1>1 DEF TInv
  <2>2. /\ pages \in Nat /\ infoMax \in Nat /\ pages <= infoMax /\ pages * PageBlocks \in Nat
    BY <2>1, PagesPositive
  <2>3. \A z : z \in Memory <=> z \in Int /\ 0 <= z /\ z < 0 + pages * PageBlocks
    BY <2>2, InBlocks DEF Memory
  <2>4. \A b \in Nat : b < pages * PageBlocks => b \in Memory
    BY <2>2, <2>3
  <2>5. list.base \in Memory \cup {NULL}
    <3>1. list.base # NULL => List.base = list.base /\ Legit(List, pages)
      BY <2>1 DEF ListT, List, Chunk
    <3> QED
      BY <2>4, <3>1 DEF Legit
  <2>6. Len(list.items) <= list.max
    <3>1. list.max \in Nat /\ Len(list.items) \in Nat
      <4>1. list.max \in Nat /\ list.items \in Seq(Chunks)
        BY <2>1 DEF ListT
      <4> QED
        BY <4>1, LenProperties
    <3> QED
      BY <2>1, <3>1 DEF ListT
  <2>7. \A x \in heap \cup live : x.base \in Memory /\ x.size \in Nat
    <3>1. \A x \in heap \cup live : x.base \in Nat /\ x.base < pages * PageBlocks /\ x.size \in Nat
      BY <2>1 DEF HeapT, Chunks
    <3> QED
      BY <2>4, <3>1
  <2>8. \A c \in CPUs : ret[c] \in Memory \cup {NULL}
    BY <2>1, <2>4 DEF StepsT, RetT
  <2>9. pages \in InitPages .. MaxPages /\ used \subseteq Blocks(0, infoMax * PageBlocks)
    BY <2>1 DEF PagesT
  <2>10. CSTypeOK
    BY <1>1 DEF LockInv
  <2> QED
    BY <2>2, <2>5, <2>6, <2>7, <2>8, <2>9, <2>10 DEF TypeOK
<1>2. LockInv /\ LevelInv /\ ShapeInv /\ TInv => TypeOK
  BY <1>1
<1> QED
  BY <1>2, TypeInvariance, PTL

-----------------------------------------------------------------------------
(* Who has what malloc2 gave                                                *)

(* A free2 that is one step of a change of a list or of an entry: the step  *)
(* that ends the change is pending, too.                                    *)
Ended(Q) == \E k \in Q : k.op \in Enders

(* What a step holds, with lists of l entries and of bits for m pages.      *)
Carriers == {"insert", "firstlist", "setlist", "setinfo"}
Load(k, l, m) ==
  CASE k.op = "setlist" -> Chunk(k.base, ItemBlocks(2 * l))
    [] k.op = "setinfo" -> Chunk(k.base, InfoBlocks(2 * m))
    [] OTHER -> Chunk(k.base, k.size)

(* What a CPU holds between two steps: in the arguments of a step, as the   *)
(* answer of malloc2 that a pending step uses, or as what is to be freed.   *)
StepOwn(Q, l, m, x) == \E k \in Q : k.op \in Carriers /\ k.base # NULL /\ x = Load(k, l, m)
RetOwn(Q, r, l, m, x) ==
  r # NULL /\ ~Waits(Q) /\ \E k \in Q : k.op \in Users /\ x = Chunk(r, Amount(k, l, m))
FreeOwn(Q, x) == Ended(Q) /\ \E k \in Q : k.op = "free2" /\ x = Chunk(k.base, k.size)

(* The changes under way: the new AllocList not yet in place, the entry of  *)
(* what is freed not yet removed.                                           *)
Setting == \E c \in CPUs : \E k \in Pend(todo[c]) : k.op = "setlist" /\ k.base # NULL
Clearing(i) == \E c \in CPUs : \E k \in Pend(todo[c]) : k.op = "clear" /\ Closest(k.base) = i

(* The owners: AllocationInfoList, AllocList, its entries, and the CPUs.    *)
Owner(t, i) == <<t, i>>
OwnThing(o, x) ==
  \/ o = Owner("info", 0) /\ x = Info /\ ~Due({"setinfo"})
  \/ o = Owner("list", 0) /\ x = List /\ list.base # NULL /\ ~Setting
  \/ \E i \in DOMAIN list.items :
       o = Owner("item", i) /\ x = list.items[i] /\ x.size # 0 /\ ~Clearing(i)
OwnCPU(c, o, x) ==
  \/ o = Owner("step", c) /\ StepOwn(Pend(todo[c]), list.max, infoMax, x)
  \/ o = Owner("ret", c) /\ RetOwn(Pend(todo[c]), ret[c], list.max, infoMax, x)
  \/ o = Owner("free", c) /\ FreeOwn(Pend(todo[c]), x)
Own(o, x) == OwnThing(o, x) \/ \E c \in CPUs : OwnCPU(c, o, x)

(* What has an owner is allocated, and has only one.                        *)
Owned == \A o, x : Own(o, x) => x \in heap
Unique == \A o, p, x : Own(o, x) /\ Own(p, x) => o = p

Heaped(z) == \E x \in heap : z \in ChunkBlocks(x)

(* The second free2 of AllocationInfoList, still to come.                   *)
Again(z) ==
  \E c \in CPUs :
    ~Ended(Pend(todo[c])) /\ \E k \in Pend(todo[c]) : k.op = "free2" /\ z \in Cleared(k.base, k.size)

(* The chunks lie in the memory and apart from each other.                  *)
Apart ==
  /\ \A x \in heap : x.size > 0 /\ x.base + x.size <= pages * PageBlocks
  /\ \A x, y \in heap : ChunkBlocks(x) \cap ChunkBlocks(y) # {} => x = y
  /\ infoBase + InfoBlocks(infoMax) <= pages * PageBlocks
  /\ \A c \in CPUs : \A k \in Pend(todo[c]) :
       k.op = "free2" => k.base + k.size <= pages * PageBlocks

(* The bits are those of the chunks and of the blocks no free2 could reach, *)
(* except for what the second free2 has still to clear; what                *)
(* AllocationInfoList has room for and no page was added for counts as used.*)
Bits ==
  /\ Blocks(pages * PageBlocks, (infoMax - pages) * PageBlocks) \subseteq used
  /\ severed \subseteq Memory /\ \A z \in severed : ~Heaped(z)
  /\ \A z \in Memory : ~Again(z) => (z \in used <=> Heaped(z) \/ z \in severed)
  /\ \A z : Heaped(z) \/ z \in severed => ~Again(z)

(* While AllocationInfoList moves, its copy is the list, but for the bits   *)
(* free2 clears in the old one.                                             *)
Moved(Q) ==
  \/ /\ used = copied
     /\ \E k \in Q : k.op = "free2"
     /\ \A k \in Q : k.op = "free2" => Chunk(k.base, k.size) = Info
  \/ used = copied \ Cleared(infoBase, InfoBlocks(infoMax)) /\ \A k \in Q : k.op # "free2"

Moving == \A c \in CPUs : \A k \in Pend(todo[c]) : k.op = "setinfo" => Moved(Pend(todo[c]))

OInv == ~damaged => Owned /\ Unique /\ Apart /\ Bits /\ Moving

(* Owners are told apart by their kind and number.                          *)
LEMMA SameOwner ==
  ASSUME NEW t, NEW i, NEW u, NEW j
  PROVE  Owner(t, i) = Owner(u, j) <=> t = u /\ i = j
BY DEF Owner

(* Owners n1 and n2 get what p1 and p2 had; nobody else gets anything.      *)
Passed(n1, p1, n2, p2) ==
  \A o, x : Own(o, x)' => \/ o = n1 /\ Own(p1, x)
                          \/ o = n2 /\ Own(p2, x)
                          \/ o # p1 /\ o # p2 /\ Own(o, x)

(* When two owners pass on what they have, everything has an owner still    *)
(* and no more than one.                                                    *)
LEMMA OwnMoved ==
  ASSUME Owned, Unique, heap \subseteq heap', NEW n1, NEW p1, NEW n2, NEW p2, p1 # p2,
         Passed(n1, p1, n2, p2)
  PROVE  Owned' /\ Unique'
<1>1. ASSUME NEW o, NEW x, Own(o, x)' PROVE x \in heap'
  BY <1>1 DEF Owned, Passed
<1>2. ASSUME NEW o, NEW p, NEW x, Own(o, x)', Own(p, x)' PROVE o = p
  <2>1. /\ \/ o = n1 /\ Own(p1, x)
           \/ o = n2 /\ Own(p2, x)
           \/ o # p1 /\ o # p2 /\ Own(o, x)
        /\ \/ p = n1 /\ Own(p1, x)
           \/ p = n2 /\ Own(p2, x)
           \/ p # p1 /\ p # p2 /\ Own(p, x)
    BY <1>2 DEF Passed
  <2> QED
    BY <2>1 DEF Unique
<1> QED
  BY <1>1, <1>2 DEF Owned, Unique

(* The same for one owner that passes on what it has.                       *)
LEMMA OwnGiven ==
  ASSUME Owned, Unique, heap \subseteq heap', NEW n, NEW p,
         \A o, x : Own(o, x)' => (o = n /\ Own(p, x)) \/ (o # p /\ Own(o, x))
  PROVE  Owned' /\ Unique'
BY DEF Owned, Unique

(* The same when nobody gets anything.                                      *)
LEMMA OwnKeeps ==
  ASSUME Owned, Unique, heap \subseteq heap', \A o, x : Own(o, x)' => Own(o, x)
  PROVE  Owned' /\ Unique'
BY DEF Owned, Unique

(* Steps that hold and free nothing do not count.                           *)
LEMMA OwnCalm ==
  ASSUME NEW M, NEW R, \A k \in R : k.op \in Calm, NEW r, NEW l, NEW m
  PROVE  /\ \A x : StepOwn(M \cup R, l, m, x) <=> StepOwn(M, l, m, x)
         /\ \A x : RetOwn(M \cup R, r, l, m, x) <=> RetOwn(M, r, l, m, x)
         /\ \A x : FreeOwn(M \cup R, x) <=> FreeOwn(M, x)
         /\ Ended(M \cup R) <=> Ended(M)
<1>1. \A k \in R : /\ k.op \notin Carriers /\ k.op \notin Users /\ k.op \notin Enders
                   /\ k.op # "malloc2" /\ k.op # "free2"
  BY DEF Calm, Carriers, Users, Enders
<1>2. Ended(M \cup R) <=> Ended(M)
  BY <1>1 DEF Ended
<1>3. Waits(M \cup R) <=> Waits(M)
  BY <1>1 DEF Waits
<1>4. \A x : StepOwn(M \cup R, l, m, x) <=> StepOwn(M, l, m, x)
  BY <1>1 DEF StepOwn
<1>5. \A x : RetOwn(M \cup R, r, l, m, x) <=> RetOwn(M, r, l, m, x)
  BY <1>1, <1>3 DEF RetOwn
<1>6. \A x : FreeOwn(M \cup R, x) <=> FreeOwn(M, x)
  BY <1>1, <1>2 DEF FreeOwn
<1> QED
  BY <1>2, <1>4, <1>5, <1>6

(* The other CPUs keep what they have.                                      *)
LEMMA OwnOthers ==
  ASSUME NEW c \in CPUs, NEW op, NEW M, View(c, op, M), NEW d \in CPUs \ {c}, ret'[d] = ret[d],
         op \in Guarded \/ (list'.max = list.max /\ infoMax' = infoMax)
  PROVE  \A o, x : OwnCPU(d, o, x)' <=> OwnCPU(d, o, x)
<1> DEFINE Q == Pend(todo[d])
<1>1. Pend(todo'[d]) = Q
  BY DEF View
<1>2. CASE list'.max = list.max /\ infoMax' = infoMax
  BY <1>1, <1>2 DEF OwnCPU
<1>3. CASE op \in Guarded
  <2>1. \A k \in Q : k.op \notin Rare
    BY <1>3 DEF View, Rarely
  <2>2. ASSUME NEW k \in Q, NEW l, NEW m
        PROVE  /\ k.op \in Carriers => Load(k, l, m) = Chunk(k.base, k.size)
               /\ k.op \in Users => Amount(k, l, m) = k.size
    BY <2>1 DEF Rare, Carriers, Users, Load, Amount
  <2> HIDE DEF Q
  <2>3. ASSUME NEW l, NEW m, NEW x
        PROVE  StepOwn(Q, l, m, x) <=> \E k \in Q : k.op \in Carriers /\ k.base # NULL
                                                   /\ x = Chunk(k.base, k.size)
    BY <2>2 DEF StepOwn
  <2>4. ASSUME NEW r, NEW l, NEW m, NEW x
        PROVE  RetOwn(Q, r, l, m, x) <=> r # NULL /\ ~Waits(Q)
                                         /\ \E k \in Q : k.op \in Users /\ x = Chunk(r, k.size)
    BY <2>2 DEF RetOwn
  <2>5. \A x : StepOwn(Q, list'.max, infoMax', x) <=> StepOwn(Q, list.max, infoMax, x)
    BY <2>3
  <2>6. \A x : RetOwn(Q, ret'[d], list'.max, infoMax', x) <=> RetOwn(Q, ret[d], list.max, infoMax, x)
    BY <2>4
  <2> QED
    BY <1>1, <2>5, <2>6 DEF OwnCPU, Q
<1> QED
  BY <1>2, <1>3

(* After a step of c, with the steps M put in place of its first.           *)
LEMMA OwnSplit ==
  ASSUME NEW c \in CPUs, NEW op, NEW M, View(c, op, M), op \notin {"malloc2", "free2"},
         \A d \in CPUs \ {c} : ret'[d] = ret[d],
         op \in Guarded \/ (list'.max = list.max /\ infoMax' = infoMax)
  PROVE  \A o, x : Own(o, x)' =>
           \/ OwnThing(o, x)'
           \/ o = Owner("step", c) /\ StepOwn(M, list'.max, infoMax', x)
           \/ o = Owner("ret", c) /\ RetOwn(M, ret'[c], list'.max, infoMax', x)
           \/ o = Owner("free", c) /\ FreeOwn(M, x)
           \/ \E d \in CPUs \ {c} : OwnCPU(d, o, x)
<1>1. Pend(todo'[c]) = M \cup Rest(c) /\ \A k \in Rest(c) : k.op \in Calm
  BY DEF View
<1>2. ASSUME NEW o, NEW x, OwnCPU(c, o, x)'
      PROVE  \/ o = Owner("step", c) /\ StepOwn(M, list'.max, infoMax', x)
             \/ o = Owner("ret", c) /\ RetOwn(M, ret'[c], list'.max, infoMax', x)
             \/ o = Owner("free", c) /\ FreeOwn(M, x)
  BY <1>1, <1>2, OwnCalm DEF OwnCPU
<1>3. \A d \in CPUs \ {c} : \A o, x : OwnCPU(d, o, x)' => OwnCPU(d, o, x)
  BY OwnOthers
<1> QED
  BY <1>2, <1>3 DEF Own

(* A CPU's own tags.                                                        *)
LEMMA OwnTags ==
  ASSUME NEW c \in CPUs, NEW o, NEW x
  PROVE  /\ OwnCPU(c, o, x) => o \in {Owner("step", c), Owner("ret", c), Owner("free", c)}
         /\ OwnThing(o, x) => \A t \in {"step", "ret", "free"} : o # Owner(t, c)
         /\ \A d \in CPUs \ {c} : OwnCPU(d, o, x) =>
              \A t \in {"step", "ret", "free"} : o # Owner(t, c)
<1>1. ASSUME OwnThing(o, x), NEW t \in {"step", "ret", "free"} PROVE o # Owner(t, c)
  BY <1>1, SameOwner DEF OwnThing
<1>2. ASSUME NEW d \in CPUs \ {c}, OwnCPU(d, o, x), NEW t \in {"step", "ret", "free"}
      PROVE  o # Owner(t, c)
  BY <1>2, SameOwner DEF OwnCPU
<1> QED
  BY <1>1, <1>2 DEF OwnCPU

(* A step that neither frees nor ends a change leaves open which changes    *)
(* are under way.                                                           *)
LEMMA EndsSame ==
  ASSUME NEW c \in CPUs, NEW op, NEW M, View(c, op, M),
         op \notin Enders \cup {"free2"}, \A k \in M : k.op \notin Enders, UNCHANGED list
  PROVE  /\ Due({"setinfo"})' <=> Due({"setinfo"})
         /\ Setting' <=> Setting
         /\ \A i : Clearing(i)' <=> Clearing(i)
<1>1. /\ Pend(todo[c]) = {Head(todo[c])} \cup Rest(c) /\ Head(todo[c]).op = op
      /\ Pend(todo'[c]) = M \cup Rest(c)
      /\ \A d \in CPUs \ {c} : todo'[d] = todo[d]
  BY DEF View
<1>2. \A k \in Rest(c) : k.op \notin Enders
  BY DEF View, Calm, Users, Enders
<1>3. \A k \in Pend(todo[c]) \cup Pend(todo'[c]) : k.op \notin Enders
  BY <1>1, <1>2
<1>4. \A b : Closest(b)' = Closest(b)
  BY DEF Closest
<1>5. Due({"setinfo"})' <=> Due({"setinfo"})
  BY <1>1, <1>3 DEF Due, Enders
<1>6. Setting' <=> Setting
  BY <1>1, <1>3 DEF Setting, Enders
<1>7. ASSUME NEW i PROVE Clearing(i)' <=> Clearing(i)
  BY <1>1, <1>3, <1>4 DEF Clearing, Enders
<1> QED
  BY <1>5, <1>6, <1>7

(* The lists stay with what they have.                                      *)
LEMMA ThingsKept ==
  ASSUME NEW c \in CPUs, NEW op, NEW M, View(c, op, M),
         op \notin Enders \cup {"free2"}, \A k \in M : k.op \notin Enders,
         UNCHANGED <<list, infoBase, infoMax>>
  PROVE  \A o, x : OwnThing(o, x)' <=> OwnThing(o, x)
<1>1. /\ Due({"setinfo"})' <=> Due({"setinfo"})
      /\ Setting' <=> Setting
      /\ \A i : Clearing(i)' <=> Clearing(i)
  BY EndsSame
<1>2. Info' = Info /\ List' = List
  BY DEF Info, List
<1> QED
  BY <1>1, <1>2 DEF OwnThing

(* No free2 comes or goes but the one that is followed by its end.          *)
LEMMA ApartSame ==
  ASSUME NEW c \in CPUs, NEW op, NEW M, View(c, op, M), Apart,
         UNCHANGED <<pages, infoBase, infoMax, heap>>,
         \A k \in M : k.op = "free2" => k.base + k.size <= pages * PageBlocks
  PROVE  Apart'
<1>1. /\ Pend(todo[c]) = {Head(todo[c])} \cup Rest(c)
      /\ Pend(todo'[c]) = M \cup Rest(c)
      /\ \A d \in CPUs \ {c} : todo'[d] = todo[d]
  BY DEF View
<1>2. \A d \in CPUs : \A k \in Pend(todo'[d]) :
        k.op = "free2" => k.base + k.size <= pages * PageBlocks
  BY <1>1 DEF Apart
<1> QED
  BY <1>2 DEF Apart

(* A step that does not free leaves the second free2 of AllocationInfoList  *)
(* where it is.                                                             *)
LEMMA AgainSame ==
  ASSUME NEW c \in CPUs, NEW op, NEW M, View(c, op, M), op # "free2",
         \A k \in M : k.op = "free2" => Ended(M)
  PROVE  \A z : Again(z)' <=> Again(z)
<1>1. /\ Pend(todo[c]) = {Head(todo[c])} \cup Rest(c) /\ Head(todo[c]).op = op
      /\ Pend(todo'[c]) = M \cup Rest(c)
      /\ \A d \in CPUs \ {c} : todo'[d] = todo[d]
  BY DEF View
<1>2. \A k \in Rest(c) : k.op # "free2"
  BY DEF View, Calm, Users
<1>3. \A k \in Pend(todo[c]) : k.op # "free2"
  BY <1>1, <1>2
<1>4. ASSUME NEW k \in Pend(todo'[c]), k.op = "free2" PROVE Ended(Pend(todo'[c]))
  BY <1>1, <1>2, <1>4 DEF Ended
<1>5. ASSUME NEW z PROVE Again(z)' <=> Again(z)
  <2>1. Again(z) <=> \E d \in CPUs \ {c} :
          ~Ended(Pend(todo[d])) /\ \E k \in Pend(todo[d]) : k.op = "free2" /\ z \in Cleared(k.base, k.size)
    BY <1>3 DEF Again
  <2>2. Again(z)' <=> \E d \in CPUs \ {c} :
          ~Ended(Pend(todo'[d])) /\ \E k \in Pend(todo'[d]) : k.op = "free2" /\ z \in Cleared(k.base, k.size)
    BY <1>4 DEF Again
  <2> QED
    BY <1>1, <2>1, <2>2
<1> QED
  BY <1>5

(* A step that leaves the bits and what is allocated alone keeps their      *)
(* agreement.                                                               *)
LEMMA BitsSame ==
  ASSUME NEW c \in CPUs, NEW op, NEW M, View(c, op, M), op # "free2", Bits,
         \A k \in M : k.op = "free2" => Ended(M),
         UNCHANGED <<used, pages, infoMax, heap, severed>>
  PROVE  Bits'
<1>1. \A z : Again(z)' <=> Again(z)
  BY AgainSame
<1>2. Memory' = Memory /\ \A z : Heaped(z)' <=> Heaped(z)
  BY DEF Memory, Heaped
<1> QED
  BY <1>1, <1>2 DEF Bits

(* A step that does not touch the bits keeps their copy right.              *)
LEMMA MovingSame ==
  ASSUME NEW c \in CPUs, NEW op, NEW M, View(c, op, M), op \notin {"free2", "setinfo"}, Moving,
         \A k \in M : k.op # "setinfo",
         op \in Guarded \/ UNCHANGED <<used, copied, infoBase, infoMax>>
  PROVE  Moving'
<1>1. /\ Pend(todo'[c]) = M \cup Rest(c)
      /\ \A d \in CPUs \ {c} : todo'[d] = todo[d]
  BY DEF View
<1>2. \A k \in Pend(todo'[c]) : k.op # "setinfo"
  BY <1>1 DEF View, Calm, Users
<1>3. CASE op \in Guarded
  <2>1. \A d \in CPUs \ {c} : \A k \in Pend(todo'[d]) : k.op # "setinfo"
    BY <1>1, <1>3 DEF View, Rarely, Rare
  <2> QED
    BY <1>2, <2>1 DEF Moving
<1>4. CASE UNCHANGED <<used, copied, infoBase, infoMax>>
  <2>1. ASSUME NEW d \in CPUs \ {c}, NEW k \in Pend(todo'[d]), k.op = "setinfo"
        PROVE  Moved(Pend(todo[d]))'
    <3>1. Moved(Pend(todo[d])) /\ Pend(todo'[d]) = Pend(todo[d])
      BY <1>1, <2>1 DEF Moving
    <3>2. Info' = Info
      BY <1>4 DEF Info
    <3> QED
      BY <1>4, <3>1, <3>2 DEF Moved
  <2> QED
    BY <1>2, <2>1 DEF Moving
<1> QED
  BY <1>3, <1>4

(* c does a step that leaves the memory alone; what its next steps hold, it *)
(* had as p.                                                                *)
LEMMA PlainO ==
  ASSUME OInv, NEW c \in CPUs, NEW op, NEW M, View(c, op, M),
         op \notin {"malloc2", "free2"} \cup Enders, \A k \in M : k.op \notin Enders \cup {"free2"},
         UNCHANGED <<mmVars, heap, severed, damaged>>, \A d \in CPUs \ {c} : ret'[d] = ret[d],
         NEW t \in {"step", "ret"},
         \A x : StepOwn(M, list.max, infoMax, x) => Own(Owner(t, c), x),
         \A x : ~RetOwn(M, ret'[c], list.max, infoMax, x)
  PROVE  OInv'
<1> SUFFICES ASSUME ~damaged PROVE (Owned /\ Unique /\ Apart /\ Bits /\ Moving)'
  BY DEF OInv
<1>0. Owned /\ Unique /\ Apart /\ Bits /\ Moving
  BY DEF OInv
<1>1. UNCHANGED <<used, pages, infoMax, infoBase, copied, list>>
  BY DEF mmVars
<1> DEFINE p == Owner(t, c)
           n == Owner("step", c)
<1>2. ASSUME NEW o, NEW x, Own(o, x)'
      PROVE  (o = n /\ Own(p, x)) \/ (o # p /\ Own(o, x))
  <2>1. \/ OwnThing(o, x)'
        \/ o = Owner("step", c) /\ StepOwn(M, list'.max, infoMax', x)
        \/ o = Owner("ret", c) /\ RetOwn(M, ret'[c], list'.max, infoMax', x)
        \/ o = Owner("free", c) /\ FreeOwn(M, x)
        \/ \E d \in CPUs \ {c} : OwnCPU(d, o, x)
    BY <1>1, <1>2, OwnSplit
  <2>2. CASE OwnThing(o, x)'
    <3>1. OwnThing(o, x)
      BY <1>1, <2>2, ThingsKept
    <3> QED
      BY <3>1, OwnTags DEF Own
  <2>3. CASE o = Owner("step", c) /\ StepOwn(M, list'.max, infoMax', x)
    BY <1>1, <2>3
  <2>4. ~RetOwn(M, ret'[c], list'.max, infoMax', x)
    BY <1>1
  <2>5. ~FreeOwn(M, x)
    BY DEF FreeOwn
  <2>6. CASE \E d \in CPUs \ {c} : OwnCPU(d, o, x)
    BY <2>6, OwnTags DEF Own
  <2> QED
    BY <2>1, <2>2, <2>3, <2>4, <2>5, <2>6
<1> HIDE DEF p, n
<1>3. Owned' /\ Unique'
  <2>1. heap \subseteq heap'
    OBVIOUS
  <2> QED
    BY <1>0, <1>2, <2>1, OwnGiven
<1>4. Apart'
  BY <1>0, <1>1, ApartSame
<1>5. Bits'
  BY <1>0, <1>1, BitsSame
<1>6. Moving'
  BY <1>0, <1>1, MovingSame DEF Enders
<1> QED
  BY <1>3, <1>4, <1>5, <1>6

(* Steps that carry nothing and wait for malloc2, or do not use it, hold    *)
(* nothing.                                                                 *)
LEMMA HoldsNothing ==
  ASSUME NEW M, NEW r, NEW l, NEW m, \A k \in M : k.op \notin Carriers,
         Waits(M) \/ \A k \in M : k.op \notin Users
  PROVE  (\A x : ~StepOwn(M, l, m, x)) /\ (\A x : ~RetOwn(M, r, l, m, x))
BY DEF StepOwn, RetOwn

(* Answers and the steps on the page table keep the ownership.              *)
LEMMA QuietO ==
  ASSUME OInv, StepsT, NEW c \in CPUs,
         \/ Result(c) /\ View(c, "result", {})
         \/ Return(c) /\ View(c, "return", {})
         \/ Copymem(c) /\ View(c, "copymem", {})
         \/ AddTable(c) /\ View(c, "addpage", {})
  PROVE  OInv'
<1> DEFINE M == {}
<1>1. PICK op \in {"result", "return", "copymem", "addpage"} : View(c, op, M)
  OBVIOUS
<1>2. \A k \in M : FALSE
  OBVIOUS
<1> HIDE DEF M
<1>3. DOMAIN ret = CPUs
  BY DEF StepsT
<1>4. UNCHANGED <<mmVars, heap, severed, damaged>> /\ \A d \in CPUs \ {c} : ret'[d] = ret[d]
  BY <1>3 DEF Result, Return, Copymem, AddTable, historyVars
<1>5. \A x : ~StepOwn(M, list.max, infoMax, x) /\ ~RetOwn(M, ret'[c], list.max, infoMax, x)
  BY <1>2, HoldsNothing
<1>6. op \notin {"malloc2", "free2"} \cup Enders
  BY DEF Enders
<1> QED
  BY <1>1, <1>2, <1>4, <1>5, <1>6, PlainO

(* realloc's look at the entry keeps the ownership.                         *)
LEMMA ResizeO ==
  ASSUME OInv, NEW c \in CPUs, Resize(c),
         View(c, "resize", IF Searchable /\ Found(Head(todo[c]).base)
                           THEN {Step("malloc2", NULL, Head(todo[c]).size),
                                 Step("record", NULL, Head(todo[c]).size),
                                 Step("copymem", NULL, 0), Step("unlink", Head(todo[c]).base, 0)}
                           ELSE {Step("error", NULL, 0)})
  PROVE  OInv'
<1> DEFINE h == Head(todo[c])
           k == Step("malloc2", NULL, h.size)
           u == Step("record", NULL, h.size)
           v == Step("copymem", NULL, 0)
           w == Step("unlink", h.base, 0)
           e == Step("error", NULL, 0)
           M == IF Searchable /\ Found(h.base) THEN {k, u, v, w} ELSE {e}
<1>1. View(c, "resize", M)
  OBVIOUS
<1>2. k.op = "malloc2" /\ u.op = "record" /\ v.op = "copymem" /\ w.op = "unlink" /\ e.op = "error"
  BY StepFields
<1> HIDE DEF h, k, u, v, w, e
<1>3. /\ \A j \in M : j.op \in {"malloc2", "record", "copymem", "unlink", "error"}
      /\ Waits(M) \/ \A j \in M : j.op = "error"
  BY <1>2 DEF Waits
<1> HIDE DEF M
<1>4. UNCHANGED <<mmVars, heap, severed, damaged, ret>>
  BY DEF Resize, historyVars
<1>5. \A x : ~StepOwn(M, list.max, infoMax, x) /\ ~RetOwn(M, ret'[c], list.max, infoMax, x)
  BY <1>3, HoldsNothing DEF Carriers, Users
<1>6. /\ "resize" \notin {"malloc2", "free2"} \cup Enders
      /\ \A j \in M : j.op \notin Enders \cup {"free2"}
  BY <1>3 DEF Enders
<1> QED
  BY <1>1, <1>4, <1>5, <1>6, PlainO

(* What the step a CPU is about to take holds.                              *)
LEMMA HeadOwns ==
  ASSUME NEW c \in CPUs, NEW op, NEW M, View(c, op, M)
  PROVE  LET k == Head(todo[c]) IN
         /\ k \in Pend(todo[c]) /\ k.op = op
         /\ op \in Carriers /\ k.base # NULL => Own(Owner("step", c), Load(k, list.max, infoMax))
         /\ op \in Users /\ ret[c] # NULL =>
              Own(Owner("ret", c), Chunk(ret[c], Amount(k, list.max, infoMax)))
<1> DEFINE k == Head(todo[c])
           Q == Pend(todo[c])
<1>1. k \in Q /\ k.op = op /\ Q = {k} \cup Rest(c)
  BY DEF View
<1> HIDE DEF k, Q
<1>2. ASSUME op \in Carriers, k.base # NULL PROVE Own(Owner("step", c), Load(k, list.max, infoMax))
  <2>1. StepOwn(Q, list.max, infoMax, Load(k, list.max, infoMax))
    BY <1>1, <1>2 DEF StepOwn
  <2> QED
    BY <2>1 DEF Own, OwnCPU, Q
<1>3. ASSUME op \in Users, ret[c] # NULL
      PROVE  Own(Owner("ret", c), Chunk(ret[c], Amount(k, list.max, infoMax)))
  <2>1. \A j \in Rest(c) : j.op # "malloc2"
    BY <1>3 DEF View, Users, Calm
  <2>2. ~Waits(Q)
    BY <1>1, <1>3, <2>1 DEF Waits, Users
  <2>3. RetOwn(Q, ret[c], list.max, infoMax, Chunk(ret[c], Amount(k, list.max, infoMax)))
    BY <1>1, <1>3, <2>2 DEF RetOwn
  <2> QED
    BY <2>3 DEF Own, OwnCPU, Q
<1> QED
  BY <1>1, <1>2, <1>3 DEF k, Q

(* recordAllocation passes what malloc2 gave to the insertion.              *)
LEMMA RecordO ==
  ASSUME OInv, NEW c \in CPUs, Record(c),
         View(c, "record", IF ret[c] = NULL THEN {}
                           ELSE {Step("insert", ret[c], Head(todo[c]).size),
                                 Step("result", ret[c], Head(todo[c]).size)})
  PROVE  OInv'
<1> DEFINE h == Head(todo[c])
           i == Step("insert", ret[c], h.size)
           o == Step("result", ret[c], h.size)
           M == IF ret[c] = NULL THEN {} ELSE {i, o}
<1>1. View(c, "record", M)
  OBVIOUS
<1>2. i.op = "insert" /\ i.base = ret[c] /\ i.size = h.size /\ o.op = "result"
  BY StepFields
<1>3. ret[c] # NULL => Own(Owner("ret", c), Chunk(ret[c], h.size))
  <2>1. /\ h.op = "record"
        /\ ret[c] # NULL => Own(Owner("ret", c), Chunk(ret[c], Amount(h, list.max, infoMax)))
    BY <1>1, HeadOwns DEF Users
  <2> QED
    BY <2>1 DEF Amount
<1> HIDE DEF h, i, o
<1>4. \A j \in M : ret[c] # NULL /\ (j = i \/ j = o)
  OBVIOUS
<1> HIDE DEF M
<1>5. UNCHANGED <<mmVars, heap, severed, damaged, ret>>
  BY DEF Record, historyVars
<1>6. Load(i, list.max, infoMax) = Chunk(ret[c], h.size)
  BY <1>2 DEF Load
<1>7. \A x : StepOwn(M, list.max, infoMax, x) => Own(Owner("ret", c), x)
  BY <1>2, <1>3, <1>4, <1>6 DEF StepOwn, Carriers
<1>8. \A x : ~RetOwn(M, ret'[c], list.max, infoMax, x)
  BY <1>2, <1>4 DEF RetOwn, Users
<1>9. /\ "record" \notin {"malloc2", "free2"} \cup Enders
      /\ \A j \in M : j.op \notin Enders \cup {"free2"}
  BY <1>2, <1>4 DEF Enders
<1> QED
  BY <1>1, <1>5, <1>7, <1>8, <1>9, PlainO

(* addToAllocList with no list yet keeps the ownership.                     *)
LEMMA InsertFirstO ==
  ASSUME OInv, NEW c \in CPUs, InsertFirst(c),
         View(c, "insert", {Step("malloc2", NULL, ItemBlocks(InitItems)),
                            Step("firstlist", Head(todo[c]).base, Head(todo[c]).size)})
  PROVE  OInv'
<1> DEFINE h == Head(todo[c])
           k == Step("malloc2", NULL, ItemBlocks(InitItems))
           u == Step("firstlist", h.base, h.size)
           M == {k, u}
<1>1. View(c, "insert", M)
  OBVIOUS
<1>2. k.op = "malloc2" /\ u.op = "firstlist" /\ u.base = h.base /\ u.size = h.size
  BY StepFields
<1>3. h.base # NULL => Own(Owner("step", c), Chunk(h.base, h.size))
  <2>1. h.op = "insert" /\ (h.base # NULL => Own(Owner("step", c), Load(h, list.max, infoMax)))
    BY <1>1, HeadOwns DEF Carriers
  <2> QED
    BY <2>1 DEF Load
<1> HIDE DEF h, k, u
<1>4. (\A j \in M : j = k \/ j = u) /\ Waits(M)
  BY <1>2 DEF Waits
<1> HIDE DEF M
<1>5. UNCHANGED <<mmVars, heap, severed, damaged, ret>>
  BY DEF InsertFirst, historyVars
<1>6. Load(u, list.max, infoMax) = Chunk(h.base, h.size)
  BY <1>2 DEF Load
<1>7. \A x : StepOwn(M, list.max, infoMax, x) => Own(Owner("step", c), x)
  BY <1>2, <1>3, <1>4, <1>6 DEF StepOwn, Carriers
<1>8. \A x : ~RetOwn(M, ret'[c], list.max, infoMax, x)
  BY <1>4 DEF RetOwn
<1>9. /\ "insert" \notin {"malloc2", "free2"} \cup Enders
      /\ \A j \in M : j.op \notin Enders \cup {"free2"}
  BY <1>2, <1>4 DEF Enders
<1> QED
  BY <1>1, <1>5, <1>7, <1>8, <1>9, PlainO

(* What ends is with the CPU that has the lock.                             *)
LEMMA EndsOnly ==
  ASSUME NEW c \in CPUs, NEW op, NEW M, View(c, op, M), op \in Guarded \ {"malloc2", "free2"}
  PROVE  LET b == Head(todo[c]).base IN
         /\ Due({"setinfo"}) <=> op = "setinfo"
         /\ Due({"setinfo"})' <=> \E k \in M : k.op = "setinfo"
         /\ Setting <=> op = "setlist" /\ b # NULL
         /\ Setting' <=> \E k \in M : k.op = "setlist" /\ k.base # NULL
         /\ \A i : Clearing(i) <=> op = "clear" /\ Closest(b) = i
         /\ \A i : Clearing(i)' <=> \E k \in M : k.op = "clear" /\ Closest(k.base)' = i
<1> DEFINE h == Head(todo[c])
<1>1. /\ Pend(todo[c]) = {h} \cup Rest(c) /\ h.op = op
      /\ Pend(todo'[c]) = M \cup Rest(c)
      /\ \A d \in CPUs \ {c} : todo'[d] = todo[d]
  BY DEF View
<1>2. \A k \in Rest(c) : k.op \notin {"setinfo", "setlist", "clear"}
  BY DEF View, Calm
<1>3. \A d \in CPUs \ {c} : \A k \in Pend(todo[d]) : k.op \notin {"setinfo", "setlist", "clear"}
  BY DEF View, Rarely, Rare
<1> HIDE DEF h
<1>4. Due({"setinfo"}) <=> op = "setinfo"
  BY <1>1, <1>2, <1>3 DEF Due
<1>5. Due({"setinfo"})' <=> \E k \in M : k.op = "setinfo"
  BY <1>1, <1>2, <1>3 DEF Due
<1>6. Setting <=> op = "setlist" /\ h.base # NULL
  BY <1>1, <1>2, <1>3 DEF Setting
<1>7. Setting' <=> \E k \in M : k.op = "setlist" /\ k.base # NULL
  BY <1>1, <1>2, <1>3 DEF Setting
<1>8. \A i : Clearing(i) <=> op = "clear" /\ Closest(h.base) = i
  BY <1>1, <1>2, <1>3 DEF Clearing
<1>9. \A i : Clearing(i)' <=> \E k \in M : k.op = "clear" /\ Closest(k.base)' = i
  BY <1>1, <1>2, <1>3 DEF Clearing
<1> QED
  BY <1>4, <1>5, <1>6, <1>7, <1>8, <1>9 DEF h

(* The same for a step that changes neither the bits nor the memory.        *)
LEMMA CoreO ==
  ASSUME OInv, NEW c \in CPUs, NEW op, NEW M, View(c, op, M), op \notin {"free2", "setinfo"},
         UNCHANGED <<used, pages, infoMax, infoBase, copied, heap, severed, damaged>>,
         \A k \in M : k.op # "setinfo",
         ~damaged => \A k \in M : k.op = "free2" => Ended(M) /\ k.base + k.size <= pages * PageBlocks,
         ~damaged => Owned' /\ Unique'
  PROVE  OInv'
<1> SUFFICES ASSUME ~damaged PROVE (Owned /\ Unique /\ Apart /\ Bits /\ Moving)'
  BY DEF OInv
<1>0. Apart /\ Bits /\ Moving
  BY DEF OInv
<1>1. Apart'
  BY <1>0, ApartSame
<1>2. Bits'
  BY <1>0, BitsSame
<1>3. Moving'
  BY <1>0, MovingSame
<1> QED
  BY <1>1, <1>2, <1>3

(* What the two lists and the entries own.                                  *)
LEMMA ThingIs ==
  ASSUME NEW o, NEW x, Info' = Info, Due({"setinfo"})' <=> Due({"setinfo"}), OwnThing(o, x)'
  PROVE  \/ o = Owner("info", 0) /\ OwnThing(o, x)
         \/ o = Owner("list", 0) /\ x = List' /\ list'.base # NULL /\ ~Setting'
         \/ \E i \in DOMAIN list'.items :
              o = Owner("item", i) /\ x = list'.items[i] /\ x.size # 0 /\ ~Clearing(i)'
BY DEF OwnThing

(* The first list takes what malloc2 gave it and the first entry.           *)
LEMMA FirstListO ==
  ASSUME OInv, StepsT, NEW c \in CPUs, FirstList(c), View(c, "firstlist", {})
  PROVE  OInv'
<1> DEFINE h == Head(todo[c])
           y == Chunk(h.base, h.size)
           items == <<y>>
           M == {}
<1>1. /\ UNCHANGED <<used, pages, infoMax, infoBase, copied, ret, heap, severed, damaged>>
      /\ list' = [base |-> ret[c], max |-> InitItems, items |-> items]
  BY DEF FirstList, historyVars, Chunk
<1>2. /\ Own(Owner("step", c), y)
      /\ ret[c] # NULL => Own(Owner("ret", c), Chunk(ret[c], ItemBlocks(InitItems)))
  <2>1. h.op = "firstlist" /\ Legit(y, pages) /\ h.base = y.base
    BY HeadT DEF Chunk
  <2>2. h.base # NULL
    BY <2>1 DEF Legit, NULL
  <2>3. /\ Own(Owner("step", c), Load(h, list.max, infoMax))
        /\ ret[c] # NULL => Own(Owner("ret", c), Chunk(ret[c], Amount(h, list.max, infoMax)))
    BY <2>2, HeadOwns DEF Carriers, Users
  <2> HIDE DEF h
  <2>4. Load(h, list.max, infoMax) = y /\ Amount(h, list.max, infoMax) = ItemBlocks(InitItems)
    BY <2>1 DEF Load, Amount
  <2> QED
    BY <2>3, <2>4
<1>3. View(c, "firstlist", M) /\ \A k \in M : FALSE
  OBVIOUS
<1> HIDE DEF h, y, M
<1>4. DOMAIN items = {1} /\ items[1] = y
  OBVIOUS
<1> HIDE DEF items
<1>5. list'.base = ret[c] /\ List' = Chunk(ret[c], ItemBlocks(InitItems)) /\ list'.items = items
  BY <1>1 DEF List
<1>6. Due({"setinfo"})' <=> Due({"setinfo"})
  BY <1>3, EndsOnly DEF Guarded
<1>7. Info' = Info
  BY <1>1 DEF Info
<1> DEFINE n1 == Owner("list", 0)
           p1 == Owner("ret", c)
           n2 == Owner("item", 1)
           p2 == Owner("step", c)
<1>8. ASSUME NEW o, NEW x, Own(o, x)'
      PROVE  \/ o = n1 /\ Own(p1, x)
             \/ o = n2 /\ Own(p2, x)
             \/ o # p1 /\ o # p2 /\ Own(o, x)
  <2>1. \/ OwnThing(o, x)'
        \/ o = Owner("step", c) /\ StepOwn(M, list'.max, infoMax', x)
        \/ o = Owner("ret", c) /\ RetOwn(M, ret'[c], list'.max, infoMax', x)
        \/ o = Owner("free", c) /\ FreeOwn(M, x)
        \/ \E d \in CPUs \ {c} : OwnCPU(d, o, x)
    BY <1>1, <1>3, <1>8, OwnSplit DEF Guarded
  <2>2. CASE OwnThing(o, x)'
    <3>1. \/ o = Owner("info", 0) /\ OwnThing(o, x)
          \/ o = Owner("list", 0) /\ x = List' /\ list'.base # NULL /\ ~Setting'
          \/ \E i \in DOMAIN list'.items :
               o = Owner("item", i) /\ x = list'.items[i] /\ x.size # 0 /\ ~Clearing(i)'
      BY <1>6, <1>7, <2>2, ThingIs
    <3>2. CASE o = Owner("info", 0) /\ OwnThing(o, x)
      BY <3>2, OwnTags DEF Own
    <3> QED
      BY <1>2, <1>4, <1>5, <3>1, <3>2
  <2>3. ~StepOwn(M, list'.max, infoMax', x) /\ ~RetOwn(M, ret'[c], list'.max, infoMax', x)
        /\ ~FreeOwn(M, x)
    BY <1>3 DEF StepOwn, RetOwn, FreeOwn
  <2>4. CASE \E d \in CPUs \ {c} : OwnCPU(d, o, x)
    BY <2>4, OwnTags DEF Own
  <2> QED
    BY <2>1, <2>2, <2>3, <2>4
<1>9. p1 # p2
  BY SameOwner
<1> HIDE DEF n1, p1, n2, p2
<1>10. ASSUME ~damaged PROVE Owned' /\ Unique'
  <2>1. heap \subseteq heap' /\ Passed(n1, p1, n2, p2)
    BY <1>1, <1>8 DEF Passed
  <2>2. Owned /\ Unique
    BY <1>10 DEF OInv
  <2> QED
    BY <1>9, <2>1, <2>2, OwnMoved
<1> QED
  BY <1>1, <1>3, <1>10, CoreO

(* The new AllocList takes over: its blocks and the one more entry have     *)
(* their owner.                                                             *)
LEMMA SetListO ==
  ASSUME OInv, TInv, NEW c \in CPUs, SetList(c), View(c, "setlist", {})
  PROVE  OInv'
<1> DEFINE h == Head(todo[c])
           M == {}
<1>1. /\ UNCHANGED <<used, pages, infoMax, infoBase, copied, ret, heap, severed, damaged>>
      /\ list' = [list EXCEPT !.base = h.base, !.max = 2 * @]
  BY DEF SetList
<1>2. list \in [base : Int, max : Nat, items : Seq(Chunks)]
  BY DEF TInv, ListT
<1>3. list'.base = h.base /\ list'.max = 2 * list.max /\ list'.items = list.items
  BY <1>1, <1>2
<1>4. List' = Chunk(h.base, ItemBlocks(2 * list.max))
  BY <1>3 DEF List
<1>5. h.base # NULL => Own(Owner("step", c), Chunk(h.base, ItemBlocks(2 * list.max)))
  <2>1. h.op = "setlist" /\ (h.base # NULL => Own(Owner("step", c), Load(h, list.max, infoMax)))
    BY HeadOwns DEF Carriers
  <2> HIDE DEF h
  <2>2. Load(h, list.max, infoMax) = Chunk(h.base, ItemBlocks(2 * list.max))
    BY <2>1 DEF Load
  <2> QED
    BY <2>1, <2>2
<1>6. View(c, "setlist", M) /\ \A k \in M : FALSE
  OBVIOUS
<1> HIDE DEF M
<1>7. /\ Due({"setinfo"})' <=> Due({"setinfo"})
      /\ \A i : Clearing(i)' <=> Clearing(i)
  BY <1>6, EndsOnly DEF Guarded
<1>8. Info' = Info
  BY <1>1 DEF Info
<1> HIDE DEF h
<1> DEFINE n == Owner("list", 0)
           p == Owner("step", c)
<1>9. ASSUME NEW o, NEW x, Own(o, x)' PROVE (o = n /\ Own(p, x)) \/ (o # p /\ Own(o, x))
  <2>1. \/ OwnThing(o, x)'
        \/ o = Owner("step", c) /\ StepOwn(M, list'.max, infoMax', x)
        \/ o = Owner("ret", c) /\ RetOwn(M, ret'[c], list'.max, infoMax', x)
        \/ o = Owner("free", c) /\ FreeOwn(M, x)
        \/ \E d \in CPUs \ {c} : OwnCPU(d, o, x)
    BY <1>1, <1>6, <1>9, OwnSplit DEF Guarded
  <2>2. CASE OwnThing(o, x)'
    <3>1. \/ o = Owner("info", 0) /\ OwnThing(o, x)
          \/ o = Owner("list", 0) /\ x = List' /\ list'.base # NULL /\ ~Setting'
          \/ \E i \in DOMAIN list'.items :
               o = Owner("item", i) /\ x = list'.items[i] /\ x.size # 0 /\ ~Clearing(i)'
      BY <1>7, <1>8, <2>2, ThingIs
    <3>2. CASE o = Owner("list", 0) /\ x = List' /\ list'.base # NULL
      BY <1>3, <1>4, <1>5, <3>2
    <3>3. CASE OwnThing(o, x)
      BY <3>3, OwnTags DEF Own
    <3>4. CASE \E i \in DOMAIN list'.items :
                 o = Owner("item", i) /\ x = list'.items[i] /\ x.size # 0 /\ ~Clearing(i)'
      <4>1. OwnThing(o, x)
        BY <1>3, <1>7, <3>4 DEF OwnThing
      <4> QED
        BY <3>3, <4>1
    <3> QED
      BY <3>1, <3>2, <3>3, <3>4
  <2>3. ~StepOwn(M, list'.max, infoMax', x) /\ ~RetOwn(M, ret'[c], list'.max, infoMax', x)
        /\ ~FreeOwn(M, x)
    BY <1>6 DEF StepOwn, RetOwn, FreeOwn
  <2>4. CASE \E d \in CPUs \ {c} : OwnCPU(d, o, x)
    BY <2>4, OwnTags DEF Own
  <2> QED
    BY <2>1, <2>2, <2>3, <2>4
<1> HIDE DEF n, p
<1>10. ~damaged => Owned' /\ Unique'
  <2>1. heap \subseteq heap'
    BY <1>1
  <2> QED
    BY <1>9, <2>1, OwnGiven DEF OInv
<1> QED
  BY <1>1, <1>6, <1>10, CoreO

(* The entry that is removed held what was freed.                           *)
LEMMA ClearO ==
  ASSUME OInv, TInv, NEW c \in CPUs, Clear(c), View(c, "clear", {})
  PROVE  OInv'
<1> DEFINE i == Closest(Head(todo[c]).base)
           M == {}
<1>1. /\ UNCHANGED <<used, pages, infoMax, infoBase, copied, ret, heap, severed, damaged>>
      /\ list' = [list EXCEPT !.items[i].size = 0]
  BY DEF Clear, historyVars
<1>2. ListT
  BY DEF TInv
<1>3. list' = [list EXCEPT !.items = [list.items EXCEPT ![i].size = 0]]
  BY <1>1, <1>2 DEF ListT
<1>4. View(c, "clear", M) /\ \A j \in M : FALSE
  OBVIOUS
<1>5. /\ Due({"setinfo"})' <=> Due({"setinfo"})
      /\ Setting' <=> Setting
      /\ \A j : Clearing(j) <=> i = j
  <2> HIDE DEF M
  <2> QED
    BY <1>4, EndsOnly DEF Guarded
<1> HIDE DEF M, i
<1>6. /\ list'.base = list.base /\ list'.max = list.max /\ DOMAIN list'.items = DOMAIN list.items
      /\ \A j \in DOMAIN list.items :
           /\ list.items[j] \in Chunks
           /\ list'.items[j] = IF j = i THEN [list.items[j] EXCEPT !.size = 0] ELSE list.items[j]
  BY <1>2, <1>3, ClearParts
<1>7. Info' = Info /\ List' = List
  BY <1>1, <1>6 DEF Info, List
<1>8. ASSUME NEW o, NEW x, Own(o, x)' PROVE Own(o, x)
  <2>1. \/ OwnThing(o, x)'
        \/ o = Owner("step", c) /\ StepOwn(M, list'.max, infoMax', x)
        \/ o = Owner("ret", c) /\ RetOwn(M, ret'[c], list'.max, infoMax', x)
        \/ o = Owner("free", c) /\ FreeOwn(M, x)
        \/ \E d \in CPUs \ {c} : OwnCPU(d, o, x)
    BY <1>1, <1>4, <1>8, OwnSplit DEF Guarded
  <2>2. CASE OwnThing(o, x)'
    <3>1. \/ o = Owner("info", 0) /\ OwnThing(o, x)
          \/ o = Owner("list", 0) /\ x = List' /\ list'.base # NULL /\ ~Setting'
          \/ \E j \in DOMAIN list'.items :
               o = Owner("item", j) /\ x = list'.items[j] /\ x.size # 0 /\ ~Clearing(j)'
      BY <1>5, <1>7, <2>2, ThingIs
    <3>2. CASE o = Owner("list", 0) /\ x = List' /\ list'.base # NULL /\ ~Setting'
      BY <1>5, <1>6, <1>7, <3>2 DEF Own, OwnThing
    <3>3. CASE \E j \in DOMAIN list'.items : o = Owner("item", j) /\ x = list'.items[j] /\ x.size # 0
      <4>1. PICK j \in DOMAIN list.items : o = Owner("item", j) /\ x = list'.items[j] /\ x.size # 0
        BY <1>6, <3>3
      <4>2. j # i /\ x = list.items[j]
        <5>1. [list.items[j] EXCEPT !.size = 0].size = 0
          BY <1>6 DEF Chunks
        <5> QED
          BY <1>6, <4>1, <5>1
      <4> QED
        BY <1>5, <4>1, <4>2 DEF Own, OwnThing
    <3> QED
      BY <3>1, <3>2, <3>3 DEF Own
  <2>3. ~StepOwn(M, list'.max, infoMax', x) /\ ~RetOwn(M, ret'[c], list'.max, infoMax', x)
        /\ ~FreeOwn(M, x)
    BY <1>4 DEF StepOwn, RetOwn, FreeOwn
  <2> QED
    BY <2>1, <2>2, <2>3 DEF Own
<1>9. ~damaged => Owned' /\ Unique'
  <2>1. heap \subseteq heap'
    BY <1>1
  <2> QED
    BY <1>8, <2>1, OwnKeeps DEF OInv
<1> QED
  BY <1>1, <1>4, <1>9, CoreO

(* What is owned lies in memory.                                            *)
LEMMA OwnedFits ==
  ASSUME OInv, ~damaged, NEW o, NEW b, NEW n, Own(o, Chunk(b, n))
  PROVE  b + n <= pages * PageBlocks
<1>1. Chunk(b, n) \in heap /\ Apart
  BY DEF OInv, Owned
<1>2. Chunk(b, n).base + Chunk(b, n).size <= pages * PageBlocks
  BY <1>1 DEF Apart
<1> QED
  BY <1>2 DEF Chunk

(* The old AllocList is to be freed, the new one is held until it takes     *)
(* over.                                                                    *)
LEMMA MoveListO ==
  ASSUME OInv, TInv, NEW c \in CPUs, MoveList(c),
         View(c, "movelist", (IF ret[c] = NULL THEN {}
                              ELSE {Step("free2", list.base, ItemBlocks(list.max))})
                             \cup {Step("setlist", ret[c], 0)})
  PROVE  OInv'
<1> DEFINE h == Head(todo[c])
           k == Step("free2", list.base, ItemBlocks(list.max))
           u == Step("setlist", ret[c], 0)
           M == (IF ret[c] = NULL THEN {} ELSE {k}) \cup {u}
           n1 == Owner("step", c)
           p1 == Owner("ret", c)
           n2 == Owner("free", c)
           p2 == Owner("list", 0)
<1>1. UNCHANGED <<used, pages, infoMax, infoBase, copied, list, ret, heap, severed, damaged>>
  BY DEF MoveList, historyVars, mmVars
<1>2. /\ k.op = "free2" /\ k.base = list.base /\ k.size = ItemBlocks(list.max)
      /\ u.op = "setlist" /\ u.base = ret[c]
  BY StepFields
<1>3. View(c, "movelist", M)
  OBVIOUS
<1>4. ret[c] # NULL => Own(p1, Chunk(ret[c], ItemBlocks(2 * list.max)))
  <2>1. /\ h.op = "movelist"
        /\ ret[c] # NULL => Own(Owner("ret", c), Chunk(ret[c], Amount(h, list.max, infoMax)))
    BY <1>3, HeadOwns DEF Users
  <2> HIDE DEF h
  <2>2. Amount(h, list.max, infoMax) = ItemBlocks(2 * list.max)
    BY <2>1 DEF Amount
  <2> QED
    BY <2>1, <2>2
<1> HIDE DEF h, k, u
<1>5. u \in M /\ \A j \in M : j = u \/ (j = k /\ ret[c] # NULL)
  OBVIOUS
<1>6. ret[c] # NULL => k \in M
  OBVIOUS
<1> HIDE DEF M
<1>7. /\ ~Due({"setinfo"}) /\ ~Due({"setinfo"})' /\ ~Setting
      /\ (Setting' <=> ret[c] # NULL)
      /\ \A i : ~Clearing(i) /\ ~Clearing(i)'
  <2>1. /\ ~Due({"setinfo"}) /\ ~Setting /\ \A i : ~Clearing(i)
        /\ Due({"setinfo"})' <=> \E j \in M : j.op = "setinfo"
        /\ Setting' <=> \E j \in M : j.op = "setlist" /\ j.base # NULL
        /\ \A i : Clearing(i)' <=> \E j \in M : j.op = "clear" /\ Closest(j.base)' = i
    BY <1>3, EndsOnly DEF Guarded
  <2> QED
    BY <1>2, <1>5, <2>1
<1>8. Info' = Info /\ List' = List
  BY <1>1 DEF Info, List
<1>9. Own(p2, List)
  <2>1. list.base # NULL
    <3>1. Due({"movelist", "setlist"})
      BY <1>3, NoListMoves DEF Guarded
    <3> QED
      BY <3>1 DEF TInv, ListT
  <2> QED
    BY <1>7, <2>1 DEF Own, OwnThing
<1>10. Load(u, list.max, infoMax) = Chunk(ret[c], ItemBlocks(2 * list.max))
  BY <1>2 DEF Load
<1>11. ASSUME NEW o, NEW x, Own(o, x)'
       PROVE  \/ ret[c] # NULL /\ o = n1 /\ Own(p1, x)
              \/ ret[c] # NULL /\ o = n2 /\ Own(p2, x)
              \/ (ret[c] = NULL \/ (o # p1 /\ o # p2)) /\ Own(o, x)
  <2>1. \/ OwnThing(o, x)'
        \/ o = Owner("step", c) /\ StepOwn(M, list'.max, infoMax', x)
        \/ o = Owner("ret", c) /\ RetOwn(M, ret'[c], list'.max, infoMax', x)
        \/ o = Owner("free", c) /\ FreeOwn(M, x)
        \/ \E d \in CPUs \ {c} : OwnCPU(d, o, x)
    BY <1>1, <1>3, <1>11, OwnSplit
  <2>2. CASE OwnThing(o, x)'
    <3>1. OwnThing(o, x) /\ (ret[c] # NULL => o # p2)
      BY <1>1, <1>7, <1>8, <2>2, SameOwner DEF OwnThing
    <3>2. o # p1
      BY <3>1, OwnTags
    <3> QED
      BY <3>1, <3>2 DEF Own
  <2>3. CASE o = Owner("step", c) /\ StepOwn(M, list'.max, infoMax', x)
    <3>1. PICK j \in M : j.op \in Carriers /\ j.base # NULL /\ x = Load(j, list.max, infoMax)
      BY <1>1, <2>3 DEF StepOwn
    <3>2. j = u /\ ret[c] # NULL
      BY <1>2, <1>5, <3>1 DEF Carriers
    <3> QED
      BY <1>4, <1>10, <2>3, <3>1, <3>2
  <2>4. ~RetOwn(M, ret'[c], list'.max, infoMax', x)
    BY <1>2, <1>5 DEF RetOwn, Users
  <2>5. CASE o = Owner("free", c) /\ FreeOwn(M, x)
    <3>1. PICK j \in M : j.op = "free2" /\ x = Chunk(j.base, j.size)
      BY <2>5 DEF FreeOwn
    <3>2. j = k /\ ret[c] # NULL
      BY <1>2, <1>5, <3>1
    <3>3. x = List
      BY <1>2, <3>1, <3>2 DEF List
    <3> QED
      BY <1>9, <2>5, <3>2, <3>3
  <2>6. CASE \E d \in CPUs \ {c} : OwnCPU(d, o, x)
    <3>1. o # p1
      BY <2>6, OwnTags
    <3>2. o # p2
      BY <2>6, SameOwner DEF OwnCPU
    <3> QED
      BY <2>6, <3>1, <3>2 DEF Own
  <2> QED
    BY <2>1, <2>2, <2>3, <2>4, <2>5, <2>6
<1>12. p1 # p2
  BY SameOwner
<1> HIDE DEF n1, p1, n2, p2
<1>13. ASSUME ~damaged PROVE Owned' /\ Unique'
  <2>1. heap \subseteq heap' /\ Owned /\ Unique
    BY <1>1, <1>13 DEF OInv
  <2>2. CASE ret[c] # NULL
    <3>1. Passed(n1, p1, n2, p2)
      BY <1>11, <2>2 DEF Passed
    <3> QED
      BY <1>12, <2>1, <3>1, OwnMoved
  <2>3. CASE ret[c] = NULL
    <3>1. \A o, x : Own(o, x)' => Own(o, x)
      BY <1>11, <2>3
    <3> QED
      BY <2>1, <3>1, OwnKeeps
  <2> QED
    BY <2>2, <2>3
<1>14. ASSUME ~damaged, NEW j \in M, j.op = "free2"
       PROVE  Ended(M) /\ j.base + j.size <= pages * PageBlocks
  <2>1. Ended(M)
    BY <1>2, <1>5 DEF Ended, Enders
  <2>2. j.base = list.base /\ j.size = ItemBlocks(list.max)
    BY <1>2, <1>5, <1>14
  <2> QED
    BY <1>9, <1>14, <2>1, <2>2, OwnedFits DEF List
<1>15. \A j \in M : j.op # "setinfo"
  BY <1>2, <1>5
<1> QED
  BY <1>1, <1>3, <1>13, <1>14, <1>15, CoreO

(* free passes what the entry holds to free2.                               *)
LEMMA UnlinkO ==
  ASSUME OInv, TInv, NEW c \in CPUs, Unlink(c),
         View(c, "unlink", IF Searchable /\ Found(Head(todo[c]).base)
                           THEN {Step("free2", Head(todo[c]).base,
                                      list.items[Closest(Head(todo[c]).base)].size),
                                 Step("clear", Head(todo[c]).base, 0)}
                           ELSE {})
  PROVE  OInv'
<1> DEFINE b == Head(todo[c]).base
           i == Closest(b)
           k == Step("free2", b, list.items[i].size)
           u == Step("clear", b, 0)
           F == Searchable /\ Found(b)
           M == IF F THEN {k, u} ELSE {}
           n == Owner("free", c)
           p == Owner("item", i)
<1>1. UNCHANGED <<used, pages, infoMax, infoBase, copied, list, ret, heap, severed, damaged>>
  BY DEF Unlink, historyVars, mmVars
<1>2. k.op = "free2" /\ k.base = b /\ k.size = list.items[i].size /\ u.op = "clear" /\ u.base = b
  BY StepFields
<1>3. View(c, "unlink", M)
  OBVIOUS
<1>4. F => /\ i \in DOMAIN list.items /\ list.items[i].size # 0
           /\ list.items[i] = Chunk(b, list.items[i].size)
  <2>1. StepsT /\ ListT
    BY DEF TInv
  <2>2. b \in Int
    BY <2>1, HeadT
  <2>3. i \in 1 .. Len(list.items) + 1 /\ Len(list.items) \in Nat /\ DOMAIN list.items = 1 .. Len(list.items)
        /\ \A j \in DOMAIN list.items : list.items[j] \in Chunks
    BY <2>1, <2>2, ClosestIn
  <2>4. F => i <= Len(list.items) /\ list.items[i].size # 0 /\ list.items[i].base = b
    BY DEF Found
  <2> HIDE DEF F, i, b
  <2>5. F => i \in DOMAIN list.items
    BY <2>3, <2>4
  <2>6. F => list.items[i] = Chunk(list.items[i].base, list.items[i].size)
    BY <2>3, <2>5 DEF Chunks, Chunk
  <2> QED
    BY <2>4, <2>5, <2>6
<1>5. (F => k \in M /\ u \in M) /\ \A j \in M : F /\ (j = k \/ j = u)
  OBVIOUS
<1>6. /\ ~Due({"setinfo"}) /\ ~Due({"setinfo"})' /\ ~Setting /\ ~Setting'
      /\ \A j : ~Clearing(j) /\ (Clearing(j)' <=> F /\ j = i)
  <2>0. \A y : Closest(y)' = Closest(y)
    BY <1>1 DEF Closest
  <2> HIDE DEF M, k, u, F
  <2>1. /\ ~Due({"setinfo"}) /\ ~Setting /\ \A j : ~Clearing(j)
        /\ Due({"setinfo"})' <=> \E j \in M : j.op = "setinfo"
        /\ Setting' <=> \E j \in M : j.op = "setlist" /\ j.base # NULL
        /\ \A l : Clearing(l)' <=> \E j \in M : j.op = "clear" /\ Closest(j.base)' = l
    BY <1>3, EndsOnly DEF Guarded
  <2>2. \A l : Clearing(l)' <=> \E j \in M : j.op = "clear" /\ Closest(j.base) = l
    BY <2>0, <2>1
  <2>3. \A l : Clearing(l)' <=> F /\ l = i
    BY <1>2, <1>5, <2>2
  <2> QED
    BY <1>2, <1>5, <2>1, <2>2, <2>3
<1> HIDE DEF M, k, u, F, i, b
<1>7. Info' = Info /\ List' = List
  BY <1>1 DEF Info, List
<1>8. F => Own(p, list.items[i])
  BY <1>4, <1>6 DEF Own, OwnThing
<1>9. ASSUME NEW o, NEW x, Own(o, x)' PROVE (F /\ o = n /\ Own(p, x)) \/ ((F => o # p) /\ Own(o, x))
  <2>1. \/ OwnThing(o, x)'
        \/ o = Owner("step", c) /\ StepOwn(M, list'.max, infoMax', x)
        \/ o = Owner("ret", c) /\ RetOwn(M, ret'[c], list'.max, infoMax', x)
        \/ o = Owner("free", c) /\ FreeOwn(M, x)
        \/ \E d \in CPUs \ {c} : OwnCPU(d, o, x)
    BY <1>1, <1>3, <1>9, OwnSplit
  <2>2. CASE OwnThing(o, x)'
    BY <1>1, <1>6, <1>7, <2>2, SameOwner DEF Own, OwnThing
  <2>3. ~StepOwn(M, list'.max, infoMax', x) /\ ~RetOwn(M, ret'[c], list'.max, infoMax', x)
    BY <1>2, <1>5 DEF StepOwn, RetOwn, Carriers, Users
  <2>4. CASE o = Owner("free", c) /\ FreeOwn(M, x)
    <3>1. PICK j \in M : j.op = "free2" /\ x = Chunk(j.base, j.size)
      BY <2>4 DEF FreeOwn
    <3>2. j = k /\ F
      BY <1>2, <1>5, <3>1
    <3> QED
      BY <1>2, <1>4, <1>8, <2>4, <3>1, <3>2
  <2>5. CASE \E d \in CPUs \ {c} : OwnCPU(d, o, x)
    <3>1. o # p
      BY <2>5, SameOwner DEF OwnCPU
    <3> QED
      BY <2>5, <3>1 DEF Own
  <2> QED
    BY <2>1, <2>2, <2>3, <2>4, <2>5
<1> HIDE DEF n, p
<1>10. ASSUME ~damaged PROVE Owned' /\ Unique'
  <2>1. heap \subseteq heap' /\ Owned /\ Unique
    BY <1>1, <1>10 DEF OInv
  <2>2. CASE F
    <3>1. \A o, x : Own(o, x)' => (o = n /\ Own(p, x)) \/ (o # p /\ Own(o, x))
      BY <1>9, <2>2
    <3> QED
      BY <2>1, <3>1, OwnGiven
  <2>3. CASE ~F
    <3>1. \A o, x : Own(o, x)' => Own(o, x)
      BY <1>9, <2>3
    <3> QED
      BY <2>1, <3>1, OwnKeeps
  <2> QED
    BY <2>2, <2>3
<1>11. ASSUME ~damaged, NEW j \in M, j.op = "free2"
       PROVE  Ended(M) /\ j.base + j.size <= pages * PageBlocks
  <2>1. Ended(M)
    BY <1>2, <1>5 DEF Ended, Enders
  <2>2. F /\ j.base = b /\ j.size = list.items[i].size
    BY <1>2, <1>5, <1>11
  <2>3. Own(p, Chunk(j.base, j.size))
    BY <1>4, <1>8, <2>2
  <2> QED
    BY <1>11, <2>1, <2>3, OwnedFits
<1>12. \A j \in M : j.op # "setinfo"
  BY <1>2, <1>5
<1> QED
  BY <1>1, <1>3, <1>10, <1>11, <1>12, CoreO

(* Entries from i on move up by one, and p's thing becomes entry i.         *)
Shifts(p, i) ==
  \A o, x : Own(o, x)' =>
    \/ o = Owner("item", i) /\ Own(p, x)
    \/ \E j \in Int : j >= i /\ o = Owner("item", j + 1) /\ Own(Owner("item", j), x)
    \/ o # p /\ (\A j \in Int : j >= i => o # Owner("item", j)) /\ Own(o, x)

(* Everything has at most one owner when the entries from i on move up by   *)
(* one and p's goes to i.                                                   *)
LEMMA OwnShifted ==
  ASSUME Owned, Unique, heap \subseteq heap', NEW p, NEW i \in Int, Shifts(p, i),
         \A j : p # Owner("item", j)
  PROVE  Owned' /\ Unique'
<1>1. ASSUME NEW o, NEW x, Own(o, x)'
      PROVE  \/ o = Owner("item", i) /\ Own(p, x)
             \/ \E j \in Int : j >= i /\ o = Owner("item", j + 1) /\ Own(Owner("item", j), x)
             \/ o # p /\ (\A j \in Int : j >= i => o # Owner("item", j)) /\ Own(o, x)
  BY <1>1 DEF Shifts
<1>2. ASSUME NEW o, NEW x, Own(o, x)' PROVE x \in heap'
  BY <1>1, <1>2 DEF Owned
<1>3. ASSUME NEW o, NEW q, NEW x, Own(o, x)', Own(q, x)',
             \E j \in Int : j >= i /\ o = Owner("item", j + 1) /\ Own(Owner("item", j), x)
      PROVE  o = q
  <2>1. PICK j \in Int : j >= i /\ o = Owner("item", j + 1) /\ Own(Owner("item", j), x)
    BY <1>3
  <2>2. CASE q = Owner("item", i) /\ Own(p, x)
    BY <2>1, <2>2 DEF Unique
  <2>3. CASE \E l \in Int : l >= i /\ q = Owner("item", l + 1) /\ Own(Owner("item", l), x)
    <3>1. PICK l \in Int : l >= i /\ q = Owner("item", l + 1) /\ Own(Owner("item", l), x)
      BY <2>3
    <3>2. Owner("item", j) = Owner("item", l)
      BY <2>1, <3>1 DEF Unique
    <3>3. j = l
      BY <3>2, SameOwner
    <3> QED
      BY <2>1, <3>1, <3>3
  <2>4. CASE (\A l \in Int : l >= i => q # Owner("item", l)) /\ Own(q, x)
    BY <2>1, <2>4 DEF Unique
  <2> QED
    BY <1>1, <1>3, <2>2, <2>3, <2>4
<1>4. ASSUME NEW o, NEW q, NEW x, Own(o, x)', Own(q, x)' PROVE o = q
  <2>1. CASE \E j \in Int : j >= i /\ o = Owner("item", j + 1) /\ Own(Owner("item", j), x)
    BY <1>3, <1>4, <2>1
  <2>2. CASE \E j \in Int : j >= i /\ q = Owner("item", j + 1) /\ Own(Owner("item", j), x)
    BY <1>3, <1>4, <2>2
  <2>3. CASE /\ ~\E j \in Int : j >= i /\ o = Owner("item", j + 1) /\ Own(Owner("item", j), x)
             /\ ~\E j \in Int : j >= i /\ q = Owner("item", j + 1) /\ Own(Owner("item", j), x)
    <3>1. /\ (o = Owner("item", i) /\ Own(p, x)) \/ (o # p /\ Own(o, x))
          /\ (q = Owner("item", i) /\ Own(p, x)) \/ (q # p /\ Own(q, x))
      BY <1>1, <1>4, <2>3
    <3> QED
      BY <3>1 DEF Unique
  <2> QED
    BY <2>1, <2>2, <2>3
<1> QED
  BY <1>2, <1>4 DEF Owned, Unique

(* The insertion into the sorted list passes the chunk to its entry and     *)
(* moves the others up.                                                     *)
LEMMA InsertO ==
  ASSUME OInv, TInv, NEW c \in CPUs, Insert(c),
         View(c, "insert",
              IF Len(list'.items) > Len(list.items) /\ IsFull(Len(list'.items))
              THEN {Step("malloc2", NULL, ItemBlocks(2 * list.max)), Step("movelist", NULL, 0)}
              ELSE {})
  PROVE  OInv'
<1> DEFINE h == Head(todo[c])
           y == Chunk(h.base, h.size)
           s == list.items
           t == WithEntry(s, y)
           i == findClosestAllocRegion(s, y.base)
           n == Len(s)
           k == Step("malloc2", NULL, ItemBlocks(2 * list.max))
           u == Step("movelist", NULL, 0)
           M == IF Len(list'.items) > Len(list.items) /\ IsFull(Len(list'.items)) THEN {k, u} ELSE {}
           p == Owner("step", c)
<1>1. StepsT /\ ListT /\ s \in Seq(Chunks) /\ list \in [base : Int, max : Nat, items : Seq(Chunks)]
  BY DEF TInv, ListT
<1>2. /\ UNCHANGED <<used, pages, infoMax, infoBase, copied, ret, heap, severed, damaged>>
      /\ list' = [list EXCEPT !.items = t]
  BY DEF Insert, historyVars, Chunk
<1>3. View(c, "insert", M)
  OBVIOUS
<1>4. k.op = "malloc2" /\ u.op = "movelist"
  BY StepFields
<1>5. Own(p, y) /\ y \in Chunks
  <2>1. h.op = "insert" /\ Legit(y, pages) /\ h.base = y.base
    BY <1>1, <1>3, HeadT DEF Chunk
  <2>2. h.base # NULL /\ y \in Chunks
    BY <2>1 DEF Legit, NULL, Chunk, Chunks
  <2>3. Own(Owner("step", c), Load(h, list.max, infoMax))
    BY <1>3, <2>2, HeadOwns DEF Carriers
  <2> HIDE DEF h
  <2>4. Load(h, list.max, infoMax) = y
    BY <2>1 DEF Load
  <2> QED
    BY <2>2, <2>3, <2>4
<1> HIDE DEF h, y, k, u
<1>6. /\ t \in Seq(Chunks) /\ i \in 1 .. n + 1 /\ n \in Nat
      /\ \/ /\ Len(t) = n
            /\ \A j \in 1 .. n : t[j] = IF j = i THEN y ELSE s[j]
         \/ /\ Len(t) = n + 1
            /\ \A j \in 1 .. n + 1 : t[j] = IF j < i THEN s[j] ELSE IF j = i THEN y ELSE s[j - 1]
  BY <1>1, <1>5, WithEntryParts
<1> HIDE DEF t, i
<1>7. list'.items = t /\ list'.max = list.max /\ list'.base = list.base
  BY <1>1, <1>2
<1>8. DOMAIN s = 1 .. n /\ DOMAIN t = 1 .. Len(t)
  BY <1>1, <1>6, LenProperties
<1>9. \A j \in M : (j = k \/ j = u) /\ k \in M
  OBVIOUS
<1> HIDE DEF M
<1>10. /\ Due({"setinfo"})' <=> Due({"setinfo"})
       /\ ~Setting /\ ~Setting' /\ \A j : ~Clearing(j)
  <2>1. /\ ~Due({"setinfo"}) /\ ~Setting /\ \A j : ~Clearing(j)
        /\ Due({"setinfo"})' <=> \E j \in M : j.op = "setinfo"
        /\ Setting' <=> \E j \in M : j.op = "setlist" /\ j.base # NULL
    BY <1>3, EndsOnly DEF Guarded
  <2> QED
    BY <1>4, <1>9, <2>1
<1>11. Info' = Info /\ List' = List
  BY <1>2, <1>7 DEF Info, List
<1>12. ASSUME NEW j \in 1 .. n, s[j].size # 0 PROVE Own(Owner("item", j), s[j])
  BY <1>8, <1>10, <1>12 DEF Own, OwnThing
<1>13. ASSUME NEW o, NEW x, Own(o, x)'
       PROVE  \/ o # p /\ (\A j : o # Owner("item", j)) /\ Own(o, x)
              \/ \E j \in 1 .. Len(t) : o = Owner("item", j) /\ x = t[j] /\ x.size # 0
  <2>1. \/ OwnThing(o, x)'
        \/ o = Owner("step", c) /\ StepOwn(M, list'.max, infoMax', x)
        \/ o = Owner("ret", c) /\ RetOwn(M, ret'[c], list'.max, infoMax', x)
        \/ o = Owner("free", c) /\ FreeOwn(M, x)
        \/ \E d \in CPUs \ {c} : OwnCPU(d, o, x)
    BY <1>2, <1>3, <1>13, OwnSplit DEF Guarded
  <2>2. CASE OwnThing(o, x)'
    <3>1. \/ o = Owner("info", 0) /\ OwnThing(o, x)
          \/ o = Owner("list", 0) /\ x = List' /\ list'.base # NULL /\ ~Setting'
          \/ \E j \in DOMAIN list'.items :
               o = Owner("item", j) /\ x = list'.items[j] /\ x.size # 0 /\ ~Clearing(j)'
      BY <1>10, <1>11, <2>2, ThingIs
    <3>2. CASE o = Owner("info", 0) /\ OwnThing(o, x)
      BY <3>2, SameOwner DEF Own
    <3>3. CASE o = Owner("list", 0) /\ x = List' /\ list'.base # NULL
      BY <1>7, <1>10, <1>11, <3>3, SameOwner DEF Own, OwnThing
    <3> QED
      BY <1>7, <1>8, <3>1, <3>2, <3>3
  <2>3. ~StepOwn(M, list'.max, infoMax', x) /\ ~RetOwn(M, ret'[c], list'.max, infoMax', x)
        /\ ~FreeOwn(M, x)
    BY <1>4, <1>9 DEF StepOwn, RetOwn, FreeOwn, Carriers, Users, Waits
  <2>4. CASE \E d \in CPUs \ {c} : OwnCPU(d, o, x)
    <3>1. o # p /\ \A j : o # Owner("item", j)
      BY <2>4, SameOwner DEF OwnCPU
    <3> QED
      BY <2>4, <3>1 DEF Own
  <2> QED
    BY <2>1, <2>2, <2>3, <2>4
<1>14. \A j : p # Owner("item", j)
  BY SameOwner
<1> HIDE DEF p
<1>15. ASSUME ~damaged PROVE Owned' /\ Unique'
  <2>1. heap \subseteq heap' /\ Owned /\ Unique
    BY <1>2, <1>15 DEF OInv
  <2>2. CASE Len(t) = n /\ \A j \in 1 .. n : t[j] = IF j = i THEN y ELSE s[j]
    <3>1. ASSUME NEW o, NEW x, Own(o, x)'
          PROVE  (o = Owner("item", i) /\ Own(p, x)) \/ (o # p /\ Own(o, x))
      <4>1. CASE \E j \in 1 .. Len(t) : o = Owner("item", j) /\ x = t[j] /\ x.size # 0
        <5>1. PICK j \in 1 .. n : o = Owner("item", j) /\ x = t[j] /\ x.size # 0
          BY <2>2, <4>1
        <5>2. CASE j = i
          BY <1>5, <2>2, <5>1, <5>2
        <5>3. CASE j # i
          BY <1>12, <1>14, <2>2, <5>1, <5>3
        <5> QED
          BY <5>2, <5>3
      <4> QED
        BY <1>13, <3>1, <4>1
    <3> DEFINE q == Owner("item", i)
    <3>2. \A o, x : Own(o, x)' => (o = q /\ Own(p, x)) \/ (o # p /\ Own(o, x))
      BY <3>1
    <3> HIDE DEF q
    <3> QED
      BY <2>1, <3>2, OwnGiven
  <2>3. CASE /\ Len(t) = n + 1
             /\ \A j \in 1 .. n + 1 : t[j] = IF j < i THEN s[j] ELSE IF j = i THEN y ELSE s[j - 1]
    <3>1. ASSUME NEW o, NEW x, Own(o, x)'
          PROVE  \/ o = Owner("item", i) /\ Own(p, x)
                 \/ \E j \in Int : j >= i /\ o = Owner("item", j + 1) /\ Own(Owner("item", j), x)
                 \/ o # p /\ (\A j \in Int : j >= i => o # Owner("item", j)) /\ Own(o, x)
      <4>1. CASE \E j \in 1 .. Len(t) : o = Owner("item", j) /\ x = t[j] /\ x.size # 0
        <5>1. PICK j \in 1 .. n + 1 : o = Owner("item", j) /\ x = t[j] /\ x.size # 0
          BY <2>3, <4>1
        <5>2. j \in Int /\ i \in Int /\ (j < i \/ j = i \/ j > i)
          BY <1>6
        <5>3. CASE j = i
          BY <1>5, <2>3, <5>1, <5>3
        <5>4. CASE j < i
          <6>1. j \in 1 .. n /\ x = s[j]
            BY <1>6, <2>3, <5>1, <5>4
          <6>2. Own(o, x)
            BY <1>12, <5>1, <6>1
          <6>3. \A l \in Int : l >= i => l # j
            BY <5>2, <5>4
          <6> QED
            BY <1>14, <5>1, <6>2, <6>3, SameOwner
        <5>5. CASE j > i
          <6>1. j - 1 \in 1 .. n /\ x = s[j - 1] /\ j - 1 >= i /\ (j - 1) + 1 = j /\ j - 1 \in Int
            BY <1>6, <2>3, <5>1, <5>2, <5>5
          <6>2. Own(Owner("item", j - 1), x)
            BY <1>12, <5>1, <6>1
          <6> QED
            BY <5>1, <6>1, <6>2
        <5> QED
          BY <5>2, <5>3, <5>4, <5>5
      <4> QED
        BY <1>13, <3>1, <4>1
    <3>2. Shifts(p, i) /\ i \in Int
      BY <1>6, <3>1 DEF Shifts
    <3> QED
      BY <1>14, <2>1, <3>2, OwnShifted
  <2> QED
    BY <1>6, <2>2, <2>3
<1>16. \A j \in M : j.op # "setinfo" /\ j.op # "free2"
  BY <1>4, <1>9
<1> QED
  BY <1>2, <1>3, <1>15, <1>16, CoreO

(* The blocks from zero on.                                                 *)
LEMMA InRange ==
  ASSUME NEW n \in Nat
  PROVE  \A z : z \in Blocks(0, n) <=> z \in Nat /\ z < n
BY InBlocks

(* The blocks of a chunk in memory.                                         *)
LEMMA InChunk ==
  ASSUME NEW x \in Chunks
  PROVE  /\ \A z : z \in ChunkBlocks(x) <=> z \in Nat /\ x.base <= z /\ z < x.base + x.size
         /\ x.base \in Nat /\ x.size \in Nat
<1>1. x.base \in Nat /\ x.size \in Nat
  BY DEF Chunks
<1> QED
  BY <1>1, InBlocks DEF ChunkBlocks

(* What malloc2 gave lies in memory.                                        *)
LEMMA HeapedIn ==
  ASSUME HeapT, PagesT, Apart
  PROVE  \A z : Heaped(z) => z \in Nat /\ z < pages * PageBlocks
<1> SUFFICES ASSUME NEW z, NEW x \in heap, z \in ChunkBlocks(x)
             PROVE  z \in Nat /\ z < pages * PageBlocks
  BY DEF Heaped
<1>1. x \in Chunks /\ x.base + x.size <= pages * PageBlocks
  BY DEF HeapT, Apart
<1>2. z \in Nat /\ z < x.base + x.size /\ x.base \in Nat /\ x.size \in Nat
  BY <1>1, InChunk
<1>3. pages * PageBlocks \in Nat
  BY PagesPositive
<1> QED
  BY <1>1, <1>2, <1>3

(* The addition of a page frees its blocks and nothing else.                *)
LEMMA AddPageO ==
  ASSUME OInv, TInv, NEW c \in CPUs, AddPage(c),
         View(c, "addpage", IF pages' >= infoMax
                            THEN {Step("malloc2", NULL, InfoBlocks(2 * infoMax)),
                                  Step("moveinfo", NULL, 0)}
                            ELSE {})
  PROVE  OInv'
<1> DEFINE k == Step("malloc2", NULL, InfoBlocks(2 * infoMax))
           u == Step("moveinfo", NULL, 0)
           M == IF pages' >= infoMax THEN {k, u} ELSE {}
           P == PageBlocks
           a == pages * P
           e == infoMax * P
<1>1. StepsT /\ PagesT /\ ListT /\ HeapT
  BY DEF TInv
<1>2. /\ UNCHANGED <<infoMax, infoBase, copied, list, ret, heap, severed, damaged>>
      /\ pages' = pages + 1 /\ used' = used \ PageOf(pages)
  BY DEF AddPage, historyVars
<1>3. View(c, "addpage", M)
  OBVIOUS
<1>4. k.op = "malloc2" /\ u.op = "moveinfo"
  BY StepFields
<1> HIDE DEF k, u
<1>5. \A j \in M : (j = k \/ j = u) /\ k \in M
  OBVIOUS
<1> HIDE DEF M
<1>6. \A j \in M : j.op \notin Enders \cup Carriers \cup {"free2", "setinfo"} /\ Waits(M)
  BY <1>4, <1>5 DEF Enders, Carriers, Waits
<1>7. pages < infoMax
  <2>1. ~Due({"moveinfo", "setinfo"})
    BY <1>3, NoInfoMoves DEF Guarded
  <2> QED
    BY <1>1, <2>1 DEF PagesT
<1>8. /\ P \in Nat /\ P > 0 /\ a \in Nat /\ e \in Nat /\ pages' * P = a + P /\ a + P <= e
      /\ (infoMax - pages) * P = e - a /\ (infoMax' - pages') * P = e - (a + P)
  <2>1. P \in Nat /\ P > 0 /\ pages \in Nat /\ infoMax \in Nat
    BY <1>1, PagesPositive, Constants
  <2>2. a \in Nat /\ e \in Nat /\ (pages + 1) * P = a + P /\ a + P <= e
    BY <1>7, <2>1, Times
  <2>3. (infoMax - (pages + 1)) * P = infoMax * P - (pages + 1) * P
    BY <2>1
  <2>4. (infoMax - pages) * P = e - a
    BY <2>1
  <2> QED
    BY <1>2, <2>1, <2>2, <2>3, <2>4
<1> SUFFICES ASSUME ~damaged PROVE (Owned /\ Unique /\ Apart /\ Bits /\ Moving)'
  BY <1>2 DEF OInv
<1>9. Owned /\ Unique /\ Apart /\ Bits /\ Moving
  BY DEF OInv
<1>10. ASSUME NEW o, NEW x, Own(o, x)' PROVE Own(o, x)
  <2>1. \/ OwnThing(o, x)'
        \/ o = Owner("step", c) /\ StepOwn(M, list'.max, infoMax', x)
        \/ o = Owner("ret", c) /\ RetOwn(M, ret'[c], list'.max, infoMax', x)
        \/ o = Owner("free", c) /\ FreeOwn(M, x)
        \/ \E d \in CPUs \ {c} : OwnCPU(d, o, x)
    BY <1>2, <1>3, <1>10, OwnSplit
  <2>2. CASE OwnThing(o, x)'
    <3>1. "addpage" \notin Enders \cup {"free2"}
      BY DEF Enders
    <3>2. OwnThing(o, x)
      BY <1>2, <1>3, <1>6, <2>2, <3>1, ThingsKept
    <3> QED
      BY <3>2 DEF Own
  <2>3. ~StepOwn(M, list'.max, infoMax', x) /\ ~RetOwn(M, ret'[c], list'.max, infoMax', x)
        /\ ~FreeOwn(M, x)
    BY <1>6 DEF StepOwn, RetOwn, FreeOwn
  <2> QED
    BY <2>1, <2>2, <2>3 DEF Own
<1>11. Owned' /\ Unique'
  <2>1. heap \subseteq heap'
    BY <1>2
  <2> QED
    BY <1>9, <1>10, <2>1, OwnKeeps
<1>12. \A z : z \in PageOf(pages) <=> z \in Int /\ a <= z /\ z < a + P
  BY <1>8, InBlocks DEF PageOf
<1>13. (\A z : z \in Memory <=> z \in Nat /\ z < a) /\ (\A z : z \in Memory' <=> z \in Nat /\ z < a + P)
  <2>1. Memory = Blocks(0, a) /\ Memory' = Blocks(0, a + P) /\ a + P \in Nat
    BY <1>8 DEF Memory
  <2> HIDE DEF a
  <2> QED
    BY <1>8, <2>1, InRange
<1>14. Apart'
  <2>1. /\ \A x \in heap : x \in Chunks /\ x.size > 0 /\ x.base + x.size <= a
        /\ infoBase + InfoBlocks(infoMax) <= a
        /\ \A d \in CPUs : \A j \in Pend(todo[d]) : j.op = "free2" => j.base + j.size <= a
    BY <1>1, <1>9 DEF HeapT, Apart
  <2>2. \A x \in heap' : x.size > 0 /\ x.base + x.size <= pages' * PageBlocks
    <3>1. \A x \in heap : x.base + x.size \in Int
      BY <2>1 DEF Chunks
    <3> HIDE DEF a
    <3> QED
      BY <1>2, <1>8, <2>1, <3>1
  <2>3. infoBase' + InfoBlocks(infoMax') <= pages' * PageBlocks
    <3>1. infoBase + InfoBlocks(infoMax) \in Int
      BY <1>1 DEF PagesT, Legit, Info, Chunk
    <3> HIDE DEF a
    <3> QED
      BY <1>2, <1>8, <2>1, <3>1
  <2>4. ASSUME NEW d \in CPUs, NEW j \in Pend(todo'[d]), j.op = "free2"
        PROVE  j.base + j.size <= pages' * PageBlocks
    <3>1. j \in Pend(todo[d])
      <4>1. \A i \in Rest(c) : i \in Pend(todo[c])
        BY <1>3 DEF View
      <4> QED
        BY <1>3, <1>6, <2>4, <4>1 DEF View
    <3>2. j.base + j.size \in Int
      <4>1. StepT(j, Pend(todo[d]), ret[d], pages, list.max, infoMax, fault)
        BY <1>1, <3>1 DEF StepsT
      <4> QED
        BY <4>1 DEF StepT
    <3>3. j.base + j.size <= a
      BY <2>1, <2>4, <3>1
    <3> HIDE DEF a
    <3> QED
      BY <1>8, <3>2, <3>3
  <2>5. \A x, y \in heap' : ChunkBlocks(x) \cap ChunkBlocks(y) # {} => x = y
    BY <1>2, <1>9 DEF Apart
  <2> QED
    BY <2>2, <2>3, <2>4, <2>5 DEF Apart
<1>15. Bits'
  <2>1. \A z : Again(z)' <=> Again(z)
    BY <1>3, <1>6, AgainSame
  <2>2. \A z : Heaped(z)' <=> Heaped(z)
    BY <1>2 DEF Heaped
  <2>3. \A z : Heaped(z) => z \in Nat /\ z < a
    BY <1>1, <1>9, HeapedIn
  <2>4. Blocks(a, e - a) \subseteq used /\ severed \subseteq Memory
    BY <1>8, <1>9 DEF Bits
  <2> HIDE DEF a, e
  <2>5. Blocks(a + P, e - (a + P)) \subseteq used'
    <3>1. ASSUME NEW z \in Blocks(a + P, e - (a + P)) PROVE z \in used'
      <4>1. z \in Int /\ a + P <= z /\ z < (a + P) + (e - (a + P))
        BY <1>8, <3>1, InBlocks
      <4>2. z \in Blocks(a, e - a) /\ z \notin PageOf(pages)
        BY <1>8, <1>12, <4>1, InBlocks
      <4> QED
        BY <1>2, <2>4, <4>2
    <3> QED
      BY <3>1
  <2>6. severed' \subseteq Memory'
    BY <1>2, <1>8, <1>13, <2>4
  <2>7. ASSUME NEW z \in Memory', ~Again(z)' PROVE z \in used' <=> Heaped(z)' \/ z \in severed'
    <3>1. CASE z < a
      <4>1. z \in Memory /\ z \notin PageOf(pages)
        BY <1>8, <1>12, <1>13, <2>7, <3>1
      <4> QED
        BY <1>2, <1>9, <2>1, <2>2, <2>7, <4>1 DEF Bits
    <3>2. CASE ~(z < a)
      <4>1. z \in PageOf(pages) /\ z \notin Memory
        BY <1>8, <1>12, <1>13, <2>7, <3>2
      <4> QED
        BY <1>2, <2>2, <2>3, <2>4, <3>2, <4>1
    <3> QED
      BY <3>1, <3>2
  <2>8. Blocks(pages' * PageBlocks, (infoMax' - pages') * PageBlocks) \subseteq used'
    BY <1>8, <2>5
  <2>9. /\ \A z \in severed' : ~Heaped(z)'
        /\ \A z : Heaped(z)' \/ z \in severed' => ~Again(z)'
    BY <1>2, <1>9, <2>1, <2>2 DEF Bits
  <2> QED
    BY <2>6, <2>7, <2>8, <2>9 DEF Bits
<1>16. Moving'
  BY <1>3, <1>6, <1>9, MovingSame DEF Guarded
<1> QED
  BY <1>11, <1>14, <1>15, <1>16

(* The place malloc2 takes is free, unless its end is in a page in use.     *)
LEMMA FitsEmpty ==
  ASSUME NEW n \in Nat \ {0}, NEW b \in Nat, NEW full \in Nat, b \in Fits(n, full),
         n - full * PageBlocks \in Nat, IsSmall(n) \/ LastPart(b, n, full) \cap used = {}
  PROVE  Blocks(b, n) \cap used = {}
<1>1. CASE IsSmall(n)
  BY <1>1 DEF Fits, SmallFits
<1>2. CASE ~IsSmall(n)
  <2> DEFINE P == PageBlocks
             p == b \div P
             m == full
             r == n - full * P
  <2>1. P \in Nat /\ P > 0
    BY Constants
  <2>2. b % P = 0 /\ \A q \in p .. p + m - 1 : PageOf(q) \cap used = {}
    BY <1>2 DEF Fits, EmptyFrom
  <2>3. p \in Nat /\ b = p * P + (b % P) /\ m \in Nat /\ r \in Nat /\ n = m * P + r
    BY <2>1, DivMod
  <2>4. Blocks(b + m * P, r) \cap used = {}
    BY <1>2 DEF LastPart
  <2>5. b = p * P
    <3>1. p * P \in Nat
      BY <2>1, <2>3
    <3> HIDE DEF p
    <3> QED
      BY <2>2, <2>3, <3>1
  <2> HIDE DEF p, m, r
  <2>6. m * P \in Nat /\ p * P \in Nat /\ (p + m) * P = p * P + m * P
    BY <2>1, <2>3
  <2>7. ASSUME NEW z \in Blocks(b, n) PROVE z \notin used
    <3>1. z \in Int /\ b <= z /\ z < b + n
      BY <2>7, InBlocks
    <3>2. CASE z < b + m * P
      <4> DEFINE q == z \div P
      <4>1. z \in Nat
        BY <3>1
      <4>2. q \in Nat /\ z \in PageOf(q)
        BY <4>1, InPage
      <4>3. q * P \in Nat /\ q * P <= z /\ z < q * P + P
        <5>1. q * P \in Nat
          BY <2>1, <4>2
        <5> HIDE DEF q
        <5> QED
          BY <2>1, <4>2, <5>1, InBlocks DEF PageOf
      <4> HIDE DEF q
      <4>4. ~(q < p) /\ ~(p + m <= q)
        <5>1. q < p => q * P + P <= p * P
          BY <2>1, <2>3, <4>2, Times
        <5>2. p + m <= q => (p + m) * P <= q * P
          BY <2>1, <2>3, <4>2, Times
        <5> QED
          BY <2>1, <2>5, <2>6, <3>1, <3>2, <4>3, <5>1, <5>2
      <4>5. q \in p .. p + m - 1
        BY <2>3, <4>2, <4>4
      <4> QED
        BY <2>2, <4>2, <4>5
    <3>3. CASE ~(z < b + m * P)
      <4>1. z \in Blocks(b + m * P, r)
        BY <2>3, <2>6, <3>1, <3>3, InBlocks
      <4> QED
        BY <2>4, <4>1
    <3> QED
      BY <3>2, <3>3
  <2> QED
    BY <2>7
<1> QED
  BY <1>1, <1>2

(* malloc2 gives its result to the step that waits for it.                  *)
LEMMA MallocOwn ==
  ASSUME TInv, NEW c \in CPUs, View(c, "malloc2", {}), DOMAIN ret = CPUs,
         UNCHANGED <<list, infoBase, infoMax>>, \A d \in CPUs \ {c} : ret'[d] = ret[d]
  PROVE  \A o, x : Own(o, x)' =>
           \/ o = Owner("ret", c) /\ ret'[c] # NULL /\ x = Chunk(ret'[c], Head(todo[c]).size)
           \/ o # Owner("ret", c) /\ Own(o, x)
<1> DEFINE h == Head(todo[c])
           M == {}
           Q == Pend(todo[c])
           R == Rest(c)
<1>1. /\ Q = {h} \cup R /\ h.op = "malloc2" /\ Pend(todo'[c]) = R
      /\ \A d \in CPUs \ {c} : todo'[d] = todo[d]
  BY DEF View
<1>2. PICK u \in R : u.op \in Users /\ \A k \in R : k = u \/ k.op \in Calm
  BY DEF View
<1>3. View(c, "malloc2", M) /\ \A k \in M : FALSE
  OBVIOUS
<1>4. StepT(h, Q, ret[c], pages, list.max, infoMax, fault)
  BY HeadT DEF TInv
<1> HIDE DEF h, M, Q, R
<1>5. h.size = Amount(u, list.max, infoMax)
  BY <1>1, <1>2, <1>4 DEF StepT
<1>6. \A k \in R : k.op # "free2" /\ k.op \in Users => k = u
  BY <1>2 DEF Calm, Users
<1>7. \A k \in R : k.op # "free2"
  BY <1>2 DEF Calm, Users
<1>8. ASSUME NEW x, StepOwn(R, list.max, infoMax, x) PROVE StepOwn(Q, list.max, infoMax, x)
  BY <1>1, <1>8 DEF StepOwn
<1>9. ASSUME NEW x, RetOwn(R, ret'[c], list.max, infoMax, x)
      PROVE  ret'[c] # NULL /\ x = Chunk(ret'[c], h.size)
  <2>1. ret'[c] # NULL /\ \E k \in R : k.op \in Users /\ x = Chunk(ret'[c], Amount(k, list.max, infoMax))
    BY <1>9 DEF RetOwn
  <2>2. PICK k \in R : k.op \in Users /\ x = Chunk(ret'[c], Amount(k, list.max, infoMax))
    BY <2>1
  <2>3. k = u
    BY <1>6, <1>7, <2>2
  <2> QED
    BY <1>5, <2>1, <2>2, <2>3
<1>10. ASSUME NEW o, NEW x, OwnCPU(c, o, x)'
       PROVE  \/ o = Owner("ret", c) /\ ret'[c] # NULL /\ x = Chunk(ret'[c], h.size)
              \/ o # Owner("ret", c) /\ OwnCPU(c, o, x)
  <2>1. ~FreeOwn(R, x)
    BY <1>7 DEF FreeOwn
  <2>2. \/ o = Owner("step", c) /\ StepOwn(R, list.max, infoMax, x)
        \/ o = Owner("ret", c) /\ RetOwn(R, ret'[c], list.max, infoMax, x)
    BY <1>1, <1>10, <2>1 DEF OwnCPU
  <2>3. CASE o = Owner("step", c) /\ StepOwn(R, list.max, infoMax, x)
    <3>1. OwnCPU(c, o, x)
      BY <1>8, <2>3 DEF OwnCPU, Q
    <3> QED
      BY <2>3, <3>1, SameOwner
  <2> QED
    BY <1>9, <2>2, <2>3
<1>11. \A d \in CPUs \ {c} : \A o, x : OwnCPU(d, o, x)' => OwnCPU(d, o, x) /\ o # Owner("ret", c)
  BY <1>3, OwnOthers, OwnTags
<1>12. \A o, x : OwnThing(o, x)' => OwnThing(o, x) /\ o # Owner("ret", c)
  <2>1. "malloc2" \notin Enders \cup {"free2"}
    BY DEF Enders
  <2> QED
    BY <1>3, <2>1, ThingsKept, OwnTags
<1> QED
  BY <1>10, <1>11, <1>12 DEF Own, h

(* malloc2 gives a hole: no chunk with an owner has a block of it.          *)
LEMMA MallocO ==
  ASSUME OInv, TInv, NEW c \in CPUs, DoMalloc2(c), View(c, "malloc2", {})
  PROVE  OInv'
<1> DEFINE n == Head(todo[c]).size
           M == {}
<1>1. StepsT /\ PagesT /\ ListT /\ HeapT /\ DOMAIN ret = CPUs
  BY DEF TInv, StepsT
<1>2. /\ UNCHANGED <<pages, infoMax, infoBase, copied, list, severed>> /\ n \in Nat \ {0}
      /\ \/ ret' = [ret EXCEPT ![c] = NULL] /\ UNCHANGED <<used, heap, damaged>>
         \/ \E b \in Nat, full \in Nat :
              /\ full * PageBlocks \in Nat /\ n - full * PageBlocks \in Nat
              /\ b \in Fits(n, full) /\ Legit(Chunk(b, n), pages)
              /\ Blocks(b, n) \subseteq Blocks(0, infoMax * PageBlocks)
              /\ ret' = [ret EXCEPT ![c] = b]
              /\ used' = used \cup Marked(b, n, full)
              /\ heap' = heap \cup {Chunk(b, n)}
              /\ ~damaged' => /\ ~damaged
                              /\ IsSmall(n) \/ LastPart(b, n, full) \cap used = {}
                              /\ IsSmall(n) \/ LastPart(b, n, full) \subseteq Marked(b, n, full)
  BY MallocDoes
<1>3. View(c, "malloc2", M) /\ \A k \in M : FALSE
  OBVIOUS
<1>4. n \in Nat \ {0}
  BY <1>2
<1>5. \A d \in CPUs \ {c} : ret'[d] = ret[d]
  BY <1>1, <1>2
<1>6. \A o, x : Own(o, x)' =>
        \/ o = Owner("ret", c) /\ ret'[c] # NULL /\ x = Chunk(ret'[c], n)
        \/ o # Owner("ret", c) /\ Own(o, x)
  BY <1>1, <1>2, <1>5, MallocOwn
<1> HIDE DEF n, M
<1> SUFFICES ASSUME ~damaged' PROVE (Owned /\ Unique /\ Apart /\ Bits /\ Moving)'
  BY DEF OInv
<1>7. ~damaged /\ Owned /\ Unique /\ Apart /\ Bits /\ Moving
  <2>1. ~damaged
    <3> HIDE DEF n
    <3> QED
      BY <1>2
  <2> QED
    BY <2>1 DEF OInv
<1>8. Moving'
  BY <1>3, <1>7, MovingSame DEF Guarded
<1>9. CASE ret' = [ret EXCEPT ![c] = NULL] /\ UNCHANGED <<used, heap, damaged>>
  <2>1. \A o, x : Own(o, x)' => Own(o, x)
    BY <1>1, <1>6, <1>9
  <2>2. heap \subseteq heap'
    BY <1>9
  <2>3. Owned' /\ Unique'
    BY <1>7, <2>1, <2>2, OwnKeeps
  <2>4. Apart'
    BY <1>2, <1>3, <1>7, <1>9, ApartSame
  <2>5. Bits'
    BY <1>2, <1>3, <1>7, <1>9, BitsSame
  <2> QED
    BY <1>8, <2>3, <2>4, <2>5
<1>10. ASSUME NEW b \in Nat, NEW full \in Nat,
              full * PageBlocks \in Nat, n - full * PageBlocks \in Nat,
              b \in Fits(n, full), Blocks(b, n) \subseteq Blocks(0, infoMax * PageBlocks),
              ret' = [ret EXCEPT ![c] = b],
              used' = used \cup Marked(b, n, full), heap' = heap \cup {Chunk(b, n)},
              IsSmall(n) \/ LastPart(b, n, full) \cap used = {},
              IsSmall(n) \/ LastPart(b, n, full) \subseteq Marked(b, n, full)
       PROVE  (Owned /\ Unique /\ Apart /\ Bits /\ Moving)'
  <2> DEFINE P == PageBlocks
             a == pages * P
             e == infoMax * P
             y == Chunk(b, n)
  <2>1. Blocks(b, n) \subseteq Blocks(0, e) /\ heap' = heap \cup {y}
    BY <1>10
  <2>2. b \in Nat /\ y \in Chunks /\ y.base = b /\ y.size = n
    BY <1>4 DEF Chunk, Chunks
  <2>3. used' = used \cup Blocks(b, n)
    <3>1. LastPart(b, n, full) \subseteq Marked(b, n, full)
      BY <1>4, <1>10, SmallMarked
    <3> QED
      BY <1>4, <1>10, <3>1, MarkedIn
  <2>4. \A z \in Blocks(b, n) : z \notin used
    BY <1>4, <1>10, FitsEmpty
  <2>5. a \in Nat /\ e \in Nat /\ a <= e /\ (infoMax - pages) * P = e - a
    <3>1. P \in Nat /\ pages \in Nat /\ infoMax \in Nat
      BY <1>1, PagesPositive, Constants
    <3> QED
      BY <1>1, <3>1, PagesPositive
  <2>6. \A z : z \in Memory <=> z \in Nat /\ z < a
    <3> HIDE DEF a
    <3> QED
      BY <2>5, InRange DEF Memory, a
  <2>7. Blocks(a, e - a) \subseteq used
    BY <1>7, <2>5 DEF Bits
  <2>8. \A z : z \in ChunkBlocks(y) <=> z \in Blocks(b, n)
    BY <2>2 DEF ChunkBlocks
  <2> HIDE DEF a, e, y
  <2>9. \A z \in Blocks(b, n) : z \in Memory
    <3> SUFFICES ASSUME NEW z \in Blocks(b, n), ~(z < a) PROVE FALSE
      <4>1. \A z \in Blocks(b, n) : z \in Nat
        BY <2>1, <2>5, InRange
      <4> QED
        BY <2>6, <4>1
    <3>1. z \in Nat /\ z < e
      BY <2>1, <2>5, InRange
    <3>2. z \in Blocks(a, e - a)
      BY <2>5, <3>1, InBlocks
    <3> QED
      BY <2>4, <2>7, <3>2
  <2>10. b + n <= a
    <3>1. b + n - 1 \in Blocks(b, n)
      BY <1>4, <2>2, InBlocks
    <3>2. b + n - 1 < a
      BY <2>6, <2>9, <3>1
    <3> QED
      BY <1>4, <2>2, <2>5, <3>2
  <2>11. \A z : ~Again(z) /\ ~Again(z)'
    <3>1. \A d \in CPUs : \A k \in Pend(todo[d]) : k.op # "free2"
      <4>1. \A k \in Pend(todo[c]) : k.op # "free2"
        BY <1>3 DEF View, Calm, Users
      <4>2. \A d \in CPUs \ {c} : \A k \in Pend(todo[d]) : k.op # "free2"
        BY <1>3 DEF View, Rarely, Rare, Guarded
      <4> QED
        BY <4>1, <4>2
    <3>2. \A z : ~Again(z)
      BY <3>1 DEF Again
    <3>3. \A z : Again(z)' <=> Again(z)
      BY <1>3, AgainSame
    <3> QED
      BY <3>2, <3>3
  <2>12. \A z : Heaped(z) => z \in used
    BY <1>1, <1>7, <2>5, <2>6, <2>11, HeapedIn DEF Bits, a
  <2>13. y \notin heap
    <3> SUFFICES ASSUME y \in heap PROVE FALSE
      OBVIOUS
    <3>1. b \in Blocks(b, n)
      BY <1>4, <2>2, InBlocks
    <3>2. Heaped(b)
      BY <2>8, <3>1 DEF Heaped
    <3> QED
      BY <2>4, <2>12, <3>1, <3>2
  <2>14. \A o, x : Own(o, x)' => (o = Owner("ret", c) /\ x = y) \/ (o # Owner("ret", c) /\ Own(o, x))
    BY <1>1, <1>6, <1>10 DEF y
  <2>15. Owned' /\ Unique'
    <3> DEFINE p == Owner("ret", c)
    <3>1. \A o, x : Own(o, x)' => (o = p /\ x = y) \/ (o # p /\ Own(o, x))
      BY <2>14
    <3> HIDE DEF p
    <3>2. ASSUME NEW o, NEW x, Own(o, x)' PROVE x \in heap'
      BY <1>7, <2>1, <3>1, <3>2 DEF Owned
    <3>3. ASSUME NEW o, NEW q, NEW x, Own(o, x)', Own(q, x)' PROVE o = q
      <4>1. /\ (o = p /\ x = y) \/ (o # p /\ Own(o, x))
            /\ (q = p /\ x = y) \/ (q # p /\ Own(q, x))
        BY <3>1, <3>3
      <4>2. ~Own(o, y) /\ ~Own(q, y)
        BY <1>7, <2>13 DEF Owned
      <4> QED
        BY <1>7, <4>1, <4>2 DEF Unique
    <3> QED
      BY <3>2, <3>3 DEF Owned, Unique
  <2>16. Apart'
    <3>1. \A x \in heap' : x.size > 0 /\ x.base + x.size <= pages' * PageBlocks
      BY <1>2, <1>4, <1>7, <2>1, <2>2, <2>10 DEF Apart, a
    <3>2. ASSUME NEW x \in heap, ChunkBlocks(x) \cap ChunkBlocks(y) # {} PROVE FALSE
      <4>1. PICK z : z \in ChunkBlocks(x) /\ z \in ChunkBlocks(y)
        BY <3>2
      <4>2. Heaped(z)
        BY <4>1 DEF Heaped
      <4> QED
        BY <2>4, <2>8, <2>12, <4>1, <4>2
    <3>3. \A x, z \in heap' : ChunkBlocks(x) \cap ChunkBlocks(z) # {} => x = z
      <4>1. \A x, z \in heap : ChunkBlocks(x) \cap ChunkBlocks(z) # {} => x = z
        BY <1>7 DEF Apart
      <4>2. \A x \in heap : ChunkBlocks(y) \cap ChunkBlocks(x) = {} /\ ChunkBlocks(x) \cap ChunkBlocks(y) = {}
        BY <3>2
      <4> QED
        BY <2>1, <4>1, <4>2
    <3>4. infoBase' + InfoBlocks(infoMax') <= pages' * PageBlocks
      BY <1>2, <1>7 DEF Apart
    <3>5. \A d \in CPUs : \A k \in Pend(todo'[d]) : k \in Pend(todo[d])
      BY <1>3 DEF View
    <3>6. \A d \in CPUs : \A k \in Pend(todo'[d]) :
            k.op = "free2" => k.base + k.size <= pages' * PageBlocks
      BY <1>2, <1>7, <3>5 DEF Apart
    <3> QED
      BY <3>1, <3>3, <3>4, <3>6 DEF Apart
  <2>17. Bits'
    <3>1. \A z : Heaped(z)' <=> Heaped(z) \/ z \in Blocks(b, n)
      BY <2>1, <2>8 DEF Heaped
    <3>2. Memory' = Memory
      BY <1>2 DEF Memory
    <3>3. Blocks(pages' * PageBlocks, (infoMax' - pages') * PageBlocks) \subseteq used'
      BY <1>2, <1>7, <2>3 DEF Bits
    <3>4. severed \subseteq Memory /\ (\A z \in severed : ~Heaped(z))
          /\ \A z \in Memory : z \in used <=> Heaped(z) \/ z \in severed
      BY <1>7, <2>11 DEF Bits
    <3>5. \A z \in severed' : ~Heaped(z)'
      BY <1>2, <2>4, <3>1, <3>4
    <3>6. \A z \in Memory' : z \in used' <=> Heaped(z)' \/ z \in severed'
      BY <1>2, <2>3, <3>1, <3>2, <3>4
    <3> QED
      BY <1>2, <2>11, <3>2, <3>3, <3>4, <3>5, <3>6 DEF Bits
  <2> QED
    BY <1>8, <2>15, <2>16, <2>17
<1> QED
  BY <1>2, <1>9, <1>10

(* free2 clears at least the first block.                                   *)
LEMMA BaseCleared ==
  ASSUME NEW b \in Nat, NEW n \in Nat \ {0}
  PROVE  b \in Cleared(b, n)
<1> DEFINE P == PageBlocks
           m == n \div P
           r == n % P
<1>1. P \in Nat /\ P > 0 /\ m \in Nat /\ r \in Nat /\ n = m * P + r
  BY Constants, DivMod
<1>2. Cleared(b, n) = Blocks(b, m * P) \cup (Blocks(b + m * P, r) \cap PageOf((b + m * P) \div P))
  BY DEF Cleared
<1> HIDE DEF m, r
<1>3. CASE m = 0
  <2>1. m * P = 0 /\ b + m * P = b /\ r > 0
    BY <1>1, <1>3
  <2>2. b \in Blocks(b, r) /\ b \in PageOf(b \div P)
    BY <1>1, <2>1, InBlocks, InPage
  <2> QED
    BY <1>2, <2>1, <2>2
<1>4. CASE m > 0
  <2>1. m * P \in Nat /\ 0 * P + P <= m * P
    BY <1>1, <1>4, Times
  <2>2. m * P > 0
    BY <1>1, <2>1
  <2>3. b \in Blocks(b, m * P)
    BY <2>1, <2>2, InBlocks
  <2> QED
    BY <1>2, <2>3
<1> QED
  BY <1>1, <1>3, <1>4

(* What free2 takes nobody has any more.                                    *)
LEMMA FreeOwned ==
  ASSUME NEW c \in CPUs, View(c, "free2", {}), UNCHANGED <<list, infoBase, infoMax, ret>>
  PROVE  \A o, x : Own(o, x)' => o # Owner("free", c) /\ Own(o, x)
<1> DEFINE h == Head(todo[c])
           M == {}
           Q == Pend(todo[c])
           R == Rest(c)
<1>1. /\ Q = {h} \cup R /\ h.op = "free2" /\ Pend(todo'[c]) = R
      /\ \A d \in CPUs \ {c} : todo'[d] = todo[d]
  BY DEF View
<1>2. \A k \in R : k.op \in Enders \cup Calm
  BY DEF View
<1>3. View(c, "free2", M) /\ \A k \in M : FALSE
  OBVIOUS
<1> HIDE DEF h, M, Q, R
<1>4. \A b : Closest(b)' = Closest(b)
  BY DEF Closest
<1>5. Due({"setinfo"})' <=> Due({"setinfo"})
  BY <1>1 DEF Due, Q
<1>6. Setting' <=> Setting
  BY <1>1 DEF Setting, Q
<1>7. \A i : Clearing(i)' <=> Clearing(i)
  BY <1>1, <1>4 DEF Clearing, Q
<1>8. Info' = Info /\ List' = List
  BY DEF Info, List
<1>9. \A o, x : OwnThing(o, x)' => OwnThing(o, x) /\ o # Owner("free", c)
  <2>1. \A o, x : OwnThing(o, x)' => OwnThing(o, x)
    BY <1>5, <1>6, <1>7, <1>8 DEF OwnThing
  <2> QED
    BY <2>1, OwnTags
<1>10. ASSUME NEW o, NEW x, OwnCPU(c, o, x)' PROVE OwnCPU(c, o, x) /\ o # Owner("free", c)
  <2>1. ~FreeOwn(R, x)
    BY <1>2 DEF FreeOwn, Enders, Calm
  <2>2. ~RetOwn(R, ret'[c], list'.max, infoMax', x)
    BY <1>2 DEF RetOwn, Enders, Calm, Users
  <2>3. o = Owner("step", c) /\ StepOwn(R, list.max, infoMax, x)
    BY <1>1, <1>10, <2>1, <2>2 DEF OwnCPU
  <2>4. StepOwn(Q, list.max, infoMax, x)
    BY <1>1, <2>3 DEF StepOwn
  <2> QED
    BY <2>3, <2>4, SameOwner DEF OwnCPU, Q
<1>11. \A d \in CPUs \ {c} : \A o, x : OwnCPU(d, o, x)' => OwnCPU(d, o, x) /\ o # Owner("free", c)
  BY <1>3, OwnOthers, OwnTags
<1> QED
  BY <1>9, <1>10, <1>11 DEF Own

(* free2 clears the bits of a chunk with one owner, which is gone then, or, *)
(* a second time, the bits of the old AllocationInfoList, which nobody owns *)
(* by then.                                                                 *)
LEMMA FreeO ==
  ASSUME OInv, TInv, NEW c \in CPUs, DoFree2(c), View(c, "free2", {})
  PROVE  OInv'
<1> DEFINE h == Head(todo[c])
           y == Chunk(h.base, h.size)
           C == Cleared(h.base, h.size)
           Q == Pend(todo[c])
           R == Rest(c)
           P == PageBlocks
           a == pages * P
           e == infoMax * P
<1>1. StepsT /\ PagesT /\ ListT /\ HeapT
  BY DEF TInv
<1>2. /\ UNCHANGED <<pages, infoMax, infoBase, copied, list, ret, damaged>>
      /\ used' = used \ C /\ heap' = heap \ {y}
      /\ severed' = IF y \in heap THEN severed \cup (ChunkBlocks(y) \ C) ELSE severed
  BY DEF DoFree2, Chunk
<1> SUFFICES ASSUME ~damaged PROVE (Owned /\ Unique /\ Apart /\ Bits /\ Moving)'
  BY <1>2 DEF OInv
<1>3. Owned /\ Unique /\ Apart /\ Bits /\ Moving
  BY DEF OInv
<1>4. /\ Q = {h} \cup R /\ h.op = "free2" /\ Pend(todo'[c]) = R
      /\ \A d \in CPUs \ {c} : todo'[d] = todo[d]
      /\ \/ \A k \in R : k.op \in Calm
         \/ \E u \in R : u.op \in Enders /\ \A k \in R : k = u \/ k.op \in Calm
      /\ \A d \in CPUs \ {c} : \A k \in Pend(todo[d]) : k.op \notin Rare
  BY DEF View, Guarded, Rarely
<1>5. \A o, x : Own(o, x)' => o # Owner("free", c) /\ Own(o, x)
  BY <1>2, FreeOwned
<1>6. h.base \in Nat /\ h.size \in Nat \ {0} /\ y \in Chunks /\ y.base = h.base /\ y.size = h.size
  <2>1. Legit(y, pages)
    BY <1>1, HeadT
  <2> QED
    BY <2>1 DEF Legit, Chunk, Chunks
<1>7. h.base + h.size <= a
  BY <1>3, <1>4 DEF Apart
<1>8. /\ C \subseteq ChunkBlocks(y) /\ h.base \in C
      /\ \A z : z \in ChunkBlocks(y) <=> z \in Nat /\ h.base <= z /\ z < h.base + h.size
  <2>1. C \subseteq Blocks(h.base, h.size) /\ h.base \in C
    BY <1>6, ClearedIn, BaseCleared
  <2>2. ChunkBlocks(y) = Blocks(h.base, h.size)
    BY <1>6 DEF ChunkBlocks
  <2>3. \A z : z \in ChunkBlocks(y) <=> z \in Nat /\ h.base <= z /\ z < h.base + h.size
    BY <1>6, InChunk
  <2> QED
    BY <2>1, <2>2, <2>3
<1>9. /\ a \in Nat /\ e \in Nat /\ a <= e /\ (infoMax - pages) * P = e - a
      /\ \A z : z \in Memory <=> z \in Nat /\ z < a
  <2>1. P \in Nat /\ pages \in Nat /\ infoMax \in Nat /\ a \in Nat /\ e \in Nat /\ a <= e
    BY <1>1, PagesPositive, Constants
  <2>2. (infoMax - pages) * P = e - a
    BY <2>1
  <2>3. Memory = Blocks(0, a)
    BY DEF Memory
  <2> HIDE DEF a, e
  <2> QED
    BY <2>1, <2>2, <2>3, InRange
<1> HIDE DEF h, y, C, Q, R, a, e
<1>10. \A k \in R : k.op # "free2"
  BY <1>4 DEF Calm, Enders
<1>11. \A z : ~Again(z)'
  <2>1. \A d \in CPUs : \A k \in Pend(todo'[d]) : k.op # "free2"
    BY <1>4, <1>10 DEF Rare
  <2> QED
    BY <2>1 DEF Again
<1>12. \A z : Again(z) <=> ~Ended(R) /\ z \in C
  <2>1. \A z : Again(z) <=> ~Ended(Q) /\ \E k \in Q : k.op = "free2" /\ z \in Cleared(k.base, k.size)
    BY <1>4 DEF Again, Rare, Q
  <2>2. Ended(Q) <=> Ended(R)
    BY <1>4 DEF Ended, Enders
  <2>3. \A z : (\E k \in Q : k.op = "free2" /\ z \in Cleared(k.base, k.size)) <=> z \in C
    BY <1>4, <1>10 DEF C
  <2> QED
    BY <2>1, <2>2, <2>3
<1>13. Ended(R) <=> y \in heap
  <2>1. ASSUME Ended(R) PROVE y \in heap
    <3>1. FreeOwn(Q, y)
      BY <1>4, <2>1 DEF FreeOwn, Ended, y
    <3>2. Own(Owner("free", c), y)
      BY <3>1 DEF Own, OwnCPU, Q
    <3> QED
      BY <1>3, <3>2 DEF Owned
  <2>2. ASSUME ~Ended(R), y \in heap PROVE FALSE
    <3>1. Again(h.base)
      BY <1>8, <1>12, <2>2
    <3>2. Heaped(h.base)
      BY <1>8, <2>2 DEF Heaped
    <3> QED
      BY <1>3, <3>1, <3>2 DEF Bits
  <2> QED
    BY <2>1, <2>2
<1>14. Owned' /\ Unique'
  <2>1. ASSUME NEW o, NEW x, Own(o, x)' PROVE x \in heap'
    <3>1. o # Owner("free", c) /\ Own(o, x) /\ x \in heap
      BY <1>3, <1>5, <2>1 DEF Owned
    <3>2. ASSUME x = y PROVE FALSE
      <4>1. Ended(R)
        BY <1>13, <3>1, <3>2
      <4>2. FreeOwn(Q, y)
        BY <1>4, <4>1 DEF FreeOwn, Ended, y
      <4>3. Own(Owner("free", c), y)
        BY <4>2 DEF Own, OwnCPU, Q
      <4> QED
        BY <1>3, <3>1, <3>2, <4>3 DEF Unique
    <3> QED
      BY <1>2, <3>1, <3>2
  <2>2. Unique'
    BY <1>3, <1>5 DEF Unique
  <2> QED
    BY <2>1, <2>2 DEF Owned
<1>15. Apart'
  <2>1. \A d \in CPUs : \A k \in Pend(todo'[d]) : k \in Pend(todo[d])
    BY <1>4 DEF Q
  <2>2. \A x \in heap' : x \in heap
    BY <1>2
  <2> QED
    BY <1>2, <1>3, <2>1, <2>2 DEF Apart
<1>16. Bits'
  <2>1. /\ Blocks(a, e - a) \subseteq used
        /\ severed \subseteq Memory /\ (\A z \in severed : ~Heaped(z))
        /\ \A z \in Memory : ~Again(z) => (z \in used <=> Heaped(z) \/ z \in severed)
        /\ \A z : Heaped(z) \/ z \in severed => ~Again(z)
    BY <1>3, <1>9 DEF Bits, a
  <2>2. Memory' = Memory /\ Blocks(pages' * P, (infoMax' - pages') * P) = Blocks(a, e - a)
    BY <1>2, <1>9 DEF Memory, a
  <2>3. Blocks(a, e - a) \subseteq used'
    <3>1. \A z \in Blocks(a, e - a) : z \in Int /\ a <= z
      BY <1>9, InBlocks
    <3>2. \A z \in C : z \in Nat /\ z < a
      BY <1>6, <1>7, <1>8, <1>9
    <3> QED
      BY <1>2, <1>9, <2>1, <3>1, <3>2
  <2>4. \A z \in ChunkBlocks(y) : z \in Memory
    BY <1>6, <1>7, <1>8, <1>9
  <2>5. CASE y \in heap
    <3>1. \A z : Heaped(z)' <=> Heaped(z) /\ z \notin ChunkBlocks(y)
      <4>1. \A x \in heap : ChunkBlocks(x) \cap ChunkBlocks(y) # {} => x = y
        BY <1>3, <2>5 DEF Apart
      <4> QED
        BY <1>2, <4>1 DEF Heaped
    <3>2. \A z \in ChunkBlocks(y) : Heaped(z)
      BY <2>5 DEF Heaped
    <3>3. \A z : ~Again(z)
      BY <1>12, <1>13, <2>5
    <3>4. severed' \subseteq Memory'
      BY <1>2, <2>1, <2>2, <2>4
    <3>5. \A z \in severed' : ~Heaped(z)'
      BY <1>2, <2>1, <3>1
    <3>6. \A z \in Memory' : z \in used' <=> Heaped(z)' \/ z \in severed'
      BY <1>2, <1>8, <2>1, <2>2, <2>5, <3>1, <3>2, <3>3
    <3> QED
      BY <1>11, <2>2, <2>3, <3>4, <3>5, <3>6 DEF Bits
  <2>6. CASE y \notin heap
    <3>1. (\A z : Heaped(z)' <=> Heaped(z)) /\ severed' = severed
      BY <1>2, <2>6 DEF Heaped
    <3>2. \A z : Again(z) <=> z \in C
      BY <1>12, <1>13, <2>6
    <3>3. \A z \in Memory' : z \in used' <=> Heaped(z)' \/ z \in severed'
      BY <1>2, <2>1, <2>2, <3>1, <3>2
    <3> QED
      BY <1>11, <2>1, <2>2, <2>3, <3>1, <3>3 DEF Bits
  <2> QED
    BY <2>5, <2>6
<1>17. Moving'
  <2>1. ASSUME NEW d \in CPUs, NEW k \in Pend(todo'[d]), k.op = "setinfo"
        PROVE  Moved(Pend(todo[d]))'
    <3>1. d = c /\ k \in R /\ k \in Q
      BY <1>4, <2>1 DEF Rare
    <3>2. Moved(Q)
      BY <1>3, <2>1, <3>1 DEF Moving, Q
    <3>3. used = copied /\ y = Info
      BY <1>4, <3>2 DEF Moved, y
    <3>4. C = Cleared(infoBase, InfoBlocks(infoMax))
      <4>1. h.base = infoBase /\ h.size = InfoBlocks(infoMax)
        BY <3>3 DEF y, Info, Chunk
      <4> QED
        BY <4>1 DEF C
    <3>5. used' = copied' \ Cleared(infoBase', InfoBlocks(infoMax'))
      BY <1>2, <3>3, <3>4
    <3> QED
      BY <1>4, <1>10, <3>1, <3>5 DEF Moved
  <2> QED
    BY <2>1 DEF Moving
<1> QED
  BY <1>14, <1>15, <1>16, <1>17

(* The copy of AllocationInfoList is the list as it was, with the new       *)
(* list's own bits.                                                         *)
LEMMA MoveInfoO ==
  ASSUME OInv, TInv, NEW c \in CPUs, MoveInfo(c),
         View(c, "moveinfo", {Step("free2", infoBase, InfoBlocks(infoMax)), Step("setinfo", ret[c], 0)})
  PROVE  OInv'
<1> DEFINE h == Head(todo[c])
           k == Step("free2", infoBase, InfoBlocks(infoMax))
           u == Step("setinfo", ret[c], 0)
           M == {k, u}
           n1 == Owner("step", c)
           p1 == Owner("ret", c)
           n2 == Owner("free", c)
           p2 == Owner("info", 0)
<1>1. UNCHANGED <<used, pages, infoMax, infoBase, list, ret, heap, severed, damaged>> /\ copied' = used
  BY DEF MoveInfo, historyVars
<1>2. /\ k.op = "free2" /\ k.base = infoBase /\ k.size = InfoBlocks(infoMax)
      /\ u.op = "setinfo" /\ u.base = ret[c]
  BY StepFields
<1>3. View(c, "moveinfo", M)
  OBVIOUS
<1>4. ret[c] # NULL => Own(p1, Chunk(ret[c], InfoBlocks(2 * infoMax)))
  <2>1. /\ h.op = "moveinfo"
        /\ ret[c] # NULL => Own(Owner("ret", c), Chunk(ret[c], Amount(h, list.max, infoMax)))
    BY <1>3, HeadOwns DEF Users
  <2> HIDE DEF h
  <2>2. Amount(h, list.max, infoMax) = InfoBlocks(2 * infoMax)
    BY <2>1 DEF Amount
  <2> QED
    BY <2>1, <2>2
<1> HIDE DEF h, k, u
<1>5. u \in M /\ k \in M /\ \A j \in M : j = u \/ j = k
  OBVIOUS
<1> HIDE DEF M
<1>6. /\ ~Due({"setinfo"}) /\ Due({"setinfo"})' /\ ~Setting /\ ~Setting'
      /\ \A i : ~Clearing(i) /\ ~Clearing(i)'
  <2>1. /\ ~Due({"setinfo"}) /\ ~Setting /\ \A i : ~Clearing(i)
        /\ Due({"setinfo"})' <=> \E j \in M : j.op = "setinfo"
        /\ Setting' <=> \E j \in M : j.op = "setlist" /\ j.base # NULL
        /\ \A i : Clearing(i)' <=> \E j \in M : j.op = "clear" /\ Closest(j.base)' = i
    BY <1>3, EndsOnly DEF Guarded
  <2> QED
    BY <1>2, <1>5, <2>1
<1>7. Info' = Info /\ List' = List
  BY <1>1 DEF Info, List
<1>8. Own(p2, Info)
  BY <1>6 DEF Own, OwnThing
<1>9. Load(u, list.max, infoMax) = Chunk(ret[c], InfoBlocks(2 * infoMax))
  BY <1>2 DEF Load
<1>10. ASSUME NEW o, NEW x, Own(o, x)'
       PROVE  \/ o = n1 /\ Own(p1, x)
              \/ o = n2 /\ Own(p2, x)
              \/ o # p1 /\ o # p2 /\ Own(o, x)
  <2>1. \/ OwnThing(o, x)'
        \/ o = Owner("step", c) /\ StepOwn(M, list'.max, infoMax', x)
        \/ o = Owner("ret", c) /\ RetOwn(M, ret'[c], list'.max, infoMax', x)
        \/ o = Owner("free", c) /\ FreeOwn(M, x)
        \/ \E d \in CPUs \ {c} : OwnCPU(d, o, x)
    BY <1>1, <1>3, <1>10, OwnSplit
  <2>2. CASE OwnThing(o, x)'
    <3>1. OwnThing(o, x) /\ o # p2
      BY <1>1, <1>6, <1>7, <2>2, SameOwner DEF OwnThing
    <3>2. o # p1
      BY <3>1, OwnTags
    <3> QED
      BY <3>1, <3>2 DEF Own
  <2>3. CASE o = Owner("step", c) /\ StepOwn(M, list'.max, infoMax', x)
    <3>1. PICK j \in M : j.op \in Carriers /\ j.base # NULL /\ x = Load(j, list.max, infoMax)
      BY <1>1, <2>3 DEF StepOwn
    <3>2. j = u /\ ret[c] # NULL
      BY <1>2, <1>5, <3>1 DEF Carriers
    <3> QED
      BY <1>4, <1>9, <2>3, <3>1, <3>2
  <2>4. ~RetOwn(M, ret'[c], list'.max, infoMax', x)
    BY <1>2, <1>5 DEF RetOwn, Users
  <2>5. CASE o = Owner("free", c) /\ FreeOwn(M, x)
    <3>1. PICK j \in M : j.op = "free2" /\ x = Chunk(j.base, j.size)
      BY <2>5 DEF FreeOwn
    <3>2. j = k
      BY <1>2, <1>5, <3>1
    <3>3. x = Info
      BY <1>2, <3>1, <3>2 DEF Info
    <3> QED
      BY <1>8, <2>5, <3>3
  <2>6. CASE \E d \in CPUs \ {c} : OwnCPU(d, o, x)
    <3>1. o # p1
      BY <2>6, OwnTags
    <3>2. o # p2
      BY <2>6, SameOwner DEF OwnCPU
    <3> QED
      BY <2>6, <3>1, <3>2 DEF Own
  <2> QED
    BY <2>1, <2>2, <2>3, <2>4, <2>5, <2>6
<1>11. p1 # p2
  BY SameOwner
<1> HIDE DEF n1, p1, n2, p2
<1> SUFFICES ASSUME ~damaged PROVE (Owned /\ Unique /\ Apart /\ Bits /\ Moving)'
  BY <1>1 DEF OInv
<1>12. Owned /\ Unique /\ Apart /\ Bits /\ Moving
  BY DEF OInv
<1>13. Owned' /\ Unique'
  <2>1. heap \subseteq heap' /\ Passed(n1, p1, n2, p2)
    BY <1>1, <1>10 DEF Passed
  <2> QED
    BY <1>11, <1>12, <2>1, OwnMoved
<1>14. Apart'
  <2>1. \A j \in M : j.op = "free2" => j.base + j.size <= pages * PageBlocks
    BY <1>2, <1>5, <1>12 DEF Apart
  <2> QED
    BY <1>1, <1>3, <1>12, <2>1, ApartSame
<1>15. Bits'
  <2>1. Ended(M)
    BY <1>2, <1>5 DEF Ended, Enders
  <2> QED
    BY <1>1, <1>3, <1>12, <2>1, BitsSame
<1>16. Moving'
  <2>1. /\ Pend(todo'[c]) = M \cup Rest(c)
        /\ \A j \in Rest(c) : j.op # "free2"
    BY <1>3 DEF View, Calm
  <2>2. Moved(Pend(todo[c]))'
    <3>1. Chunk(k.base, k.size) = Info'
      BY <1>2, <1>7 DEF Info
    <3>2. \A j \in M \cup Rest(c) : j.op = "free2" => j = k
      BY <1>2, <1>5, <2>1
    <3>3. k \in M \cup Rest(c)
      BY <1>5
    <3> QED
      BY <1>1, <1>2, <2>1, <3>1, <3>2, <3>3 DEF Moved
  <2>3. \A d \in CPUs \ {c} : \A j \in Pend(todo'[d]) : j.op # "setinfo"
    BY <1>3 DEF View, Guarded, Rarely, Rare
  <2> QED
    BY <2>2, <2>3 DEF Moving
<1> QED
  BY <1>13, <1>14, <1>15, <1>16

(* The new AllocationInfoList takes over; the old one's bits, cleared in    *)
(* the old list after the copy, are cleared again in the new one.           *)
LEMMA SetInfoO ==
  ASSUME OInv, TInv, NEW c \in CPUs, ~fault, SetInfo(c),
         View(c, "setinfo", {Step("free2", infoBase, InfoBlocks(infoMax))})
  PROVE  OInv'
<1> DEFINE h == Head(todo[c])
           k == Step("free2", infoBase, InfoBlocks(infoMax))
           M == {k}
           C == Cleared(infoBase, InfoBlocks(infoMax))
           n == Owner("info", 0)
           p == Owner("step", c)
           P == PageBlocks
           a == pages * P
<1>1. StepsT /\ PagesT /\ ListT /\ HeapT
  BY DEF TInv
<1>2. /\ UNCHANGED <<pages, list, ret, heap, severed, damaged>>
      /\ infoBase' = h.base /\ infoMax' = 2 * infoMax
      /\ used' = copied \cup Blocks(a, (2 * infoMax - pages) * P)
  BY DEF SetInfo, historyVars
<1>3. View(c, "setinfo", M)
  OBVIOUS
<1>4. k.op = "free2" /\ k.base = infoBase /\ k.size = InfoBlocks(infoMax)
  BY StepFields
<1>5. Info' = Chunk(h.base, InfoBlocks(2 * infoMax))
  BY <1>2 DEF Info
<1>6. Own(p, Info')
  <2>1. h.op = "setinfo" /\ StepT(h, Pend(todo[c]), ret[c], pages, list.max, infoMax, fault)
        /\ (h.base # NULL => Own(p, Load(h, list.max, infoMax)))
    BY <1>1, <1>3, HeadT, HeadOwns DEF Carriers
  <2> HIDE DEF h
  <2>2. h.base # NULL
    <3>1. Legit(Chunk(h.base, InfoBlocks(2 * infoMax)), pages)
      BY <2>1 DEF StepT
    <3> QED
      BY <3>1 DEF Legit, Chunk, NULL
  <2>3. Load(h, list.max, infoMax) = Chunk(h.base, InfoBlocks(2 * infoMax))
    BY <2>1 DEF Load
  <2> QED
    BY <1>5, <2>1, <2>2, <2>3
<1> HIDE DEF h, k
<1>7. k \in M /\ \A j \in M : j = k
  OBVIOUS
<1> HIDE DEF M
<1>8. /\ ~Due({"setinfo"})' /\ ~Setting /\ ~Setting' /\ \A i : ~Clearing(i) /\ ~Clearing(i)'
  <2>1. /\ ~Setting /\ \A i : ~Clearing(i)
        /\ Due({"setinfo"})' <=> \E j \in M : j.op = "setinfo"
        /\ Setting' <=> \E j \in M : j.op = "setlist" /\ j.base # NULL
        /\ \A i : Clearing(i)' <=> \E j \in M : j.op = "clear" /\ Closest(j.base)' = i
    BY <1>3, EndsOnly DEF Guarded
  <2> QED
    BY <1>4, <1>7, <2>1
<1>9. ASSUME NEW o, NEW x, Own(o, x)' PROVE (o = n /\ Own(p, x)) \/ (o # p /\ Own(o, x))
  <2>1. \/ OwnThing(o, x)'
        \/ o = Owner("step", c) /\ StepOwn(M, list'.max, infoMax', x)
        \/ o = Owner("ret", c) /\ RetOwn(M, ret'[c], list'.max, infoMax', x)
        \/ o = Owner("free", c) /\ FreeOwn(M, x)
        \/ \E d \in CPUs \ {c} : OwnCPU(d, o, x)
    BY <1>2, <1>3, <1>9, OwnSplit DEF Guarded
  <2>2. CASE OwnThing(o, x)'
    <3>1. List' = List
      BY <1>2 DEF List
    <3>2. CASE o = Owner("info", 0) /\ x = Info'
      BY <1>6, <3>2
    <3>3. CASE ~(o = Owner("info", 0) /\ x = Info')
      <4>1. OwnThing(o, x)
        BY <1>2, <1>8, <2>2, <3>1, <3>3 DEF OwnThing
      <4> QED
        BY <4>1, OwnTags DEF Own
    <3> QED
      BY <3>2, <3>3
  <2>3. ~StepOwn(M, list'.max, infoMax', x) /\ ~RetOwn(M, ret'[c], list'.max, infoMax', x)
        /\ ~FreeOwn(M, x)
    BY <1>4, <1>7 DEF StepOwn, RetOwn, FreeOwn, Carriers, Users, Ended, Enders
  <2>4. CASE \E d \in CPUs \ {c} : OwnCPU(d, o, x)
    BY <2>4, OwnTags DEF Own
  <2> QED
    BY <2>1, <2>2, <2>3, <2>4
<1> HIDE DEF n, p
<1> SUFFICES ASSUME ~damaged PROVE (Owned /\ Unique /\ Apart /\ Bits /\ Moving)'
  BY <1>2 DEF OInv
<1>10. Owned /\ Unique /\ Apart /\ Bits /\ Moving
  BY DEF OInv
<1>11. Owned' /\ Unique'
  <2>1. heap \subseteq heap'
    BY <1>2
  <2> QED
    BY <1>9, <1>10, <2>1, OwnGiven
<1>12. /\ Pend(todo[c]) = {Head(todo[c])} \cup Rest(c) /\ Head(todo[c]).op = "setinfo"
       /\ Pend(todo'[c]) = M \cup Rest(c)
       /\ \A d \in CPUs \ {c} : todo'[d] = todo[d]
       /\ \A j \in Rest(c) : j.op \in Calm
       /\ \A d \in CPUs \ {c} : \A j \in Pend(todo[d]) : j.op \notin Rare
  BY <1>3 DEF View, Guarded, Rarely
<1>13. \A j \in Rest(c) : j.op # "free2" /\ j.op # "setinfo" /\ j.op \notin Enders
  BY <1>12 DEF Calm, Enders
<1>14. Apart'
  <2>1. infoBase' + InfoBlocks(infoMax') <= pages * PageBlocks
    BY <1>2, <1>5, <1>6, OwnedFits
  <2>2. \A d \in CPUs : \A j \in Pend(todo'[d]) :
          j.op = "free2" => j.base + j.size <= pages * PageBlocks
    BY <1>4, <1>7, <1>10, <1>12, <1>13 DEF Apart, Rare
  <2> QED
    BY <1>2, <1>10, <2>1, <2>2 DEF Apart
<1>15. \A z : ~Again(z)
  BY <1>12, <1>13 DEF Again, Rare
<1>16. \A z : Again(z)' <=> z \in C
  <2>1. ~Ended(M \cup Rest(c))
    BY <1>4, <1>7, <1>13 DEF Ended, Enders
  <2>2. \A z : (\E j \in M \cup Rest(c) : j.op = "free2" /\ z \in Cleared(j.base, j.size)) <=> z \in C
    BY <1>4, <1>7, <1>13
  <2> QED
    BY <1>12, <2>1, <2>2 DEF Again, Rare
<1>17. used = copied \ C
  <2>1. Moved(Pend(todo[c]))
    BY <1>10, <1>12 DEF Moving
  <2> QED
    BY <1>12, <1>13, <2>1 DEF Moved
<1> HIDE DEF C
<1>18. Bits'
  <2>1. a \in Nat /\ \A z : z \in Memory <=> z \in Nat /\ z < a
    <3>1. a \in Nat /\ Memory = Blocks(0, a)
      BY <1>1, PagesPositive DEF Memory
    <3> HIDE DEF a
    <3> QED
      BY <3>1, InRange
  <2>2. Memory' = Memory /\ \A z : Heaped(z)' <=> Heaped(z)
    BY <1>2 DEF Memory, Heaped
  <2>3. \A z \in Memory : z \in used' <=> z \in copied
    <3> DEFINE m == (2 * infoMax - pages) * P
    <3>1. m \in Int
      <4>1. infoMax \in Nat /\ pages \in Nat /\ P \in Nat
        BY <1>1, PagesPositive, Constants
      <4> QED
        BY <4>1
    <3>2. used' = copied \cup Blocks(a, m)
      BY <1>2
    <3> HIDE DEF m, a
    <3>3. \A z \in Blocks(a, m) : a <= z
      BY <2>1, <3>1, InBlocks
    <3> QED
      BY <2>1, <3>2, <3>3
  <2>4. \A z : Heaped(z) \/ z \in severed => z \in Memory
    BY <1>1, <1>10, <2>1, HeapedIn DEF Bits
  <2>5. (\A z \in severed : ~Heaped(z)) /\ \A z \in Memory : z \in used <=> Heaped(z) \/ z \in severed
    BY <1>10, <1>15 DEF Bits
  <2>6. Blocks(pages' * PageBlocks, (infoMax' - pages') * PageBlocks) \subseteq used'
    BY <1>2
  <2>7. \A z \in Memory' : ~Again(z)' => (z \in used' <=> Heaped(z)' \/ z \in severed')
    BY <1>2, <1>16, <1>17, <2>2, <2>3, <2>5
  <2>8. \A z : Heaped(z)' \/ z \in severed' => ~Again(z)'
    BY <1>2, <1>16, <1>17, <2>2, <2>4, <2>5
  <2>9. severed' \subseteq Memory' /\ \A z \in severed' : ~Heaped(z)'
    BY <1>2, <2>2, <2>4, <2>5
  <2> QED
    BY <2>6, <2>7, <2>8, <2>9 DEF Bits
<1>19. Moving'
  <2>1. \A d \in CPUs : \A j \in Pend(todo'[d]) : j.op # "setinfo"
    BY <1>4, <1>7, <1>12, <1>13 DEF Rare
  <2> QED
    BY <2>1 DEF Moving
<1> QED
  BY <1>11, <1>14, <1>18, <1>19

(* Every step that works keeps the ownership.                               *)
LEMMA WorkO ==
  ASSUME LockInv, LevelInv, ShapeInv, TInv, OInv, NEW c \in CPUs, ~fault, Work(c)
  PROVE  OInv'
<1>1. StepsT
  BY DEF TInv
<1>2. CASE DoMalloc2(c)
  BY <1>2, WorkViews, MallocO
<1>3. CASE DoFree2(c)
  BY <1>3, WorkViews, FreeO
<1>4. CASE Record(c)
  BY <1>4, WorkViews, RecordO
<1>5. CASE InsertFirst(c)
  BY <1>5, WorkViews, InsertFirstO
<1>6. CASE FirstList(c)
  BY <1>1, <1>6, WorkViews, FirstListO
<1>7. CASE Insert(c)
  BY <1>7, WorkViews, InsertO
<1>8. CASE MoveList(c)
  BY <1>8, WorkViews, MoveListO
<1>9. CASE SetList(c)
  BY <1>9, WorkViews, SetListO
<1>10. CASE Result(c) \/ Return(c) \/ Copymem(c) \/ AddTable(c)
  BY <1>1, <1>10, WorkViews, QuietO
<1>11. CASE Unlink(c)
  BY <1>11, WorkViews, UnlinkO
<1>12. CASE Clear(c)
  BY <1>12, WorkViews, ClearO
<1>13. CASE Resize(c)
  BY <1>13, WorkViews, ResizeO
<1>14. CASE AddPage(c)
  BY <1>14, WorkViews, AddPageO
<1>15. CASE MoveInfo(c)
  BY <1>15, WorkViews, MoveInfoO
<1>16. CASE SetInfo(c)
  BY <1>16, WorkViews, SetInfoO
<1> QED
  BY <1>2, <1>3, <1>4, <1>5, <1>6, <1>7, <1>8, <1>9, <1>10, <1>11, <1>12, <1>13, <1>14, <1>15,
     <1>16 DEF Work

(* What counts of a CPU's steps is what ends, frees or holds something.     *)
Lasting(Q) == {k \in Q : k.op \in Carriers \cup Enders \cup {"free2"}}

(* A step that changes neither memory nor what is held keeps the ownership. *)
LEMMA SameO ==
  ASSUME OInv, UNCHANGED <<mmVars, ret, heap, severed, damaged>>,
         \A d \in CPUs : Lasting(Pend(todo'[d])) = Lasting(Pend(todo[d])),
         \A d \in CPUs : \A x : RetOwn(Pend(todo'[d]), ret[d], list.max, infoMax, x)
                             => RetOwn(Pend(todo[d]), ret[d], list.max, infoMax, x)
  PROVE  OInv'
<1>1. UNCHANGED <<used, pages, infoMax, infoBase, copied, list>>
  BY DEF mmVars
<1>2. ASSUME NEW d \in CPUs, NEW k, k.op \in Carriers \cup Enders \cup {"free2"}
      PROVE  k \in Pend(todo'[d]) <=> k \in Pend(todo[d])
  BY <1>2 DEF Lasting
<1>3. \A d \in CPUs : \A k : k.op \in Enders \cup {"free2"} =>
                               (k \in Pend(todo'[d]) <=> k \in Pend(todo[d]))
  BY <1>2
<1>4. \A d \in CPUs : \A k : k.op \in Carriers => (k \in Pend(todo'[d]) <=> k \in Pend(todo[d]))
  BY <1>2
<1>5. \A b : Closest(b)' = Closest(b)
  BY <1>1 DEF Closest
<1>6. Due({"setinfo"})' <=> Due({"setinfo"})
  BY <1>3 DEF Due, Enders
<1>7. Setting' <=> Setting
  BY <1>3 DEF Setting, Enders
<1>8. \A i : Clearing(i)' <=> Clearing(i)
  BY <1>3, <1>5 DEF Clearing, Enders
<1>9. Info' = Info /\ List' = List
  BY <1>1 DEF Info, List
<1>10. \A d \in CPUs : Ended(Pend(todo'[d])) <=> Ended(Pend(todo[d]))
  BY <1>3 DEF Ended
<1>11. \A o, x : Own(o, x)' => Own(o, x)
  <2>1. \A o, x : OwnThing(o, x)' => OwnThing(o, x)
    BY <1>1, <1>6, <1>7, <1>8, <1>9 DEF OwnThing
  <2>2. ASSUME NEW d \in CPUs, NEW x
        PROVE  /\ StepOwn(Pend(todo'[d]), list.max, infoMax, x)
                    => StepOwn(Pend(todo[d]), list.max, infoMax, x)
               /\ FreeOwn(Pend(todo'[d]), x) => FreeOwn(Pend(todo[d]), x)
    <3>1. StepOwn(Pend(todo'[d]), list.max, infoMax, x)
            => StepOwn(Pend(todo[d]), list.max, infoMax, x)
      BY <1>4 DEF StepOwn
    <3>2. FreeOwn(Pend(todo'[d]), x) => FreeOwn(Pend(todo[d]), x)
      BY <1>3, <1>10 DEF FreeOwn
    <3> QED
      BY <3>1, <3>2
  <2>3. \A d \in CPUs : \A o, x : OwnCPU(d, o, x)' => OwnCPU(d, o, x)
    BY <1>1, <2>2 DEF OwnCPU
  <2> QED
    BY <2>1, <2>3 DEF Own
<1> SUFFICES ASSUME ~damaged PROVE (Owned /\ Unique /\ Apart /\ Bits /\ Moving)'
  BY DEF OInv
<1>12. Owned /\ Unique /\ Apart /\ Bits /\ Moving
  BY DEF OInv
<1>13. Owned' /\ Unique'
  BY <1>11, <1>12, OwnKeeps
<1>14. Apart'
  BY <1>1, <1>3, <1>12 DEF Apart
<1>15. Bits'
  <2>1. \A z : Again(z)' <=> Again(z)
    BY <1>3, <1>10 DEF Again
  <2>2. Memory' = Memory /\ \A z : Heaped(z)' <=> Heaped(z)
    BY <1>1 DEF Memory, Heaped
  <2> QED
    BY <1>1, <1>12, <2>1, <2>2 DEF Bits
<1>16. Moving'
  <2>1. ASSUME NEW d \in CPUs, NEW k \in Pend(todo'[d]), k.op = "setinfo"
        PROVE  Moved(Pend(todo[d]))'
    <3>1. Moved(Pend(todo[d]))
      BY <1>3, <1>12, <2>1 DEF Moving, Enders
    <3> QED
      BY <1>1, <1>3, <1>9, <3>1 DEF Moved
  <2> QED
    BY <2>1 DEF Moving
<1> QED
  BY <1>13, <1>14, <1>15, <1>16

(* The beginning of a call holds nothing.                                   *)
LEMMA BeginO ==
  ASSUME OInv, NEW c \in CPUs, NEW M, Begins(c, M), UNCHANGED <<mmVars, ret, heap, severed, damaged>>,
         \A k \in M : k.op \notin Carriers \cup Enders \cup {"free2"},
         Waits(M) \/ \A k \in M : k.op \notin Users
  PROVE  OInv'
<1>1. /\ Pend(todo[c]) = {} /\ Pend(todo'[c]) = M
      /\ \A d \in CPUs \ {c} : Pend(todo'[d]) = Pend(todo[d])
  BY DEF Begins
<1>2. \A d \in CPUs : Lasting(Pend(todo'[d])) = Lasting(Pend(todo[d]))
  BY <1>1 DEF Lasting
<1>3. \A x : ~RetOwn(M, ret[c], list.max, infoMax, x)
  BY DEF RetOwn
<1>4. \A d \in CPUs : \A x : RetOwn(Pend(todo'[d]), ret[d], list.max, infoMax, x)
                             => RetOwn(Pend(todo[d]), ret[d], list.max, infoMax, x)
  BY <1>1, <1>3
<1> QED
  BY <1>2, <1>4, SameO

(* Calls keep the ownership.                                                *)
LEMMA CallO ==
  ASSUME LockInv, LevelInv, ShapeInv, OInv, NEW c \in CPUs, Call(c)
  PROVE  OInv'
<1>1. UNCHANGED <<mmVars, ret, heap, severed, damaged>>
  BY DEF Call, CallMalloc, CallFree, CallRealloc, CallAddPage, Calls
<1>2. PICK M : /\ Begins(c, M)
               /\ \A k \in M : k.op \in {"malloc2", "record", "return", "unlink", "resize", "addpage"}
               /\ (\E k \in M : k.op = "record") => Waits(M)
  <2>1. CASE \E n \in Sizes : CallMalloc(c, n)
    <3>1. PICK n \in Sizes : CallMalloc(c, n)
      BY <2>1
    <3> DEFINE k == Step("malloc2", NULL, n)
               u == Step("record", NULL, n)
               v == Step("return", NULL, n)
    <3>2. Begins(c, {k, u, v})
      BY <3>1, CallViews
    <3>3. k.op = "malloc2" /\ u.op = "record" /\ v.op = "return"
      BY StepFields
    <3> HIDE DEF k, u, v
    <3>4. Waits({k, u, v})
      BY <3>3 DEF Waits
    <3> QED
      BY <3>2, <3>3, <3>4
  <2>2. CASE \E x \in live : CallFree(c, x)
    <3>1. PICK x \in live : CallFree(c, x)
      BY <2>2
    <3> DEFINE k == Step("unlink", x.base, 0)
    <3>2. Begins(c, {k}) /\ k.op = "unlink"
      BY <3>1, CallViews, StepFields
    <3> HIDE DEF k
    <3> QED
      BY <3>2
  <2>3. CASE \E x \in live, n \in Sizes : CallRealloc(c, x, n)
    <3>1. PICK x \in live, n \in Sizes : CallRealloc(c, x, n)
      BY <2>3
    <3> DEFINE k == Step("resize", x.base, n)
               v == Step("return", NULL, n)
    <3>2. Begins(c, {k, v}) /\ k.op = "resize" /\ v.op = "return"
      BY <3>1, CallViews, StepFields
    <3> HIDE DEF k, v
    <3> QED
      BY <3>2
  <2>4. CASE CallAddPage(c)
    <3> DEFINE k == Step("addpage", NULL, 0)
    <3>1. Begins(c, {k}) /\ k.op = "addpage"
      BY <2>4, CallViews, StepFields
    <3> HIDE DEF k
    <3> QED
      BY <3>1
  <2> QED
    BY <2>1, <2>2, <2>3, <2>4 DEF Call
<1>3. \A k \in M : k.op \notin Carriers \cup Enders \cup {"free2"}
  BY <1>2 DEF Carriers, Enders
<1>4. Waits(M) \/ \A k \in M : k.op \notin Users
  BY <1>2 DEF Users
<1> QED
  BY <1>1, <1>2, <1>3, <1>4, BeginO

(* After mmInit AllocationInfoList owns its blocks and nothing else is      *)
(* allocated.                                                               *)
LEMMA InitO == Init => OInv
<1> SUFFICES ASSUME Init PROVE Owned /\ Unique /\ Apart /\ Bits /\ Moving
  BY DEF OInv
<1> DEFINE P == PageBlocks
           a == InitPages * P
           n == InfoBlocks(InitInfoMax)
           y == Chunk(0, n)
<1>1. \A c \in CPUs : todo[c] = <<>> /\ Pend(todo[c]) = {}
  BY EmptyForm DEF Init
<1>2. /\ infoMax = InitInfoMax /\ infoBase = 0 /\ pages = InitPages
      /\ used = Blocks(0, n) \cup Blocks(a, (InitInfoMax - InitPages) * P)
      /\ list = [base |-> NULL, max |-> 0, items |-> <<>>]
      /\ heap = {y} /\ severed = {}
  BY DEF Init, Chunk
<1>3. /\ P \in Nat /\ P > 0 /\ a \in Nat /\ n <= a /\ (InitInfoMax - InitPages) * P \in Int
  <2>1. P \in Nat /\ P > 0 /\ InitPages \in Nat /\ InitInfoMax \in Nat /\ n <= a
    BY Constants, SizesAssumption DEF InfoBlocks
  <2> QED
    BY <2>1
<1>4. n \in Nat \ {0}
  <2>1. InitInfoMax >= InfoPerBlock
    BY Multiple, Constants, SizesAssumption
  <2> QED
    BY <2>1, Constants, Divides DEF InfoBlocks
<1>5. Info = y /\ y.base = 0 /\ y.size = n /\ y \in Chunks
  BY <1>2, <1>4 DEF Info, Chunk, Chunks
<1>6. \A o, x : Own(o, x) => o = Owner("info", 0) /\ x = y
  <2>1. DOMAIN list.items = {} /\ list.base = NULL
    BY <1>2
  <2>2. \A o, x : OwnThing(o, x) => o = Owner("info", 0) /\ x = y
    BY <1>5, <2>1 DEF OwnThing
  <2>3. \A c \in CPUs : \A o, x : ~OwnCPU(c, o, x)
    BY <1>1 DEF OwnCPU, StepOwn, RetOwn, FreeOwn
  <2> QED
    BY <2>2, <2>3 DEF Own
<1> HIDE DEF y, n
<1>7. Owned /\ Unique
  BY <1>2, <1>6 DEF Owned, Unique
<1>8. Apart
  <2>1. y.size > 0 /\ y.base + y.size <= pages * PageBlocks
    <3>1. pages * PageBlocks = a
      BY <1>2
    <3> HIDE DEF a
    <3> QED
      BY <1>3, <1>4, <1>5, <3>1
  <2>2. infoBase + InfoBlocks(infoMax) <= pages * PageBlocks
    <3>1. pages * PageBlocks = a /\ InfoBlocks(infoMax) = n
      BY <1>2 DEF n
    <3> HIDE DEF a
    <3> QED
      BY <1>2, <1>3, <1>4, <3>1
  <2> QED
    BY <1>1, <1>2, <2>1, <2>2 DEF Apart
<1>9. Bits
  <2> DEFINE m == (InitInfoMax - InitPages) * P
  <2>1. Memory = Blocks(0, a) /\ m \in Int
    BY <1>2, <1>3 DEF Memory
  <2>2. Blocks(pages * PageBlocks, (infoMax - pages) * PageBlocks) \subseteq used
    BY <1>2
  <2>3. used = Blocks(0, n) \cup Blocks(a, m)
    BY <1>2
  <2> HIDE DEF m, a
  <2>4. \A z \in Memory : z \in Nat /\ z < a
    BY <1>3, <2>1, InRange
  <2>5. \A z : Heaped(z) <=> z \in Blocks(0, n)
    BY <1>2, <1>5 DEF Heaped, ChunkBlocks
  <2>6. \A z \in Memory : z \in used <=> Heaped(z)
    <3>1. \A z \in Blocks(a, m) : a <= z
      BY <1>3, <2>1, InBlocks
    <3> QED
      BY <1>3, <2>3, <2>4, <2>5, <3>1
  <2>7. \A z : ~Again(z)
    BY <1>1 DEF Again
  <2> QED
    BY <1>2, <2>2, <2>6, <2>7 DEF Bits
<1>10. Moving
  BY <1>1 DEF Moving
<1> QED
  BY <1>7, <1>8, <1>9, <1>10

(* The inductive invariant of the memory manager.                           *)
MemoryInv == LockInv /\ LevelInv /\ ShapeInv /\ TInv /\ OInv

(* Every step keeps the invariant of the memory manager.                    *)
LEMMA StepO ==
  ASSUME MemoryInv, [Next]_vars
  PROVE  MemoryInv'
<1>0. LockInv /\ LevelInv /\ ShapeInv /\ TInv /\ OInv
  BY DEF MemoryInv
<1>1. LockInv' /\ LevelInv' /\ ShapeInv' /\ TInv'
  BY <1>0, StepTypes
<1>2. ASSUME \A d \in CPUs : Pend(todo'[d]) = Pend(todo[d]),
             UNCHANGED <<mmVars, ret, heap, severed, damaged>>
      PROVE  OInv'
  <2>1. \A d \in CPUs : Lasting(Pend(todo'[d])) = Lasting(Pend(todo[d]))
    BY <1>2
  <2>2. \A d \in CPUs : \A x : RetOwn(Pend(todo'[d]), ret[d], list.max, infoMax, x)
                               => RetOwn(Pend(todo[d]), ret[d], list.max, infoMax, x)
    BY <1>2
  <2> QED
    BY <1>0, <1>2, <2>1, <2>2, SameO
<1>3. ASSUME NEW c \in CPUs, Lock(c) PROVE OInv'
  <2>1. \A d \in CPUs : Pend(todo'[d]) = Pend(todo[d])
    BY <1>0, <1>1, <1>3, LockView
  <2>2. UNCHANGED <<mmVars, ret, heap, severed, damaged>>
    BY <1>3 DEF Lock, historyVars
  <2> QED
    BY <1>2, <2>1, <2>2
<1>4. ASSUME UNCHANGED vars \/ \E c \in CPUs : Overrun(c) PROVE OInv'
  <2>1. UNCHANGED <<todo, mmVars, ret, heap, severed, damaged>>
    BY <1>4 DEF Overrun, vars, historyVars
  <2> QED
    BY <1>2, <2>1
<1>5. ASSUME ~fault, NEW c \in CPUs, Work(c) PROVE OInv'
  BY <1>0, <1>5, WorkO
<1>6. ASSUME NEW c \in CPUs, Call(c) PROVE OInv'
  BY <1>0, <1>6, CallO
<1>7. OInv'
  BY <1>3, <1>4, <1>5, <1>6 DEF Next
<1> QED
  BY <1>1, <1>7 DEF MemoryInv

(* With those, whatever an owner holds (an entry of AllocList, one of the   *)
(* lists themselves, or a CPU between malloc2 and the entry or between the  *)
(* entry and free2) is allocated and has no other owner, no two chunks      *)
(* share a block, and the bits are those of the chunks: an inductive        *)
(* invariant as long as malloc2 found no last part in use and marked all.   *)
THEOREM MemoryInvariance == Spec => []MemoryInv
<1>1. Init => MemoryInv
  BY LockInit, LevelInit, InitT, InitO DEF Init, MemoryInv
<1>2. MemoryInv /\ [Next]_vars => MemoryInv'
  BY StepO
<1> QED
  BY <1>1, <1>2, PTL DEF Spec

(* No block of memory belongs to two chunks that malloc2 gave and free2 did *)
(* not take back, and all of them lie in the memory, through the moves of   *)
(* both lists inside malloc and free.                                       *)
THEOREM AllocationsAreDisjoint == Spec => []ChunksAreDisjoint
<1>1. ASSUME MemoryInv PROVE ChunksAreDisjoint
  <2> SUFFICES ASSUME ~damaged, NEW x \in heap
               PROVE  /\ ChunkBlocks(x) \subseteq Memory
                      /\ \A y \in heap : ChunkBlocks(x) \cap ChunkBlocks(y) # {} => x = y
    BY DEF ChunksAreDisjoint
  <2>1. HeapT /\ PagesT /\ Apart
    BY <1>1 DEF MemoryInv, TInv, OInv
  <2>2. pages * PageBlocks \in Nat
    BY <2>1, PagesPositive
  <2>3. \A z \in ChunkBlocks(x) : z \in Nat /\ z < pages * PageBlocks
    BY <2>1, HeapedIn DEF Heaped
  <2>4. ChunkBlocks(x) \subseteq Memory
    BY <2>2, <2>3, InRange DEF Memory
  <2> QED
    BY <2>1, <2>4 DEF Apart
<1>2. MemoryInv => ChunksAreDisjoint
  BY <1>1
<1> QED
  BY <1>2, MemoryInvariance, PTL

(* Whenever nobody is inside AllocCS, the bits of AllocationInfoList are    *)
(* set for the blocks of what is allocated, and those no free2 could reach, *)
(* and for no others: no bit is left behind by what was freed, and none is  *)
(* missing of what is in use.                                               *)
THEOREM BitsMatchAllocations == Spec => []BitsAreExact
<1>1. ASSUME MemoryInv PROVE BitsAreExact
  <2> SUFFICES ASSUME ~damaged, ~locked
               PROVE  used \cap Memory = (UNION {ChunkBlocks(x) : x \in heap}) \cup severed
    BY DEF BitsAreExact
  <2>1. LockInv /\ ShapeInv /\ HeapT /\ PagesT /\ Apart /\ Bits
    BY <1>1 DEF MemoryInv, TInv, OInv
  <2>2. \A c \in CPUs : ~Rarely(c)
    <3> SUFFICES ASSUME NEW c \in CPUs, Rarely(c) PROVE FALSE
      OBVIOUS
    <3>1. Level(c) > 0
      BY <2>1 DEF ShapeInv
    <3>2. Holds(c)
      <4>1. depth[c] \in Nat /\ at[c] \in {"out", "spin", "count", "own", "disown", "unlock", "hung"}
        BY <2>1 DEF LockInv, CSTypeOK
      <4> QED
        BY <3>1, <4>1 DEF Level, Holds
    <3> QED
      BY <2>1, <3>2 DEF LockInv, HolderInv
  <2>3. \A z : ~Again(z)
    BY <2>2 DEF Again, Rarely, Rare
  <2>4. severed \subseteq Memory /\ \A z \in Memory : z \in used <=> Heaped(z) \/ z \in severed
    BY <2>1, <2>3 DEF Bits
  <2>5. \A z : Heaped(z) => z \in Memory
    <3>1. pages * PageBlocks \in Nat
      BY <2>1, PagesPositive
    <3> QED
      BY <2>1, <3>1, HeapedIn, InRange DEF Memory
  <2>6. \A z : z \in UNION {ChunkBlocks(x) : x \in heap} <=> Heaped(z)
    BY DEF Heaped
  <2> QED
    BY <2>4, <2>5, <2>6
<1>2. MemoryInv => BitsAreExact
  BY <1>1
<1> QED
  BY <1>2, MemoryInvariance, PTL

-----------------------------------------------------------------------------
(* What the callers of the memory manager are still to be told              *)

(* Which step of a call may come after which.                               *)
MayFollow(p, q) ==
  /\ p \notin {"return", "addpage", "moveinfo", "setinfo"}
  /\ p \in {"resize", "unlink", "clear"} => q = "return"
  /\ p = "copymem" => q \in {"unlink", "return"}
  /\ p \in {"record", "result"} => q \in {"copymem", "unlink", "return"}
  /\ p \in {"insert", "firstlist"} => q \in {"result", "copymem", "unlink", "return"}

(* The steps of a sequence, those on the lock aside, come in such an order. *)
InOrder(s) ==
  \A i, j \in DOMAIN s :
    i < j /\ s[i].op \notin LockOps /\ s[j].op \notin LockOps => MayFollow(s[i].op, s[j].op)

(* What every CPU has still to do is in order.                              *)
OrderInv == \A c \in CPUs : InOrder(todo[c])

(* Without its first step a call is still in order, and what remains may    *)
(* follow that step.                                                        *)
LEMMA OrderTail ==
  ASSUME NEW s, IsSeq(s), s # <<>>, InOrder(s)
  PROVE  /\ InOrder(Tail(s))
         /\ Head(s).op \notin LockOps => \A k \in Pend(Tail(s)) : MayFollow(Head(s).op, k.op)
<1> DEFINE t == Tail(s)
           n == Len(s)
<1>1. n \in Nat /\ n > 0 /\ DOMAIN s = 1 .. n /\ DOMAIN t = 1 .. n - 1 /\ Head(s) = s[1]
      /\ \A i \in 1 .. n - 1 : t[i] = s[i + 1]
  BY SeqParts
<1> HIDE DEF t, n
<1>2. InOrder(t)
  <2> SUFFICES ASSUME NEW i \in DOMAIN t, NEW j \in DOMAIN t, i < j,
                      t[i].op \notin LockOps, t[j].op \notin LockOps
               PROVE  MayFollow(t[i].op, t[j].op)
    BY DEF InOrder
  <2>1. i + 1 \in DOMAIN s /\ j + 1 \in DOMAIN s /\ i + 1 < j + 1 /\ t[i] = s[i + 1] /\ t[j] = s[j + 1]
    BY <1>1
  <2> QED
    BY <2>1 DEF InOrder
<1>3. ASSUME Head(s).op \notin LockOps, NEW k \in Pend(t) PROVE MayFollow(Head(s).op, k.op)
  <2>1. PICK i \in DOMAIN t : t[i] = k /\ k.op \notin LockOps
    BY <1>3, InPend
  <2>2. 1 \in DOMAIN s /\ i + 1 \in DOMAIN s /\ 1 < i + 1 /\ s[i + 1] = k /\ Head(s) = s[1]
    BY <1>1, <2>1
  <2> QED
    BY <1>3, <2>1, <2>2 DEF InOrder
<1> QED
  BY <1>2, <1>3 DEF t

(* Two sequences in order, the one in front of the other.                   *)
LEMMA OrderJoin ==
  ASSUME NEW m, NEW r, IsSeq(m), IsSeq(r), InOrder(m), InOrder(r),
         \A j \in Pend(m), k \in Pend(r) : MayFollow(j.op, k.op)
  PROVE  InOrder(m \o r)
<1> DEFINE t == m \o r
<1>1. /\ IsSeq(t) /\ Len(m) \in Nat /\ Len(r) \in Nat /\ Len(t) = Len(m) + Len(r)
      /\ DOMAIN m = 1 .. Len(m) /\ DOMAIN r = 1 .. Len(r) /\ DOMAIN t = 1 .. Len(m) + Len(r)
      /\ \A i \in 1 .. Len(m) : t[i] = m[i]
      /\ \A i \in 1 .. Len(m) + Len(r) : i > Len(m) => t[i] = r[i - Len(m)]
  BY ConcatParts
<1> HIDE DEF t
<1> SUFFICES ASSUME NEW i \in DOMAIN t, NEW j \in DOMAIN t, i < j,
                    t[i].op \notin LockOps, t[j].op \notin LockOps
             PROVE  MayFollow(t[i].op, t[j].op)
  BY DEF InOrder, t
<1>2. CASE j <= Len(m)
  <2>1. i \in DOMAIN m /\ j \in DOMAIN m /\ t[i] = m[i] /\ t[j] = m[j]
    BY <1>1, <1>2
  <2> QED
    BY <2>1 DEF InOrder
<1>3. CASE i > Len(m)
  <2>1. /\ i - Len(m) \in DOMAIN r /\ j - Len(m) \in DOMAIN r /\ i - Len(m) < j - Len(m)
        /\ t[i] = r[i - Len(m)] /\ t[j] = r[j - Len(m)]
    BY <1>1, <1>3
  <2> QED
    BY <2>1 DEF InOrder
<1>4. CASE i <= Len(m) /\ j > Len(m)
  <2>1. i \in DOMAIN m /\ j - Len(m) \in DOMAIN r /\ t[i] = m[i] /\ t[j] = r[j - Len(m)]
    BY <1>1, <1>4
  <2>2. t[i] \in Pend(m) /\ t[j] \in Pend(r)
    BY <2>1, InPend
  <2> QED
    BY <2>2
<1> QED
  BY <1>1, <1>2, <1>3, <1>4

(* The sequences a call is put together from.                               *)
LEMMA OrderParts ==
  /\ InOrder(<<>>) /\ IsSeq(<<>>) /\ Pend(<<>>) = {}
  /\ \A k : k.op \notin LockOps =>
       /\ InOrder(<<k>>) /\ IsSeq(<<k>>) /\ Pend(<<k>>) = {k}
       /\ InOrder(Section(k)) /\ IsSeq(Section(k)) /\ Pend(Section(k)) = {k}
<1>1. InOrder(<<>>) /\ IsSeq(<<>>) /\ Pend(<<>>) = {}
  <2>1. DOMAIN <<>> = {}
    OBVIOUS
  <2> QED
    BY <2>1, EmptyForm DEF InOrder
<1>2. ASSUME NEW k, k.op \notin LockOps
      PROVE  /\ InOrder(<<k>>) /\ IsSeq(<<k>>) /\ Pend(<<k>>) = {k}
             /\ InOrder(Section(k)) /\ IsSeq(Section(k)) /\ Pend(Section(k)) = {k}
  <2> DEFINE o == <<k>>
             s == Section(k)
  <2>1. DOMAIN o = {1}
    OBVIOUS
  <2>2. IsSeq(o) /\ Pend(o) = {k} /\ IsSeq(s) /\ Pend(s) = {k}
    BY <1>2, FormOne, FormSection
  <2>3. Len(s) = 3 /\ s[1].op = "enter" /\ s[3].op = "leave"
    BY DEF Section, Enter, Exit, Step
  <2> HIDE DEF o, s
  <2>4. DOMAIN s = 1 .. 3
    BY <2>2, <2>3, SeqParts
  <2>5. InOrder(o)
    BY <2>1 DEF InOrder
  <2>6. \A i \in DOMAIN s : s[i].op \notin LockOps => i = 2
    BY <2>3, <2>4 DEF LockOps
  <2>7. InOrder(s)
    BY <2>6 DEF InOrder
  <2> QED
    BY <2>2, <2>5, <2>7 DEF o, s
<1> QED
  BY <1>1, <1>2

(* A step that is not on the lock keeps the order, when what it adds is in  *)
(* order and nothing may follow it that may not follow that.                *)
LEMMA OrderDone ==
  ASSUME LevelInv, OrderInv, NEW c \in CPUs, NEW op, NEW more, Doing(c, op), Done(c, more),
         op \notin LockOps, IsSeq(more), InOrder(more),
         \A k \in Pend(more) : \A q : MayFollow(op, q) => MayFollow(k.op, q)
  PROVE  OrderInv' /\ \A k \in Rest(c) : MayFollow(op, k.op)
<1> DEFINE s == todo[c]
<1>1. s # <<>> /\ IsSeq(s) /\ InOrder(s) /\ DOMAIN todo = CPUs /\ Head(s).op = op
  BY DEF LevelInv, OrderInv, Doing
<1>2. todo'[c] = more \o Tail(s) /\ \A d \in CPUs \ {c} : todo'[d] = todo[d]
  BY <1>1 DEF Done
<1>3. InOrder(Tail(s)) /\ IsSeq(Tail(s)) /\ \A k \in Pend(Tail(s)) : MayFollow(op, k.op)
  BY <1>1, OrderTail, SeqParts
<1> HIDE DEF s
<1>4. \A j \in Pend(more), k \in Pend(Tail(s)) : MayFollow(j.op, k.op)
  BY <1>3
<1>5. InOrder(todo'[c])
  BY <1>2, <1>3, <1>4, OrderJoin
<1>6. \A d \in CPUs : InOrder(todo'[d])
  BY <1>2, <1>5 DEF OrderInv
<1> QED
  BY <1>3, <1>6 DEF OrderInv, Rest, s

(* A step in a section and the one after it.                                *)
LEMMA OrderPair ==
  ASSUME NEW k, NEW u, k.op \notin LockOps, u.op \notin LockOps, MayFollow(k.op, u.op)
  PROVE  LET s == Section(k) \o <<u>> IN IsSeq(s) /\ InOrder(s) /\ Pend(s) = {k, u}
<1> DEFINE m == Section(k)
           r == <<u>>
<1>1. IsSeq(m) /\ InOrder(m) /\ Pend(m) = {k} /\ IsSeq(r) /\ InOrder(r) /\ Pend(r) = {u}
  BY OrderParts
<1> HIDE DEF m, r
<1>2. InOrder(m \o r)
  BY <1>1, OrderJoin
<1> QED
  BY <1>2, FormPair DEF m, r

(* Every step that works keeps the order.                                   *)
LEMMA WorkOrder ==
  ASSUME LevelInv, OrderInv, NEW c \in CPUs, Work(c)
  PROVE  OrderInv' /\ \A k \in Rest(c) : MayFollow(Head(todo[c]).op, k.op)
<1> DEFINE h == Head(todo[c])
           Good == OrderInv' /\ \A k \in Rest(c) : MayFollow(h.op, k.op)
<1>1. ASSUME NEW op, NEW more, Doing(c, op), Done(c, more), op \notin LockOps, IsSeq(more),
             InOrder(more), \A k \in Pend(more) : \A q : MayFollow(op, q) => MayFollow(k.op, q)
      PROVE  Good
  <2>1. h.op = op
    BY <1>1 DEF Doing
  <2> QED
    BY <1>1, <2>1, OrderDone
<1> HIDE DEF Good
<1> SUFFICES Good
  BY DEF Good
<1>2. ASSUME NEW op, Doing(c, op), Done(c, <<>>), op \notin LockOps PROVE Good
  BY <1>1, <1>2, OrderParts
<1>3. ASSUME NEW op, NEW k, NEW u, Doing(c, op), Done(c, Section(k) \o <<u>>), op \notin LockOps,
             k.op \notin LockOps, u.op \notin LockOps, MayFollow(k.op, u.op),
             \A q : MayFollow(op, q) => MayFollow(k.op, q) /\ MayFollow(u.op, q)
      PROVE  Good
  <2> DEFINE s == Section(k) \o <<u>>
  <2>1. IsSeq(s) /\ InOrder(s) /\ Pend(s) = {k, u}
    BY <1>3, OrderPair
  <2> HIDE DEF s
  <2>2. Done(c, s)
    BY <1>3 DEF s
  <2> QED
    BY <1>1, <1>3, <2>1, <2>2
<1>4. CASE DoMalloc2(c) \/ DoFree2(c) \/ FirstList(c) \/ SetList(c) \/ Result(c) \/ Return(c)
           \/ Clear(c) \/ Copymem(c) \/ AddTable(c)
  BY <1>2, <1>4 DEF DoMalloc2, DoFree2, FirstList, SetList, Result, Return, Clear, Copymem,
     AddTable, LockOps
<1>5. CASE Record(c)
  <2> DEFINE k == Step("insert", ret[c], h.size)
             u == Step("result", ret[c], h.size)
  <2>1. Doing(c, "record") /\ Done(c, IF ret[c] = NULL THEN <<>> ELSE Section(k) \o <<u>>)
    BY <1>5 DEF Record
  <2>2. k.op = "insert" /\ u.op = "result" /\ "record" \notin LockOps
    BY StepFields DEF LockOps
  <2> HIDE DEF k, u
  <2>3. k.op \notin LockOps /\ u.op \notin LockOps /\ MayFollow(k.op, u.op)
        /\ \A q : MayFollow("record", q) => MayFollow(k.op, q) /\ MayFollow(u.op, q)
    BY <2>2 DEF MayFollow, LockOps
  <2> QED
    BY <1>2, <1>3, <2>1, <2>2, <2>3
<1>6. CASE InsertFirst(c)
  <2> DEFINE k == Step("malloc2", NULL, ItemBlocks(InitItems))
             u == Step("firstlist", h.base, h.size)
  <2>1. Doing(c, "insert") /\ Done(c, Section(k) \o <<u>>)
    BY <1>6 DEF InsertFirst, malloc2
  <2>2. k.op = "malloc2" /\ u.op = "firstlist" /\ "insert" \notin LockOps
    BY StepFields DEF LockOps
  <2> HIDE DEF k, u
  <2>3. k.op \notin LockOps /\ u.op \notin LockOps /\ MayFollow(k.op, u.op)
        /\ \A q : MayFollow("insert", q) => MayFollow(k.op, q) /\ MayFollow(u.op, q)
    BY <2>2 DEF MayFollow, LockOps
  <2> QED
    BY <1>3, <2>1, <2>2, <2>3
<1>7. CASE Insert(c)
  <2> DEFINE k == Step("malloc2", NULL, ItemBlocks(2 * list.max))
             u == Step("movelist", NULL, 0)
  <2>1. Doing(c, "insert") /\ (Done(c, <<>>) \/ Done(c, Section(k) \o <<u>>))
    BY <1>7 DEF Insert, malloc2
  <2>2. k.op = "malloc2" /\ u.op = "movelist" /\ "insert" \notin LockOps
    BY StepFields DEF LockOps
  <2> HIDE DEF k, u
  <2>3. k.op \notin LockOps /\ u.op \notin LockOps /\ MayFollow(k.op, u.op)
        /\ \A q : MayFollow("insert", q) => MayFollow(k.op, q) /\ MayFollow(u.op, q)
    BY <2>2 DEF MayFollow, LockOps
  <2> QED
    BY <1>2, <1>3, <2>1, <2>2, <2>3
<1>8. CASE MoveList(c)
  <2> DEFINE k == Step("free2", list.base, ItemBlocks(list.max))
             u == Step("setlist", ret[c], 0)
  <2>1. Doing(c, "movelist")
        /\ Done(c, (IF ret[c] = NULL THEN <<>> ELSE Section(k)) \o <<u>>)
    BY <1>8 DEF MoveList, free2
  <2>2. k.op = "free2" /\ u.op = "setlist" /\ "movelist" \notin LockOps
    BY StepFields DEF LockOps
  <2> HIDE DEF k, u
  <2>3. k.op \notin LockOps /\ u.op \notin LockOps /\ MayFollow(k.op, u.op)
        /\ \A q : MayFollow("movelist", q) => MayFollow(k.op, q) /\ MayFollow(u.op, q)
    BY <2>2 DEF MayFollow, LockOps
  <2>4. CASE ret[c] = NULL
    <3>1. IsSeq(<<u>>) /\ InOrder(<<u>>) /\ Pend(<<u>>) = {u}
      BY <2>3, OrderParts
    <3>2. <<>> \o <<u>> = <<u>>
      BY <3>1, EmptyConcat
    <3>3. Done(c, <<u>>)
      BY <2>1, <2>4, <3>2
    <3> QED
      BY <1>1, <2>1, <2>2, <2>3, <3>1, <3>3
  <2>5. CASE ret[c] # NULL
    BY <1>3, <2>1, <2>2, <2>3, <2>5
  <2> QED
    BY <2>4, <2>5
<1>9. CASE Unlink(c)
  <2> DEFINE k == Step("free2", h.base, list.items[Closest(h.base)].size)
             u == Step("clear", h.base, 0)
  <2>1. Doing(c, "unlink") /\ (Done(c, <<>>) \/ Done(c, Section(k) \o <<u>>))
    BY <1>9 DEF Unlink, free2
  <2>2. k.op = "free2" /\ u.op = "clear" /\ "unlink" \notin LockOps
    BY StepFields DEF LockOps
  <2> HIDE DEF k, u
  <2>3. k.op \notin LockOps /\ u.op \notin LockOps /\ MayFollow(k.op, u.op)
        /\ \A q : MayFollow("unlink", q) => MayFollow(k.op, q) /\ MayFollow(u.op, q)
    BY <2>2 DEF MayFollow, LockOps
  <2> QED
    BY <1>2, <1>3, <2>1, <2>2, <2>3
<1>10. CASE Resize(c)
  <2> DEFINE k == Step("malloc2", NULL, h.size)
             u == Step("record", NULL, h.size)
             v == Step("copymem", NULL, 0)
             w == Step("unlink", h.base, 0)
             e == Step("error", NULL, 0)
             s == Section(k) \o <<u>>
             t == <<v>>
             full == (s \o t) \o Section(w)
  <2>1. Doing(c, "resize") /\ (Done(c, full) \/ Done(c, <<e>>))
    BY <1>10 DEF Resize, malloc, malloc2, free
  <2>2. /\ k.op = "malloc2" /\ u.op = "record" /\ v.op = "copymem" /\ w.op = "unlink"
        /\ e.op = "error" /\ "resize" \notin LockOps
    BY StepFields DEF LockOps
  <2> HIDE DEF k, u, v, w, e
  <2>3. /\ k.op \notin LockOps /\ u.op \notin LockOps /\ v.op \notin LockOps /\ w.op \notin LockOps
        /\ e.op \notin LockOps /\ MayFollow(k.op, u.op) /\ MayFollow(k.op, v.op)
        /\ MayFollow(u.op, v.op) /\ MayFollow(k.op, w.op) /\ MayFollow(u.op, w.op)
        /\ MayFollow(v.op, w.op)
        /\ \A q : MayFollow("resize", q) => /\ MayFollow(k.op, q) /\ MayFollow(u.op, q)
                                            /\ MayFollow(v.op, q) /\ MayFollow(w.op, q)
                                            /\ MayFollow(e.op, q)
    BY <2>2 DEF MayFollow, LockOps
  <2>4. IsSeq(s) /\ InOrder(s) /\ Pend(s) = {k, u}
    BY <2>3, OrderPair
  <2>5. IsSeq(t) /\ InOrder(t) /\ Pend(t) = {v}
    BY <2>3, OrderParts
  <2>6. /\ IsSeq(Section(w)) /\ InOrder(Section(w)) /\ Pend(Section(w)) = {w}
        /\ IsSeq(<<e>>) /\ InOrder(<<e>>) /\ Pend(<<e>>) = {e}
    BY <2>3, OrderParts
  <2> HIDE DEF s, t
  <2>7. IsSeq(s \o t) /\ InOrder(s \o t) /\ Pend(s \o t) = {k, u, v}
    <3>1. \A x \in Pend(s), y \in Pend(t) : MayFollow(x.op, y.op)
      BY <2>3, <2>4, <2>5
    <3>2. IsSeq(s \o t) /\ Pend(s \o t) = Pend(s) \cup Pend(t)
      BY <2>4, <2>5, FormConcat
    <3>3. InOrder(s \o t)
      BY <2>4, <2>5, <3>1, OrderJoin
    <3> QED
      BY <2>4, <2>5, <3>2, <3>3
  <2>8. IsSeq(full) /\ InOrder(full) /\ Pend(full) = {k, u, v, w}
    <3> DEFINE r == s \o t
    <3>1. IsSeq(r) /\ InOrder(r) /\ Pend(r) = {k, u, v} /\ full = r \o Section(w)
      BY <2>7
    <3> HIDE DEF r, full
    <3>2. \A x \in Pend(r), y \in Pend(Section(w)) : MayFollow(x.op, y.op)
      BY <2>3, <2>6, <3>1
    <3>3. IsSeq(full) /\ Pend(full) = Pend(r) \cup Pend(Section(w))
      BY <2>6, <3>1, FormConcat
    <3>4. InOrder(full)
      BY <2>6, <3>1, <3>2, OrderJoin
    <3> QED
      BY <2>6, <3>1, <3>3, <3>4
  <2> HIDE DEF full
  <2>9. CASE Done(c, full)
    BY <1>1, <2>1, <2>2, <2>3, <2>8, <2>9
  <2>10. CASE Done(c, <<e>>)
    BY <1>1, <2>1, <2>2, <2>3, <2>6, <2>10
  <2> QED
    BY <2>1, <2>9, <2>10
<1>11. CASE AddPage(c)
  <2> DEFINE k == Step("malloc2", NULL, InfoBlocks(2 * infoMax))
             u == Step("moveinfo", NULL, 0)
  <2>1. Doing(c, "addpage") /\ (Done(c, <<>>) \/ Done(c, Section(k) \o <<u>>))
    BY <1>11 DEF AddPage, malloc2
  <2>2. k.op = "malloc2" /\ u.op = "moveinfo" /\ "addpage" \notin LockOps
    BY StepFields DEF LockOps
  <2> HIDE DEF k, u
  <2>3. k.op \notin LockOps /\ u.op \notin LockOps /\ MayFollow(k.op, u.op)
        /\ \A q : MayFollow("addpage", q) => MayFollow(k.op, q) /\ MayFollow(u.op, q)
    BY <2>2 DEF MayFollow, LockOps
  <2> QED
    BY <1>2, <1>3, <2>1, <2>2, <2>3
<1>12. CASE MoveInfo(c)
  <2> DEFINE k == Step("free2", infoBase, InfoBlocks(infoMax))
             u == Step("setinfo", ret[c], 0)
  <2>1. Doing(c, "moveinfo") /\ Done(c, Section(k) \o <<u>>)
    BY <1>12 DEF MoveInfo, free2
  <2>2. k.op = "free2" /\ u.op = "setinfo" /\ "moveinfo" \notin LockOps
    BY StepFields DEF LockOps
  <2> HIDE DEF k, u
  <2>3. k.op \notin LockOps /\ u.op \notin LockOps /\ MayFollow(k.op, u.op)
        /\ \A q : MayFollow("moveinfo", q) => MayFollow(k.op, q) /\ MayFollow(u.op, q)
    BY <2>2 DEF MayFollow, LockOps
  <2> QED
    BY <1>3, <2>1, <2>2, <2>3
<1>13. CASE SetInfo(c)
  <2> DEFINE k == Step("free2", infoBase, InfoBlocks(infoMax))
  <2>1. Doing(c, "setinfo") /\ Done(c, Section(k))
    BY <1>13 DEF SetInfo, free2
  <2>2. k.op = "free2" /\ "setinfo" \notin LockOps /\ k.op \notin LockOps
    BY StepFields DEF LockOps
  <2> HIDE DEF k
  <2>3. \A q : MayFollow("setinfo", q) => MayFollow(k.op, q)
    BY <2>2 DEF MayFollow
  <2>4. IsSeq(Section(k)) /\ InOrder(Section(k)) /\ Pend(Section(k)) = {k}
    BY <2>2, OrderParts
  <2> QED
    BY <1>1, <2>1, <2>2, <2>3, <2>4
<1> QED
  BY <1>4, <1>5, <1>6, <1>7, <1>8, <1>9, <1>10, <1>11, <1>12, <1>13 DEF Work

(* So do the steps on the lock.                                             *)
LEMMA LockOrder ==
  ASSUME LevelInv, OrderInv, NEW c \in CPUs, Lock(c)
  PROVE  OrderInv'
<1> DEFINE s == todo[c]
<1>1. s # <<>> /\ IsSeq(s) /\ InOrder(s) /\ DOMAIN todo = CPUs
  BY DEF LevelInv, OrderInv, Lock
<1>2. UNCHANGED todo \/ Done(c, <<>>)
  BY DEF Lock
<1>3. CASE Done(c, <<>>)
  <2>1. todo'[c] = <<>> \o Tail(s) /\ \A d \in CPUs \ {c} : todo'[d] = todo[d]
    BY <1>1, <1>3 DEF Done
  <2> HIDE DEF s
  <2>2. InOrder(Tail(s)) /\ <<>> \o Tail(s) = Tail(s)
    BY <1>1, OrderTail, SeqParts, EmptyConcat
  <2> QED
    BY <2>1, <2>2 DEF OrderInv
<1> QED
  BY <1>2, <1>3 DEF OrderInv

(* So do the calls.                                                         *)
LEMMA CallOrder ==
  ASSUME LevelInv, OrderInv, NEW c \in CPUs, Call(c)
  PROVE  OrderInv'
<1>1. ASSUME NEW steps, Calls(c, steps), InOrder(steps) PROVE OrderInv'
  <2>1. DOMAIN todo = CPUs /\ todo' = [todo EXCEPT ![c] = steps]
    BY <1>1 DEF LevelInv, Calls
  <2> QED
    BY <1>1, <2>1 DEF OrderInv
<1>2. ASSUME NEW n, CallMalloc(c, n) PROVE OrderInv'
  <2> DEFINE k == Step("malloc2", NULL, n)
             u == Step("record", NULL, n)
             v == Step("return", NULL, n)
             s == Section(k) \o <<u>>
  <2>1. Calls(c, s \o <<v>>)
    BY <1>2 DEF CallMalloc, malloc, malloc2
  <2>2. k.op = "malloc2" /\ u.op = "record" /\ v.op = "return"
    BY StepFields
  <2> HIDE DEF k, u, v
  <2>3. /\ k.op \notin LockOps /\ u.op \notin LockOps /\ v.op \notin LockOps
        /\ MayFollow(k.op, u.op) /\ MayFollow(k.op, v.op) /\ MayFollow(u.op, v.op)
    BY <2>2 DEF MayFollow, LockOps
  <2>4. IsSeq(s) /\ InOrder(s) /\ Pend(s) = {k, u}
    BY <2>3, OrderPair
  <2>5. IsSeq(<<v>>) /\ InOrder(<<v>>) /\ Pend(<<v>>) = {v}
    BY <2>3, OrderParts
  <2> HIDE DEF s
  <2>6. InOrder(s \o <<v>>)
    BY <2>3, <2>4, <2>5, OrderJoin
  <2> QED
    BY <1>1, <2>1, <2>6
<1>3. ASSUME NEW x, CallFree(c, x) PROVE OrderInv'
  <2> DEFINE k == Step("unlink", x.base, 0)
  <2>1. Calls(c, Section(k)) /\ k.op \notin LockOps
    BY <1>3 DEF CallFree, free, Step, LockOps
  <2> QED
    BY <1>1, <2>1, OrderParts
<1>4. ASSUME NEW x, NEW n, CallRealloc(c, x, n) PROVE OrderInv'
  <2> DEFINE k == Step("resize", x.base, n)
             u == Step("return", NULL, n)
  <2>1. Calls(c, Section(k) \o <<u>>)
    BY <1>4 DEF CallRealloc
  <2>2. k.op = "resize" /\ u.op = "return"
    BY StepFields
  <2> HIDE DEF k, u
  <2>3. k.op \notin LockOps /\ u.op \notin LockOps /\ MayFollow(k.op, u.op)
    BY <2>2 DEF MayFollow, LockOps
  <2> QED
    BY <1>1, <2>1, <2>3, OrderPair
<1>5. ASSUME CallAddPage(c) PROVE OrderInv'
  <2> DEFINE k == Step("addpage", NULL, 0)
  <2>1. Calls(c, Section(k)) /\ k.op \notin LockOps
    BY <1>5 DEF CallAddPage, Step, LockOps
  <2> QED
    BY <1>1, <2>1, OrderParts
<1> QED
  BY <1>2, <1>3, <1>4, <1>5 DEF Call

(* The steps of a call speak of one size, and those between the answer of   *)
(* malloc2 and malloc's own answer of one address; malloc's answer is still *)
(* to come when its entry is made or the list for it moves.                 *)
Sized == {"record", "insert", "firstlist", "result", "return", "resize"}
Makers == {"insert", "firstlist"}
Storing == Makers \cup {"movelist", "setlist"}
Agreed(Q) ==
  /\ \A j, k \in Q : j.op \in Sized /\ k.op \in Sized => j.size = k.size
  /\ \A j, k \in Q : j.op \in Makers /\ k.op = "result" => j.base = k.base
  /\ \A j \in Q : j.op \in Storing => \E k \in Q : k.op = "result"
AgreeInv == \A c \in CPUs : Agreed(Pend(todo[c]))

(* What a step must add to keep this.                                       *)
LEMMA AgreeView ==
  ASSUME AgreeInv, NEW c \in CPUs, NEW op, NEW M, View(c, op, M),
         \A k \in Rest(c) : MayFollow(op, k.op),
         \A k \in M : k.op \in Sized => op \in Sized /\ k.size = Head(todo[c]).size,
         \A j \in M, k \in M : j.op \in Makers /\ k.op = "result" => j.base = k.base,
         \A j \in M : j.op \in Makers =>
           (op = "record" \/ (op \in Makers /\ j.base = Head(todo[c]).base)),
         \A k \in M : k.op = "result" => op = "record",
         \A j \in M : j.op \in Storing => op \in Storing \/ \E k \in M : k.op = "result"
  PROVE  AgreeInv'
<1> DEFINE h == Head(todo[c])
           R == Rest(c)
<1>1. /\ h.op = op /\ Pend(todo[c]) = {h} \cup R /\ Pend(todo'[c]) = M \cup R
      /\ \A d \in CPUs \ {c} : todo'[d] = todo[d]
      /\ op = "record" => \A k \in R : k.op \in Calm
  BY DEF View
<1>2. /\ \A j, k \in {h} \cup R : j.op \in Sized /\ k.op \in Sized => j.size = k.size
      /\ \A j, k \in {h} \cup R : j.op \in Makers /\ k.op = "result" => j.base = k.base
      /\ \A j \in {h} \cup R : j.op \in Storing => \E k \in {h} \cup R : k.op = "result"
  BY <1>1 DEF AgreeInv, Agreed
<1>3. /\ op = "record" => \A k \in R : k.op # "result" /\ k.op \notin Makers
      /\ op = "result" => \A k \in R : k.op \notin Storing
      /\ "record" \notin Storing /\ "result" \notin Storing /\ "result" \notin Makers
  BY <1>1 DEF MayFollow, Storing, Makers, Calm
<1> HIDE DEF h, R
<1>4. ASSUME NEW j \in M \cup R, NEW k \in M \cup R, j.op \in Sized, k.op \in Sized
      PROVE  j.size = k.size
  <2>1. \A i \in M \cup R : i.op \in Sized => (op \in Sized /\ i.size = h.size) \/ i \in R
    BY DEF h
  <2>2. \A i \in R : op \in Sized /\ i.op \in Sized => i.size = h.size
    BY <1>1, <1>2
  <2> QED
    BY <1>2, <1>4, <2>1, <2>2
<1>5. ASSUME NEW j \in M \cup R, NEW k \in M \cup R, j.op \in Makers, k.op = "result"
      PROVE  j.base = k.base
  <2>1. CASE j \in R /\ k \in R
    BY <1>2, <1>5, <2>1
  <2>2. CASE j \in M /\ k \in M
    BY <1>5, <2>2
  <2>3. CASE j \in M /\ k \in R
    <3>1. op # "record"
      BY <1>3, <1>5, <2>3
    <3>2. op \in Makers /\ j.base = h.base
      BY <1>5, <2>3, <3>1 DEF h
    <3> QED
      BY <1>1, <1>2, <1>5, <2>3, <3>2
  <2>4. CASE j \in R /\ k \in M
    <3>1. op = "record"
      BY <1>5, <2>4
    <3> QED
      BY <1>3, <1>5, <2>4, <3>1
  <2> QED
    BY <2>1, <2>2, <2>3, <2>4
<1>6. ASSUME NEW j \in M \cup R, j.op \in Storing PROVE \E k \in M \cup R : k.op = "result"
  <2>1. CASE j \in R
    <3>1. op # "result"
      BY <1>3, <1>6, <2>1
    <3>2. PICK k \in {h} \cup R : k.op = "result"
      BY <1>2, <1>6, <2>1
    <3> QED
      BY <1>1, <3>1, <3>2
  <2>2. CASE j \in M /\ op \in Storing
    <3>1. PICK k \in {h} \cup R : k.op = "result"
      BY <1>1, <1>2, <2>2
    <3> QED
      BY <1>1, <1>3, <2>2, <3>1
  <2>3. CASE j \in M /\ \E k \in M : k.op = "result"
    BY <2>3
  <2> QED
    BY <1>6, <2>1, <2>2, <2>3
<1>7. Agreed(Pend(todo'[c]))
  BY <1>1, <1>4, <1>5, <1>6 DEF Agreed
<1> QED
  BY <1>1, <1>7 DEF AgreeInv

(* Every step that works keeps it.                                          *)
LEMMA WorkAgree ==
  ASSUME LockInv, LevelInv, ShapeInv, OrderInv, AgreeInv, NEW c \in CPUs, Work(c)
  PROVE  AgreeInv'
<1> DEFINE h == Head(todo[c])
<1>1. \A op, M : View(c, op, M) => h.op = op /\ \A k \in Rest(c) : MayFollow(op, k.op)
  BY WorkOrder DEF View
<1>2. ASSUME NEW op, NEW M, View(c, op, M),
             \A k \in M : k.op \notin Sized \cup Storing
      PROVE  AgreeInv'
  BY <1>1, <1>2, AgreeView DEF Sized, Storing, Makers
<1>3. ASSUME NEW op, View(c, op, {}) PROVE AgreeInv'
  BY <1>2, <1>3
<1>4. ASSUME NEW op, NEW j, NEW k, NEW M, View(c, op, M), \A i \in M : i = j \/ i = k,
             j.op \notin Sized \cup Storing, k.op \notin Sized \cup Storing
      PROVE  AgreeInv'
  BY <1>2, <1>4
<1>5. CASE DoMalloc2(c) \/ DoFree2(c) \/ FirstList(c) \/ SetList(c) \/ Result(c) \/ Return(c)
           \/ Clear(c) \/ Copymem(c) \/ AddTable(c)
  <2>1. PICK op : View(c, op, {})
    BY <1>5, WorkViews
  <2> QED
    BY <1>3, <2>1
<1>6. CASE Record(c)
  <2> DEFINE j == Step("insert", ret[c], h.size)
             k == Step("result", ret[c], h.size)
             M == IF ret[c] = NULL THEN {} ELSE {j, k}
  <2>1. View(c, "record", M)
    BY <1>6, WorkViews
  <2>2. j.op = "insert" /\ k.op = "result" /\ j.size = h.size /\ k.size = h.size /\ j.base = k.base
    BY StepFields
  <2>3. (\A i \in M : i = j \/ i = k) /\ (j \in M => k \in M)
    OBVIOUS
  <2> HIDE DEF j, k, M
  <2>4. \A i \in M : i.size = h.size /\ i.base = k.base /\ i.op \in {"insert", "result"}
    BY <2>2, <2>3
  <2>5. \A i \in M : i.op = "insert" => \E l \in M : l.op = "result"
    BY <2>2, <2>3
  <2>6. \A i \in M : i.op \in Storing => \E l \in M : l.op = "result"
    BY <2>4, <2>5 DEF Storing, Makers
  <2>7. "record" \in Sized
    BY DEF Sized
  <2> QED
    BY <1>1, <2>1, <2>4, <2>6, <2>7, AgreeView
<1>7. CASE InsertFirst(c)
  <2> DEFINE j == Step("malloc2", NULL, ItemBlocks(InitItems))
             k == Step("firstlist", h.base, h.size)
             M == {j, k}
  <2>1. View(c, "insert", M)
    BY <1>7, WorkViews
  <2>2. j.op = "malloc2" /\ k.op = "firstlist" /\ k.size = h.size /\ k.base = h.base
    BY StepFields
  <2>3. \A i \in M : i = j \/ i = k
    OBVIOUS
  <2> HIDE DEF j, k, M
  <2>4. \A i \in M : i.op = "malloc2" \/ (i.op = "firstlist" /\ i.size = h.size /\ i.base = h.base)
    BY <2>2, <2>3
  <2>5. /\ \A i \in M : i.op \in Sized \cup Storing => i.size = h.size /\ i.base = h.base
        /\ \A i \in M : i.op # "result"
        /\ "insert" \in Sized /\ "insert" \in Makers /\ "insert" \in Storing
    BY <2>4 DEF Sized, Storing, Makers
  <2> QED
    BY <1>1, <2>1, <2>5, AgreeView DEF Storing
<1>8. CASE Insert(c)
  <2> DEFINE j == Step("malloc2", NULL, ItemBlocks(2 * list.max))
             k == Step("movelist", NULL, 0)
             M == IF Len(list'.items) > Len(list.items) /\ IsFull(Len(list'.items)) THEN {j, k} ELSE {}
  <2>1. View(c, "insert", M)
    BY <1>8, WorkViews
  <2>2. j.op = "malloc2" /\ k.op = "movelist"
    BY StepFields
  <2>3. \A i \in M : i = j \/ i = k
    OBVIOUS
  <2> HIDE DEF j, k, M
  <2>4. /\ \A i \in M : i.op \notin Sized /\ i.op \notin Makers /\ i.op # "result"
        /\ "insert" \in Storing
    BY <2>2, <2>3 DEF Sized, Storing, Makers
  <2> QED
    BY <1>1, <2>1, <2>4, AgreeView
<1>9. CASE MoveList(c)
  <2> DEFINE j == Step("free2", list.base, ItemBlocks(list.max))
             k == Step("setlist", ret[c], 0)
             M == (IF ret[c] = NULL THEN {} ELSE {j}) \cup {k}
  <2>1. View(c, "movelist", M)
    BY <1>9, WorkViews
  <2>2. j.op = "free2" /\ k.op = "setlist"
    BY StepFields
  <2>3. \A i \in M : i = j \/ i = k
    OBVIOUS
  <2> HIDE DEF j, k, M
  <2>4. /\ \A i \in M : i.op \notin Sized /\ i.op \notin Makers /\ i.op # "result"
        /\ "movelist" \in Storing
    BY <2>2, <2>3 DEF Sized, Storing, Makers
  <2> QED
    BY <1>1, <2>1, <2>4, AgreeView
<1>10. CASE Unlink(c)
  <2> DEFINE j == Step("free2", h.base, list.items[Closest(h.base)].size)
             k == Step("clear", h.base, 0)
             M == IF Searchable /\ Found(h.base) THEN {j, k} ELSE {}
  <2>1. View(c, "unlink", M)
    BY <1>10, WorkViews
  <2>2. j.op = "free2" /\ k.op = "clear"
    BY StepFields
  <2>3. \A i \in M : i = j \/ i = k
    OBVIOUS
  <2> HIDE DEF j, k, M
  <2> QED
    BY <1>4, <2>1, <2>2, <2>3 DEF Sized, Storing, Makers
<1>11. CASE Resize(c)
  <2> DEFINE j == Step("malloc2", NULL, h.size)
             k == Step("record", NULL, h.size)
             l == Step("copymem", NULL, 0)
             m == Step("unlink", h.base, 0)
             e == Step("error", NULL, 0)
             M == IF Searchable /\ Found(h.base) THEN {j, k, l, m} ELSE {e}
  <2>1. View(c, "resize", M)
    BY <1>11, WorkViews
  <2>2. /\ j.op = "malloc2" /\ k.op = "record" /\ l.op = "copymem" /\ m.op = "unlink"
        /\ e.op = "error" /\ k.size = h.size
    BY StepFields
  <2>3. \A i \in M : i = j \/ i = k \/ i = l \/ i = m \/ i = e
    OBVIOUS
  <2> HIDE DEF j, k, l, m, e, M
  <2>4. \A i \in M : \/ i.op = "record" /\ i.size = h.size
                     \/ i.op \in {"malloc2", "copymem", "unlink", "error"}
    BY <2>2, <2>3
  <2>5. /\ \A i \in M : i.op \in Sized => i.size = h.size
        /\ \A i \in M : i.op \notin Storing /\ i.op \notin Makers /\ i.op # "result"
        /\ "resize" \in Sized
    BY <2>4 DEF Sized, Storing, Makers
  <2> QED
    BY <1>1, <2>1, <2>5, AgreeView
<1>12. CASE AddPage(c)
  <2> DEFINE j == Step("malloc2", NULL, InfoBlocks(2 * infoMax))
             k == Step("moveinfo", NULL, 0)
             M == IF pages' >= infoMax THEN {j, k} ELSE {}
  <2>1. View(c, "addpage", M)
    BY <1>12, WorkViews
  <2>2. j.op = "malloc2" /\ k.op = "moveinfo"
    BY StepFields
  <2>3. \A i \in M : i = j \/ i = k
    OBVIOUS
  <2> HIDE DEF j, k, M
  <2> QED
    BY <1>4, <2>1, <2>2, <2>3 DEF Sized, Storing, Makers
<1>13. CASE MoveInfo(c)
  <2> DEFINE j == Step("free2", infoBase, InfoBlocks(infoMax))
             k == Step("setinfo", ret[c], 0)
             M == {j, k}
  <2>1. View(c, "moveinfo", M)
    BY <1>13, WorkViews
  <2>2. j.op = "free2" /\ k.op = "setinfo"
    BY StepFields
  <2>3. \A i \in M : i = j \/ i = k
    OBVIOUS
  <2> HIDE DEF j, k, M
  <2> QED
    BY <1>4, <2>1, <2>2, <2>3 DEF Sized, Storing, Makers
<1>14. CASE SetInfo(c)
  <2> DEFINE j == Step("free2", infoBase, InfoBlocks(infoMax))
             M == {j}
  <2>1. View(c, "setinfo", M)
    BY <1>14, WorkViews
  <2>2. j.op = "free2"
    BY StepFields
  <2>3. \A i \in M : i = j \/ i = j
    OBVIOUS
  <2> HIDE DEF j, M
  <2> QED
    BY <1>4, <2>1, <2>2, <2>3 DEF Sized, Storing, Makers
<1> QED
  BY <1>5, <1>6, <1>7, <1>8, <1>9, <1>10, <1>11, <1>12, <1>13, <1>14 DEF Work

-----------------------------------------------------------------------------
(* The entries of AllocList                                                 *)

(* Those that were not cleared.                                             *)
Entries(s) == {s[i] : i \in {j \in 1 .. Len(s) : s[j].size # 0}}

(* An entry is at some place of the list and was not cleared.               *)
LEMMA InEntries ==
  ASSUME NEW s, NEW e
  PROVE  e \in Entries(s) <=> \E i \in 1 .. Len(s) : s[i] = e /\ e.size # 0
BY DEF Entries

(* In a sorted list an address is that of one entry only.                   *)
LEMMA OneEntry ==
  ASSUME NEW s \in Seq(Chunks), Sorted(s), NEW e \in Entries(s), NEW f \in Entries(s),
         e.base = f.base
  PROVE  e = f
<1>1. PICK i \in 1 .. Len(s) : s[i] = e
  BY InEntries
<1>2. PICK j \in 1 .. Len(s) : s[j] = f
  BY InEntries
<1>3. e.base \in Int /\ Len(s) \in Nat
  <2>1. DOMAIN s = 1 .. Len(s) /\ Len(s) \in Nat
    BY LenProperties
  <2>2. e \in Chunks
    BY <1>1, <2>1
  <2> QED
    BY <2>1, <2>2 DEF Chunks
<1>4. ~(i < j) /\ ~(j < i)
  BY <1>1, <1>2, <1>3 DEF Sorted
<1> QED
  BY <1>1, <1>2, <1>3, <1>4

(* The search finds an entry of a sorted list.                              *)
LEMMA FindsEntry ==
  ASSUME NEW s \in Seq(Chunks), Sorted(s), NEW e \in Entries(s)
  PROVE  LET i == findClosestAllocRegion(s, e.base) IN i \in 1 .. Len(s) /\ s[i] = e
<1> DEFINE i == findClosestAllocRegion(s, e.base)
           n == Len(s)
<1>1. n \in Nat /\ DOMAIN s = 1 .. n /\ \A j \in 1 .. n : s[j] \in Chunks
  BY LenProperties
<1>2. PICK j \in 1 .. n : s[j] = e
  BY InEntries
<1>3. (\A l \in 1 .. n : s[l].base \in Int) /\ e.base \in Int
  BY <1>1, <1>2 DEF Chunks
<1>4. i \in 1 .. n + 1 /\ Belongs(s, e.base, i)
  BY <1>1, <1>3, SearchRight
<1> HIDE DEF i, n
<1>5. CASE i <= n /\ s[i].base = e.base
  <2>1. i \in 1 .. n
    BY <1>1, <1>4, <1>5
  <2>2. ~(i < j) /\ ~(j < i)
    BY <1>2, <1>3, <1>5, <2>1 DEF Sorted, n
  <2> QED
    BY <1>1, <1>2, <2>1, <2>2 DEF i, n
<1>6. CASE ~(i <= n /\ s[i].base = e.base)
  <2>1. /\ \A l \in 1 .. n : l < i => s[l].base < e.base
        /\ \A l \in 1 .. n : l >= i => s[l].base > e.base
    BY <1>4, <1>6 DEF Belongs, n
  <2>2. j < i \/ j >= i
    BY <1>1, <1>4
  <2> QED
    BY <1>2, <1>3, <2>1, <2>2
<1> QED
  BY <1>5, <1>6

(* A new entry with an address of its own joins the entries, and the list   *)
(* stays sorted.                                                            *)
LEMMA EntryAdded ==
  ASSUME NEW s \in Seq(Chunks), Sorted(s), NEW x \in Chunks, x.size # 0,
         \A e \in Entries(s) : e.base # x.base
  PROVE  /\ Sorted(WithEntry(s, x))
         /\ \A e : e \in Entries(WithEntry(s, x)) <=> e \in Entries(s) \/ e = x
<1> DEFINE t == WithEntry(s, x)
           i == findClosestAllocRegion(s, x.base)
           n == Len(s)
<1>1. /\ t \in Seq(Chunks) /\ i \in 1 .. n + 1 /\ n \in Nat
      /\ \/ /\ Len(t) = n /\ i <= n /\ s[i].size = 0
            /\ \A j \in 1 .. n : t[j] = IF j = i THEN x ELSE s[j]
         \/ /\ Len(t) = n + 1
            /\ i <= n => s[i].size # 0
            /\ \A j \in 1 .. n + 1 : t[j] = IF j < i THEN s[j] ELSE IF j = i THEN x ELSE s[j - 1]
  BY WithEntryParts
<1>2. DOMAIN s = 1 .. n /\ \A j \in 1 .. n : s[j] \in Chunks
  BY LenProperties
<1>3. (\A l \in 1 .. n : s[l].base \in Int) /\ x.base \in Int
  BY <1>2 DEF Chunks
<1>4. Belongs(s, x.base, i)
  BY <1>1, <1>3, SearchRight
<1>5. \A a, b \in 1 .. n : a < b => s[a].base < s[b].base
  BY DEF Sorted
<1>6. \A e : e \in Entries(s) <=> \E j \in 1 .. n : s[j] = e /\ e.size # 0
  BY InEntries
<1>7. \A e : e \in Entries(t) <=> \E j \in 1 .. Len(t) : t[j] = e /\ e.size # 0
  BY InEntries
<1>8. (\A l \in 1 .. n : l < i => s[l].base < x.base) /\ (\A l \in 1 .. n : l > i => s[l].base > x.base)
  <2>1. CASE i <= n /\ s[i].base = x.base
    BY <1>1, <1>3, <1>5, <2>1
  <2>2. CASE ~(i <= n /\ s[i].base = x.base)
    <3>1. /\ \A l \in 1 .. n : l < i => s[l].base < x.base
          /\ \A l \in 1 .. n : l >= i => s[l].base > x.base
      BY <1>4, <2>2 DEF Belongs
    <3> QED
      BY <1>1, <3>1
  <2> QED
    BY <2>1, <2>2
<1> HIDE DEF t, i, n
<1> SUFFICES Sorted(t) /\ \A e : e \in Entries(t) <=> e \in Entries(s) \/ e = x
  BY DEF t
<1>9. CASE /\ Len(t) = n /\ i <= n /\ s[i].size = 0
           /\ \A j \in 1 .. n : t[j] = IF j = i THEN x ELSE s[j]
  <2>1. ASSUME NEW a \in 1 .. n, NEW b \in 1 .. n, a < b PROVE t[a].base < t[b].base
    <3>1. CASE a = i
      BY <1>1, <1>8, <1>9, <2>1, <3>1
    <3>2. CASE b = i
      BY <1>1, <1>8, <1>9, <2>1, <3>2
    <3>3. CASE a # i /\ b # i
      BY <1>5, <1>9, <2>1, <3>3
    <3> QED
      BY <3>1, <3>2, <3>3
  <2>2. Sorted(t)
    BY <1>9, <2>1 DEF Sorted
  <2>3. ASSUME NEW e PROVE e \in Entries(t) <=> e \in Entries(s) \/ e = x
    <3>1. ASSUME e \in Entries(t) PROVE e \in Entries(s) \/ e = x
      BY <1>6, <1>7, <1>9, <3>1
    <3>2. ASSUME e \in Entries(s) PROVE e \in Entries(t)
      BY <1>6, <1>7, <1>9, <3>2
    <3>3. x \in Entries(t)
      BY <1>1, <1>7, <1>9
    <3> QED
      BY <3>1, <3>2, <3>3
  <2> QED
    BY <2>2, <2>3
<1>10. CASE /\ Len(t) = n + 1
            /\ i <= n => s[i].size # 0
            /\ \A j \in 1 .. n + 1 : t[j] = IF j < i THEN s[j] ELSE IF j = i THEN x ELSE s[j - 1]
  <2>1. \A l \in 1 .. n : l >= i => s[l].base > x.base
    <3> SUFFICES ASSUME NEW l \in 1 .. n, l >= i PROVE s[l].base > x.base
      OBVIOUS
    <3>1. CASE l > i
      BY <1>8, <3>1
    <3>2. CASE l = i
      <4>1. i <= n /\ s[i] \in Entries(s)
        BY <1>1, <1>6, <1>10, <3>2
      <4>2. s[i].base # x.base
        BY <4>1
      <4> QED
        BY <1>4, <3>2, <4>1, <4>2 DEF Belongs, n
    <3> QED
      BY <1>1, <3>1, <3>2
  <2>2. ASSUME NEW a \in 1 .. n + 1, NEW b \in 1 .. n + 1, a < b PROVE t[a].base < t[b].base
    <3>1. CASE b < i
      BY <1>1, <1>5, <1>10, <2>2, <3>1
    <3>2. CASE b = i
      BY <1>1, <1>8, <1>10, <2>2, <3>2
    <3>3. CASE a < i /\ b > i
      <4>1. a \in 1 .. n /\ b - 1 \in 1 .. n /\ a < b - 1 /\ ~(b < i) /\ b # i
        BY <1>1, <2>2, <3>3
      <4>2. t[a] = s[a] /\ t[b] = s[b - 1]
        BY <1>10, <3>3, <4>1
      <4> QED
        BY <1>5, <4>1, <4>2
    <3>4. CASE a = i
      <4>1. b - 1 \in 1 .. n /\ b - 1 >= i /\ t[a] = x /\ t[b] = s[b - 1]
        BY <1>1, <1>10, <2>2, <3>4
      <4> QED
        BY <1>3, <2>1, <4>1
    <3>5. CASE a > i
      <4>1. a - 1 \in 1 .. n /\ b - 1 \in 1 .. n /\ a - 1 < b - 1 /\ t[a] = s[a - 1] /\ t[b] = s[b - 1]
        BY <1>1, <1>10, <2>2, <3>5
      <4> QED
        BY <1>5, <4>1
    <3> QED
      BY <1>1, <2>2, <3>1, <3>2, <3>3, <3>4, <3>5
  <2>3. Sorted(t)
    BY <1>10, <2>2 DEF Sorted
  <2>4. ASSUME NEW e PROVE e \in Entries(t) <=> e \in Entries(s) \/ e = x
    <3>1. ASSUME e \in Entries(t) PROVE e \in Entries(s) \/ e = x
      <4>1. PICK j \in 1 .. n + 1 : t[j] = e /\ e.size # 0
        BY <1>7, <1>10, <3>1
      <4>2. j < i => j \in 1 .. n /\ e = s[j]
        BY <1>1, <1>10, <4>1
      <4>3. j > i => j - 1 \in 1 .. n /\ e = s[j - 1]
        BY <1>1, <1>10, <4>1
      <4>4. j = i => e = x
        BY <1>1, <1>10, <4>1
      <4> QED
        BY <1>1, <1>6, <4>1, <4>2, <4>3, <4>4
    <3>2. ASSUME e \in Entries(s) PROVE e \in Entries(t)
      <4>1. PICK j \in 1 .. n : s[j] = e /\ e.size # 0
        BY <1>6, <3>2
      <4>2. j < i => j \in 1 .. n + 1 /\ t[j] = e
        BY <1>1, <1>10, <4>1
      <4>3. j >= i => j + 1 \in 1 .. n + 1 /\ t[j + 1] = e
        <5>1. j >= i => j + 1 \in 1 .. n + 1 /\ ~(j + 1 < i) /\ j + 1 # i /\ j + 1 - 1 = j
          BY <1>1
        <5> QED
          BY <1>10, <4>1, <5>1
      <4> QED
        BY <1>1, <1>7, <1>10, <4>1, <4>2, <4>3
    <3>3. x \in Entries(t)
      <4>1. t[i] = x /\ i \in 1 .. n + 1
        BY <1>1, <1>10
      <4> QED
        BY <1>7, <1>10, <4>1
    <3> QED
      BY <3>1, <3>2, <3>3
  <2> QED
    BY <2>3, <2>4
<1> QED
  BY <1>1, <1>9, <1>10

(* The entry that is cleared is one entry less, and the list stays sorted.  *)
LEMMA EntryCleared ==
  ASSUME ListT, Sorted(list.items), NEW e \in Entries(list.items), NEW l,
         l = [list EXCEPT !.items = [list.items EXCEPT ![Closest(e.base)].size = 0]]
  PROVE  /\ Sorted(l.items) /\ l.base = list.base
         /\ \A f : f \in Entries(l.items) <=> f \in Entries(list.items) /\ f # e
<1> DEFINE s == list.items
           t == l.items
           i == Closest(e.base)
           n == Len(s)
<1>1. /\ l.base = list.base /\ Len(t) = n /\ n \in Nat
      /\ \A j \in 1 .. n : /\ s[j] \in Chunks
                           /\ t[j] = IF j = i THEN [s[j] EXCEPT !.size = 0] ELSE s[j]
  BY ClearParts
<1>2. s \in Seq(Chunks)
  BY DEF ListT
<1>3. i \in 1 .. n /\ s[i] = e
  BY <1>2, FindsEntry DEF Closest
<1>4. t[i] = [e EXCEPT !.size = 0] /\ e \in Chunks
  BY <1>1, <1>3
<1>5. t[i].size = 0 /\ t[i].base = e.base
  BY <1>4 DEF Chunks
<1> HIDE DEF s, t, i, n
<1>6. \A j \in 1 .. n : t[j].base = s[j].base
  BY <1>1, <1>3, <1>5
<1>7. Sorted(t)
  BY <1>1, <1>6 DEF Sorted, s, n
<1>8. \A f : f \in Entries(s) <=> \E j \in 1 .. n : s[j] = f /\ f.size # 0
  BY InEntries DEF n
<1>9. \A f : f \in Entries(t) <=> \E j \in 1 .. n : t[j] = f /\ f.size # 0
  BY <1>1, InEntries
<1>10. ASSUME NEW f PROVE f \in Entries(t) <=> f \in Entries(s) /\ f # e
  <2>1. ASSUME f \in Entries(t) PROVE f \in Entries(s) /\ f # e
    <3>1. PICK j \in 1 .. n : t[j] = f /\ f.size # 0
      BY <1>9, <2>1
    <3>2. j # i /\ s[j] = f
      BY <1>1, <1>5, <3>1
    <3>3. f \in Entries(s)
      BY <1>8, <3>1, <3>2
    <3>4. s[j].base # s[i].base
      <4>1. s[i].base \in Int /\ s[j].base \in Int /\ (j < i \/ i < j)
        BY <1>1, <1>3, <3>2 DEF Chunks
      <4>2. (j < i => s[j].base < s[i].base) /\ (i < j => s[i].base < s[j].base)
        BY <1>3 DEF Sorted, s, n
      <4> QED
        BY <4>1, <4>2
    <3> QED
      BY <1>3, <3>2, <3>3, <3>4
  <2>2. ASSUME f \in Entries(s), f # e PROVE f \in Entries(t)
    <3>1. PICK j \in 1 .. n : s[j] = f /\ f.size # 0
      BY <1>8, <2>2
    <3>2. j # i
      BY <1>3, <2>2, <3>1
    <3> QED
      BY <1>1, <1>9, <3>1, <3>2
  <2> QED
    BY <2>1, <2>2
<1> QED
  BY <1>1, <1>7, <1>10 DEF s, t

-----------------------------------------------------------------------------
(* Who has an entry                                                         *)

(* What malloc has entered and not yet told its caller; what the caller is  *)
(* about to get; and what realloc or free were given and have still to give *)
(* back.                                                                    *)
Olds == {"resize", "unlink", "clear"}
Finals == {"unlink", "free2", "clear", "copymem", "return"}
ResultOf(Q, x) ==
  /\ \A k \in Q : k.op \notin Makers
  /\ \E k \in Q : k.op = "result" /\ x = Chunk(k.base, k.size)
ReturnOf(Q, r, x) ==
  /\ r # NULL
  /\ \A k \in Q : k.op \in Finals
  /\ \E k \in Q : k.op = "return" /\ x = Chunk(r, k.size)
OldOf(Q, b) == \E k \in Q : k.op \in Olds /\ b = k.base

(* The entries, and their holders: callers, and calls under way.            *)
Ent == Entries(list.items)
HeldBy(c, o, x) ==
  \/ o = Owner("result", c) /\ ResultOf(Pend(todo[c]), x)
  \/ o = Owner("return", c) /\ ReturnOf(Pend(todo[c]), ret[c], x)
  \/ o = Owner("old", c) /\ x \in Ent /\ OldOf(Pend(todo[c]), x.base)
Held(o, x) == (o = Owner("live", 0) /\ x \in live) \/ \E c \in CPUs : HeldBy(c, o, x)

(* All of it is in AllocList, and everything has one holder.                *)
HeldIn == \A o, x : Held(o, x) => x \in Ent
HeldOnce == \A o, p, x : Held(o, x) /\ Held(p, x) => o = p
OldIn == \A c \in CPUs : \A b : OldOf(Pend(todo[c]), b) => \E e \in Ent : e.base = b
Claims == HeldIn /\ HeldOnce /\ OldIn

(* AllocList is sorted, and empty until it has a place.                     *)
ListInv ==
  /\ Sorted(list.items)
  /\ ~fault /\ list.base = NULL => list.items = <<>>
  /\ Due({"firstlist"}) => list.base = NULL

(* All this until the lists are damaged; then no CPU is in realloc's loop.  *)
ClaimInv == ~damaged /\ ~forgotten => ListInv /\ Claims /\ ~Due({"error"})

(* A step that leaves the entries alone, and after which nobody holds what  *)
(* it did not hold before.                                                  *)
LEMMA ClaimsSame ==
  ASSUME Claims, NEW c \in CPUs, live' \subseteq live, list'.items = list.items,
         \A d \in CPUs \ {c} : Pend(todo'[d]) = Pend(todo[d]) /\ ret'[d] = ret[d],
         \A x : ResultOf(Pend(todo'[c]), x) => ResultOf(Pend(todo[c]), x),
         \A x : ReturnOf(Pend(todo'[c]), ret'[c], x) => ReturnOf(Pend(todo[c]), ret[c], x),
         \A b : OldOf(Pend(todo'[c]), b) => OldOf(Pend(todo[c]), b)
  PROVE  Claims'
<1>1. Ent' = Ent
  BY DEF Ent
<1>2. ASSUME NEW o, NEW x, Held(o, x)' PROVE Held(o, x)
  <2>1. CASE o = Owner("live", 0) /\ x \in live'
    BY <2>1 DEF Held
  <2>2. ASSUME NEW d \in CPUs, HeldBy(d, o, x)' PROVE HeldBy(d, o, x)
    <3>1. CASE d = c
      BY <1>1, <2>2, <3>1 DEF HeldBy
    <3>2. CASE d # c
      BY <1>1, <2>2, <3>2 DEF HeldBy
    <3> QED
      BY <3>1, <3>2
  <2> QED
    BY <1>2, <2>1, <2>2 DEF Held
<1>3. HeldIn'
  BY <1>1, <1>2 DEF HeldIn, Claims
<1>4. HeldOnce'
  BY <1>2 DEF HeldOnce, Claims
<1>5. OldIn'
  <2> SUFFICES ASSUME NEW d \in CPUs, NEW b, OldOf(Pend(todo'[d]), b)
               PROVE  \E e \in Ent : e.base = b
    BY <1>1 DEF OldIn
  <2>1. OldOf(Pend(todo[d]), b)
    BY DEF OldOf
  <2> QED
    BY <2>1 DEF OldIn, Claims
<1> QED
  BY <1>3, <1>4, <1>5 DEF Claims

(* What is due after a step was due before, or was added.                   *)
LEMMA DueMore ==
  ASSUME NEW c \in CPUs, NEW op, NEW M, View(c, op, M), NEW ops, Due(ops)'
  PROVE  (\E k \in M : k.op \in ops) \/ Due(ops)
<1>1. PICK d \in CPUs : \E k \in Pend(todo'[d]) : k.op \in ops
  BY DEF Due
<1>2. PICK k \in Pend(todo'[d]) : k.op \in ops
  BY <1>1
<1>3. CASE d = c
  BY <1>2, <1>3 DEF View, Due
<1>4. CASE d # c
  BY <1>2, <1>4 DEF View, Due
<1> QED
  BY <1>3, <1>4

(* A step that leaves the entries alone, in terms of what it adds.          *)
LEMMA PlainC ==
  ASSUME Claims, NEW c \in CPUs, NEW op, NEW M, View(c, op, M),
         UNCHANGED live, list'.items = list.items, \A d \in CPUs \ {c} : ret'[d] = ret[d],
         (op \in Makers \/ \E k \in M : k.op = "result") => \E j \in M : j.op \in Makers,
         \A k \in M : k.op # "return",
         \/ op \in Finals /\ ret'[c] = ret[c]
         \/ \E k \in M \cup Rest(c) : k.op \notin Finals
         \/ ret'[c] = NULL
         \/ \A k \in Rest(c) : k.op # "return",
         \A k \in M : k.op \in Olds => op \in Olds /\ k.base = Head(todo[c]).base
  PROVE  Claims'
<1> DEFINE h == Head(todo[c])
           R == Rest(c)
<1>1. /\ h.op = op /\ Pend(todo[c]) = {h} \cup R /\ Pend(todo'[c]) = M \cup R
      /\ \A d \in CPUs \ {c} : todo'[d] = todo[d]
  BY DEF View
<1> HIDE DEF h, R
<1>2. ASSUME NEW x, ResultOf(M \cup R, x) PROVE ResultOf({h} \cup R, x)
  <2>1. \A k \in M \cup R : k.op \notin Makers
    BY <1>2 DEF ResultOf
  <2>2. PICK k \in M \cup R : k.op = "result" /\ x = Chunk(k.base, k.size)
    BY <1>2 DEF ResultOf
  <2>3. op \notin Makers /\ k \notin M
    BY <2>1, <2>2
  <2> QED
    BY <1>1, <2>1, <2>2, <2>3 DEF ResultOf
<1>3. ASSUME NEW x, ReturnOf(M \cup R, ret'[c], x) PROVE ReturnOf({h} \cup R, ret[c], x)
  <2>1. ret'[c] # NULL /\ \A k \in M \cup R : k.op \in Finals
    BY <1>3 DEF ReturnOf
  <2>2. PICK k \in M \cup R : k.op = "return" /\ x = Chunk(ret'[c], k.size)
    BY <1>3 DEF ReturnOf
  <2>3. k \in R
    BY <2>2
  <2>4. op \in Finals /\ ret'[c] = ret[c]
    BY <2>1, <2>2, <2>3 DEF R
  <2> QED
    BY <1>1, <2>1, <2>2, <2>3, <2>4 DEF ReturnOf
<1>4. ASSUME NEW b, OldOf(M \cup R, b) PROVE OldOf({h} \cup R, b)
  <2>1. PICK k \in M \cup R : k.op \in Olds /\ b = k.base
    BY <1>4 DEF OldOf
  <2>2. k \in M => h.op \in Olds /\ b = h.base
    BY <1>1, <2>1 DEF h
  <2> QED
    BY <2>1, <2>2 DEF OldOf
<1>5. \A d \in CPUs \ {c} : Pend(todo'[d]) = Pend(todo[d]) /\ ret'[d] = ret[d]
  BY <1>1
<1> QED
  BY <1>1, <1>2, <1>3, <1>4, <1>5, ClaimsSame

(* With the list where it is, and nobody in the loop of realloc.            *)
LEMMA PlainClaim ==
  ASSUME ClaimInv, ~fault, NEW c \in CPUs, NEW op, NEW M, View(c, op, M),
         UNCHANGED <<live, forgotten, list>>, damaged \/ forgotten => damaged' \/ forgotten',
         \A d \in CPUs \ {c} : ret'[d] = ret[d],
         (op \in Makers \/ \E k \in M : k.op = "result") => \E j \in M : j.op \in Makers,
         \A k \in M : k.op # "return",
         \/ op \in Finals /\ ret'[c] = ret[c]
         \/ \E k \in M \cup Rest(c) : k.op \notin Finals
         \/ ret'[c] = NULL
         \/ \A k \in Rest(c) : k.op # "return",
         \A k \in M : k.op \in Olds => op \in Olds /\ k.base = Head(todo[c]).base,
         ~damaged /\ ~forgotten => \A k \in M : k.op # "error",
         (\E k \in M : k.op = "firstlist") => list.base = NULL
  PROVE  ClaimInv'
<1> SUFFICES ASSUME ~damaged', ~forgotten'
             PROVE  ListInv' /\ Claims' /\ ~Due({"error"})'
  BY DEF ClaimInv
<1>1. ~damaged /\ ~forgotten
  OBVIOUS
<1>2. ListInv /\ Claims /\ ~Due({"error"})
  BY <1>1 DEF ClaimInv
<1>3. Claims'
  BY <1>2, PlainC
<1>4. ~Due({"error"})'
  BY <1>1, <1>2, DueMore
<1>5. Due({"firstlist"})' => list.base = NULL
  BY <1>2, DueMore DEF ListInv
<1>6. ListInv'
  BY <1>2, <1>5 DEF ListInv
<1> QED
  BY <1>3, <1>4, <1>6

(* malloc2 and free2 leave AllocList and its holders alone.                 *)
LEMMA MallocC ==
  ASSUME ClaimInv, ~fault, TInv, NEW c \in CPUs, DoMalloc2(c), View(c, "malloc2", {})
  PROVE  ClaimInv'
<1> DEFINE M == {}
<1>1. View(c, "malloc2", M) /\ \A k \in M : FALSE
  OBVIOUS
<1> HIDE DEF M
<1>2. UNCHANGED <<live, forgotten, list>>
  BY DEF DoMalloc2
<1>3. damaged => damaged'
  <2>1. ~damaged' => ~damaged
    BY MallocDoes
  <2> QED
    BY <2>1
<1>4. \A d \in CPUs \ {c} : ret'[d] = ret[d]
  <2>1. DOMAIN ret = CPUs
    BY DEF TInv, StepsT
  <2>2. \E r : ret' = [ret EXCEPT ![c] = r]
    BY DEF DoMalloc2
  <2> QED
    BY <2>1, <2>2
<1>5. \E k \in M \cup Rest(c) : k.op \notin Finals
  BY <1>1 DEF View, Users, Finals
<1>6. "malloc2" \notin Makers
  BY DEF Makers
<1>7. damaged \/ forgotten => damaged' \/ forgotten'
  BY <1>2, <1>3
<1> QED
  BY <1>1, <1>2, <1>4, <1>5, <1>6, <1>7, PlainClaim

(* free2 leaves AllocList and its holders alone.                            *)
LEMMA FreeC ==
  ASSUME ClaimInv, ~fault, NEW c \in CPUs, DoFree2(c), View(c, "free2", {})
  PROVE  ClaimInv'
<1> DEFINE M == {}
<1>1. View(c, "free2", M) /\ \A k \in M : FALSE
  OBVIOUS
<1> HIDE DEF M
<1>2. UNCHANGED <<live, damaged, forgotten, list, ret>>
  BY DEF DoFree2
<1>3. "free2" \notin Makers /\ "free2" \in Finals
  BY DEF Makers, Finals
<1> QED
  BY <1>1, <1>2, <1>3, PlainClaim

(* So does the choice of malloc after malloc2.                              *)
LEMMA RecordC ==
  ASSUME ClaimInv, ~fault, NEW c \in CPUs, Record(c),
         View(c, "record", IF ret[c] = NULL THEN {}
                           ELSE {Step("insert", ret[c], Head(todo[c]).size),
                                 Step("result", ret[c], Head(todo[c]).size)})
  PROVE  ClaimInv'
<1> DEFINE j == Step("insert", ret[c], Head(todo[c]).size)
           k == Step("result", ret[c], Head(todo[c]).size)
           M == IF ret[c] = NULL THEN {} ELSE {j, k}
<1>1. View(c, "record", M)
  OBVIOUS
<1>2. j.op = "insert" /\ k.op = "result"
  BY StepFields
<1>3. (\A i \in M : i = j \/ i = k) /\ (ret[c] # NULL => j \in M) /\ (ret[c] = NULL => M = {})
  OBVIOUS
<1> HIDE DEF j, k, M
<1>4. UNCHANGED <<live, damaged, forgotten, list, ret>>
  BY DEF Record, historyVars, mmVars
<1>5. "record" \notin Makers /\ j.op \in Makers /\ j.op \notin Finals /\ k.op \notin Olds
      /\ j.op \notin Olds
  BY <1>2 DEF Makers, Finals, Olds
<1>6. (\E i \in M : i.op = "result") => j \in M
  BY <1>3
<1>7. (\E i \in M \cup Rest(c) : i.op \notin Finals) \/ ret'[c] = NULL
  BY <1>3, <1>4, <1>5
<1>8. \A i \in M : i.op \in {"insert", "result"} /\ i.op \notin Olds
  BY <1>2, <1>3, <1>5
<1> QED
  BY <1>1, <1>4, <1>5, <1>6, <1>7, <1>8, PlainClaim

(* And the request for the first list.                                      *)
LEMMA InsertFirstC ==
  ASSUME ClaimInv, ~fault, NEW c \in CPUs, InsertFirst(c),
         View(c, "insert", {Step("malloc2", NULL, ItemBlocks(InitItems)),
                            Step("firstlist", Head(todo[c]).base, Head(todo[c]).size)})
  PROVE  ClaimInv'
<1> DEFINE j == Step("malloc2", NULL, ItemBlocks(InitItems))
           k == Step("firstlist", Head(todo[c]).base, Head(todo[c]).size)
           M == {j, k}
<1>1. View(c, "insert", M)
  OBVIOUS
<1>2. j.op = "malloc2" /\ k.op = "firstlist"
  BY StepFields
<1>3. (\A i \in M : i = j \/ i = k) /\ k \in M
  OBVIOUS
<1> HIDE DEF j, k, M
<1>4. UNCHANGED <<live, damaged, forgotten, list, ret>> /\ list.base = NULL
  BY DEF InsertFirst, historyVars, mmVars
<1>5. k.op \in Makers /\ k.op \notin Finals
  BY <1>2 DEF Makers, Finals
<1>6. \A i \in M : i.op \in {"malloc2", "firstlist"} /\ i.op \notin Olds
  BY <1>2, <1>3 DEF Olds
<1> QED
  BY <1>1, <1>3, <1>4, <1>5, <1>6, PlainClaim

(* And the copying of the list.                                             *)
LEMMA MoveListC ==
  ASSUME ClaimInv, ~fault, NEW c \in CPUs, MoveList(c),
         View(c, "movelist", (IF ret[c] = NULL THEN {}
                              ELSE {Step("free2", list.base, ItemBlocks(list.max))})
                             \cup {Step("setlist", ret[c], 0)})
  PROVE  ClaimInv'
<1> DEFINE j == Step("free2", list.base, ItemBlocks(list.max))
           k == Step("setlist", ret[c], 0)
           M == (IF ret[c] = NULL THEN {} ELSE {j}) \cup {k}
<1>1. View(c, "movelist", M)
  OBVIOUS
<1>2. j.op = "free2" /\ k.op = "setlist"
  BY StepFields
<1>3. (\A i \in M : i = j \/ i = k) /\ k \in M
  OBVIOUS
<1> HIDE DEF j, k, M
<1>4. UNCHANGED <<live, damaged, forgotten, list, ret>>
  BY DEF MoveList, historyVars, mmVars
<1>5. "movelist" \notin Makers /\ k.op \notin Finals
  BY <1>2 DEF Makers, Finals
<1>6. \A i \in M : i.op \in {"free2", "setlist"} /\ i.op \notin Olds
  BY <1>2, <1>3 DEF Olds
<1> QED
  BY <1>1, <1>3, <1>4, <1>5, <1>6, PlainClaim

(* free keeps its claim from the search to the clearing of the entry.       *)
LEMMA UnlinkC ==
  ASSUME ClaimInv, ~fault, NEW c \in CPUs, Unlink(c),
         View(c, "unlink", IF Searchable /\ Found(Head(todo[c]).base)
                           THEN {Step("free2", Head(todo[c]).base,
                                      list.items[Closest(Head(todo[c]).base)].size),
                                 Step("clear", Head(todo[c]).base, 0)}
                           ELSE {})
  PROVE  ClaimInv'
<1> DEFINE h == Head(todo[c])
           j == Step("free2", h.base, list.items[Closest(h.base)].size)
           k == Step("clear", h.base, 0)
           M == IF Searchable /\ Found(h.base) THEN {j, k} ELSE {}
<1>1. View(c, "unlink", M)
  OBVIOUS
<1>2. j.op = "free2" /\ k.op = "clear" /\ k.base = h.base
  BY StepFields
<1>3. \A i \in M : i = j \/ i = k
  OBVIOUS
<1> HIDE DEF j, k, M
<1>4. UNCHANGED <<live, damaged, forgotten, list, ret>>
  BY DEF Unlink, historyVars, mmVars
<1>5. "unlink" \notin Makers /\ "unlink" \in Finals /\ "unlink" \in Olds /\ j.op \notin Olds
  BY <1>2 DEF Makers, Finals, Olds
<1>6. \A i \in M : i.op \in {"free2", "clear"} /\ (i.op \in Olds => i.base = h.base)
  BY <1>2, <1>3, <1>5
<1> QED
  BY <1>1, <1>4, <1>5, <1>6, PlainClaim

(* realloc is given what is in the list, so it finds it.                    *)
LEMMA ResizeC ==
  ASSUME ClaimInv, ~fault, TInv, NEW c \in CPUs, Resize(c),
         View(c, "resize", IF Searchable /\ Found(Head(todo[c]).base)
                           THEN {Step("malloc2", NULL, Head(todo[c]).size),
                                 Step("record", NULL, Head(todo[c]).size),
                                 Step("copymem", NULL, 0), Step("unlink", Head(todo[c]).base, 0)}
                           ELSE {Step("error", NULL, 0)})
  PROVE  ClaimInv'
<1> DEFINE h == Head(todo[c])
           j == Step("malloc2", NULL, h.size)
           k == Step("record", NULL, h.size)
           l == Step("copymem", NULL, 0)
           m == Step("unlink", h.base, 0)
           e == Step("error", NULL, 0)
           M == IF Searchable /\ Found(h.base) THEN {j, k, l, m} ELSE {e}
<1>1. View(c, "resize", M)
  OBVIOUS
<1>2. /\ j.op = "malloc2" /\ k.op = "record" /\ l.op = "copymem" /\ m.op = "unlink"
      /\ e.op = "error" /\ m.base = h.base
  BY StepFields
<1>3. /\ Searchable /\ Found(h.base) => \A i \in M : i = j \/ i = k \/ i = l \/ i = m
      /\ \A i \in M : i = j \/ i = k \/ i = l \/ i = m \/ i = e
      /\ k \in M \/ e \in M
  OBVIOUS
<1> HIDE DEF j, k, l, m, e, M
<1>4. UNCHANGED <<live, damaged, forgotten, list, ret>>
  BY DEF Resize, historyVars, mmVars
<1>5. ~damaged /\ ~forgotten => Searchable /\ Found(h.base)
  <2> SUFFICES ASSUME ~damaged, ~forgotten PROVE Searchable /\ Found(h.base)
    OBVIOUS
  <2>1. ListInv /\ Claims
    BY DEF ClaimInv
  <2>2. Searchable
    BY <2>1 DEF ListInv, Searchable
  <2>3. h \in Pend(todo[c]) /\ h.op = "resize"
    BY <1>1 DEF View
  <2>4. OldOf(Pend(todo[c]), h.base)
    BY <2>3 DEF OldOf, Olds
  <2>5. PICK x \in Ent : x.base = h.base
    BY <2>1, <2>4 DEF Claims, OldIn
  <2>6. list.items \in Seq(Chunks) /\ Sorted(list.items)
    BY <2>1 DEF TInv, ListT, ListInv
  <2>7. x \in Entries(list.items) /\ x.size # 0
    BY <2>5, InEntries DEF Ent
  <2>8. Closest(h.base) \in 1 .. Len(list.items) /\ list.items[Closest(h.base)] = x
    BY <2>5, <2>6, <2>7, FindsEntry DEF Closest
  <2>9. Len(list.items) \in Nat
    BY <2>6, LenProperties
  <2> QED
    BY <2>2, <2>5, <2>7, <2>8, <2>9 DEF Found
<1>6. /\ "resize" \notin Makers /\ "resize" \in Olds /\ k.op \notin Finals /\ e.op \notin Finals
      /\ j.op \notin Olds /\ k.op \notin Olds /\ l.op \notin Olds /\ e.op \notin Olds
  BY <1>2 DEF Makers, Finals, Olds
<1>7. /\ \A i \in M : i.op # "result" /\ i.op # "return" /\ i.op # "firstlist"
      /\ \A i \in M : i.op \in Olds => i.base = h.base
      /\ \E i \in M \cup Rest(c) : i.op \notin Finals
  BY <1>2, <1>3, <1>6
<1>8. ~damaged /\ ~forgotten => \A i \in M : i.op # "error"
  BY <1>2, <1>3, <1>5
<1> QED
  BY <1>1, <1>4, <1>6, <1>7, <1>8, PlainClaim

(* The copy of realloc, and the addition of a page, are not about AllocList.*)
LEMMA CopymemC ==
  ASSUME ClaimInv, ~fault, NEW c \in CPUs, Copymem(c), View(c, "copymem", {})
  PROVE  ClaimInv'
<1> DEFINE M == {}
<1>1. View(c, "copymem", M) /\ \A k \in M : FALSE
  OBVIOUS
<1> HIDE DEF M
<1>2. UNCHANGED <<live, damaged, forgotten, list, ret>>
  BY DEF Copymem, historyVars, mmVars
<1>3. "copymem" \notin Makers /\ "copymem" \in Finals
  BY DEF Makers, Finals
<1> QED
  BY <1>1, <1>2, <1>3, PlainClaim

(* So does the addition of a page, with the move of AllocationInfoList.     *)
LEMMA PageC ==
  ASSUME ClaimInv, ~fault, NEW c \in CPUs, NEW op \in {"addpage", "moveinfo", "setinfo"}, NEW M,
         View(c, op, M), \A k \in Rest(c) : MayFollow(op, k.op),
         \A k \in M : k.op \in {"malloc2", "free2", "moveinfo", "setinfo"},
         UNCHANGED <<live, damaged, forgotten, list, ret>>
  PROVE  ClaimInv'
<1>1. op \notin Makers /\ \A k \in Rest(c) : FALSE
  BY DEF Makers, MayFollow
<1>2. \A k \in M : k.op \notin Olds /\ k.op \notin {"result", "return", "error", "firstlist"}
  BY DEF Olds
<1> QED
  BY <1>1, <1>2, PlainClaim

(* A full list goes on at its new place; when there was no memory for that, *)
(* it is forgotten.                                                         *)
LEMMA SetListC ==
  ASSUME ClaimInv, AgreeInv, ~fault, TInv, NEW c \in CPUs, SetList(c), View(c, "setlist", {})
  PROVE  ClaimInv'
<1> SUFFICES ASSUME ~damaged', ~forgotten'
             PROVE  ListInv' /\ Claims' /\ ~Due({"error"})'
  BY DEF ClaimInv
<1> DEFINE M == {}
           h == Head(todo[c])
<1>1. View(c, "setlist", M) /\ \A k \in M : FALSE
  OBVIOUS
<1> HIDE DEF M
<1>2. UNCHANGED <<live, ret, fault, damaged>>
      /\ list' = [list EXCEPT !.base = h.base, !.max = 2 * @]
  BY DEF SetList
<1>3. ~forgotten /\ h.base # NULL
  BY Zenon DEF SetList
<1>4. list \in [base : Int, max : Nat, items : Seq(Chunks)]
  BY DEF TInv, ListT
<1>5. list'.items = list.items /\ list'.base = h.base
  BY <1>2, <1>4
<1>6. ListInv /\ Claims /\ ~Due({"error"})
  BY <1>2, <1>3 DEF ClaimInv
<1>7. \E k \in M \cup Rest(c) : k.op \notin Finals
  <2>1. h \in Pend(todo[c]) /\ h.op = "setlist" /\ Pend(todo[c]) = {h} \cup Rest(c)
    BY <1>1 DEF View
  <2>2. \E k \in Pend(todo[c]) : k.op = "result"
    BY <2>1 DEF AgreeInv, Agreed, Storing
  <2> QED
    BY <2>1, <2>2 DEF Finals
<1>8. Claims'
  BY <1>1, <1>2, <1>5, <1>6, <1>7, PlainC DEF Makers
<1>9. ~Due({"error"})'
  BY <1>1, <1>6, DueMore
<1>10. ~Due({"firstlist"})'
  <2>1. {"firstlist"} \subseteq Rare /\ "setlist" \in Guarded
    BY DEF Rare, Guarded
  <2>2. \A k \in Rest(c) : k.op \in Calm
    BY <1>1 DEF View
  <2>3. ~\E k \in M \cup Rest(c) : k.op \in {"firstlist"}
    BY <1>1, <2>2 DEF Calm
  <2> QED
    BY <1>1, <2>1, <2>3, AnyAfter
<1>11. ListInv'
  BY <1>3, <1>5, <1>6, <1>10 DEF ListInv
<1> QED
  BY <1>8, <1>9, <1>11

(* An entry that passes from one holder to another.                         *)
LEMMA HeldPassed ==
  ASSUME HeldIn, HeldOnce, Ent' = Ent, NEW n, NEW p, NEW z, Held(p, z),
         \A o, x : Held(o, x)' => (o = n /\ x = z) \/ (Held(o, x) /\ ~(o = p /\ x = z))
  PROVE  HeldIn' /\ HeldOnce'
<1>1. HeldIn'
  BY DEF HeldIn
<1>2. ASSUME NEW o, NEW q, NEW x, Held(o, x)', Held(q, x)' PROVE o = q
  <2>1. (o = n /\ x = z) \/ (Held(o, x) /\ ~(o = p /\ x = z))
    BY <1>2
  <2>2. (q = n /\ x = z) \/ (Held(q, x) /\ ~(q = p /\ x = z))
    BY <1>2
  <2>3. (x = z /\ Held(o, x) => o = p) /\ (x = z /\ Held(q, x) => q = p)
    BY DEF HeldOnce
  <2>4. Held(o, x) /\ Held(q, x) => o = q
    BY DEF HeldOnce
  <2> QED
    BY <2>1, <2>2, <2>3, <2>4
<1>3. HeldOnce'
  BY <1>2 DEF HeldOnce
<1> QED
  BY <1>1, <1>3

(* The holders after a step of c.                                           *)
LEMMA HeldSplit ==
  ASSUME NEW c \in CPUs, NEW Q, Pend(todo'[c]) = Q,
         \A d \in CPUs \ {c} : todo'[d] = todo[d] /\ ret'[d] = ret[d],
         NEW o, NEW x, Held(o, x)'
  PROVE  \/ o = Owner("live", 0) /\ x \in live'
         \/ o = Owner("result", c) /\ ResultOf(Q, x)
         \/ o = Owner("return", c) /\ ReturnOf(Q, ret'[c], x)
         \/ o = Owner("old", c) /\ x \in Ent' /\ OldOf(Q, x.base)
         \/ \E d \in CPUs \ {c} :
              \/ HeldBy(d, o, x)
              \/ o = Owner("old", d) /\ x \in Ent' /\ OldOf(Pend(todo[d]), x.base)
<1>1. CASE o = Owner("live", 0) /\ x \in live'
  BY <1>1
<1>2. CASE \E d \in CPUs : HeldBy(d, o, x)'
  <2>1. PICK d \in CPUs : HeldBy(d, o, x)'
    BY <1>2
  <2>2. CASE d = c
    BY <2>1, <2>2 DEF HeldBy
  <2>3. CASE d # c
    <3>1. todo'[d] = todo[d] /\ ret'[d] = ret[d]
      BY <2>3
    <3>2. \/ o = Owner("result", d) /\ ResultOf(Pend(todo[d]), x)
          \/ o = Owner("return", d) /\ ReturnOf(Pend(todo[d]), ret[d], x)
          \/ o = Owner("old", d) /\ x \in Ent' /\ OldOf(Pend(todo[d]), x.base)
      BY <2>1, <3>1 DEF HeldBy
    <3> QED
      BY <2>3, <3>2 DEF HeldBy
  <2> QED
    BY <2>2, <2>3
<1> QED
  BY <1>1, <1>2 DEF Held

(* The owners of one CPU are not those of another.                          *)
LEMMA HeldTags ==
  ASSUME NEW c, NEW d, NEW o, NEW x, HeldBy(d, o, x)
  PROVE  /\ o # Owner("live", 0)
         /\ c # d => o # Owner("result", c) /\ o # Owner("return", c) /\ o # Owner("old", c)
BY SameOwner DEF HeldBy

(* What remains of the old ones when nothing is added to them.              *)
LEMMA OldRest ==
  ASSUME OldIn, NEW c \in CPUs, \A b : OldOf(Pend(todo'[c]), b) => \E e \in Ent' : e.base = b,
         \A d \in CPUs \ {c} : todo'[d] = todo[d],
         \A d \in CPUs \ {c} : \A b : OldOf(Pend(todo[d]), b) =>
           \A e \in Ent : e.base = b => e \in Ent'
  PROVE  OldIn'
<1> SUFFICES ASSUME NEW d \in CPUs, NEW b, OldOf(Pend(todo'[d]), b)
             PROVE  \E e \in Ent' : e.base = b
  BY DEF OldIn
<1>1. CASE d = c
  BY <1>1
<1>2. CASE d # c
  <2>1. OldOf(Pend(todo[d]), b)
    BY <1>2
  <2>2. PICK e \in Ent : e.base = b
    BY <2>1 DEF OldIn
  <2> QED
    BY <1>2, <2>1, <2>2
<1> QED
  BY <1>1, <1>2

(* The list stays as it is.                                                 *)
LEMMA ListKept ==
  ASSUME ListInv, ~Due({"error"}), ~fault, NEW c \in CPUs, NEW op, View(c, op, {}), UNCHANGED list
  PROVE  ListInv' /\ ~Due({"error"})'
<1> DEFINE M == {}
<1>1. View(c, op, M) /\ \A k \in M : FALSE
  OBVIOUS
<1> HIDE DEF M
<1>2. \A ops : Due(ops)' => Due(ops)
  BY <1>1, DueMore
<1> QED
  BY <1>2 DEF ListInv

(* malloc's answer passes from its own stack to that of its caller.         *)
LEMMA ResultC ==
  ASSUME ClaimInv, AgreeInv, ~fault, TInv, NEW c \in CPUs, Result(c), View(c, "result", {}),
         \A k \in Rest(c) : MayFollow("result", k.op)
  PROVE  ClaimInv'
<1> DEFINE h == Head(todo[c])
           R == Rest(c)
           z == Chunk(h.base, h.size)
           n == Owner("return", c)
           p == Owner("result", c)
<1>1. /\ h.op = "result" /\ Pend(todo[c]) = {h} \cup R /\ Pend(todo'[c]) = R
      /\ \A d \in CPUs \ {c} : todo'[d] = todo[d]
  BY DEF View
<1>2. UNCHANGED <<live, damaged, forgotten, list>> /\ ret' = [ret EXCEPT ![c] = h.base]
  BY DEF Result, historyVars, mmVars
<1>3. DOMAIN ret = CPUs
  BY DEF TInv, StepsT
<1>4. ret'[c] = h.base /\ \A d \in CPUs \ {c} : todo'[d] = todo[d] /\ ret'[d] = ret[d]
  BY <1>1, <1>2, <1>3
<1>5. \A k \in R : k.op \in {"copymem", "unlink", "return"}
  BY DEF MayFollow
<1> SUFFICES ASSUME ~damaged', ~forgotten'
             PROVE  ListInv' /\ Claims' /\ ~Due({"error"})'
  BY DEF ClaimInv
<1>6. ListInv /\ Claims /\ ~Due({"error"})
  BY <1>2 DEF ClaimInv
<1>7. ListInv' /\ ~Due({"error"})'
  BY <1>2, <1>6, ListKept
<1> HIDE DEF h, R
<1>8. Ent' = Ent
  BY <1>2 DEF Ent
<1>9. Held(p, z)
  <2>1. ResultOf({h} \cup R, z)
    BY <1>1, <1>5 DEF ResultOf, Makers
  <2> QED
    BY <1>1, <2>1 DEF Held, HeldBy
<1>10. ASSUME NEW x, ReturnOf(R, ret'[c], x) PROVE x = z
  <2>1. PICK k \in R : k.op = "return" /\ x = Chunk(h.base, k.size)
    BY <1>4, <1>10 DEF ReturnOf
  <2>2. Agreed({h} \cup R)
    BY <1>1 DEF AgreeInv
  <2>3. k.size = h.size
    BY <1>1, <2>1, <2>2 DEF Agreed, Sized
  <2> QED
    BY <2>1, <2>3
<1>11. /\ \A x : ~ResultOf(R, x)
       /\ \A b : OldOf(R, b) => OldOf(Pend(todo[c]), b)
  BY <1>1, <1>5 DEF ResultOf, OldOf
<1>12. p # n /\ p # Owner("live", 0) /\ p # Owner("old", c)
  BY SameOwner
<1> HIDE DEF z
<1>13. ASSUME NEW o, NEW x, Held(o, x)'
       PROVE  (o = n /\ x = z) \/ (Held(o, x) /\ ~(o = p /\ x = z))
  <2>1. \/ o = Owner("live", 0) /\ x \in live'
        \/ o = Owner("result", c) /\ ResultOf(R, x)
        \/ o = Owner("return", c) /\ ReturnOf(R, ret'[c], x)
        \/ o = Owner("old", c) /\ x \in Ent' /\ OldOf(R, x.base)
        \/ \E d \in CPUs \ {c} :
             \/ HeldBy(d, o, x)
             \/ o = Owner("old", d) /\ x \in Ent' /\ OldOf(Pend(todo[d]), x.base)
    BY <1>1, <1>4, <1>13, HeldSplit
  <2>2. CASE o = Owner("live", 0) /\ x \in live'
    BY <1>2, <1>12, <2>2 DEF Held
  <2>3. CASE o = Owner("return", c) /\ ReturnOf(R, ret'[c], x)
    BY <1>10, <2>3
  <2>4. CASE o = Owner("old", c) /\ x \in Ent' /\ OldOf(R, x.base)
    BY <1>8, <1>11, <1>12, <2>4 DEF Held, HeldBy
  <2>5. CASE \E d \in CPUs \ {c} :
               \/ HeldBy(d, o, x)
               \/ o = Owner("old", d) /\ x \in Ent' /\ OldOf(Pend(todo[d]), x.base)
    <3>1. PICK d \in CPUs \ {c} : HeldBy(d, o, x)
      BY <1>8, <2>5 DEF HeldBy
    <3>2. o # p
      BY <3>1, HeldTags
    <3> QED
      BY <3>1, <3>2 DEF Held
  <2> QED
    BY <1>11, <2>1, <2>2, <2>3, <2>4, <2>5
<1> HIDE DEF n, p
<1>14. HeldIn' /\ HeldOnce'
  BY <1>6, <1>8, <1>9, <1>13, HeldPassed DEF Claims
<1>15. OldIn'
  <2>1. \A b : OldOf(Pend(todo'[c]), b) => \E e \in Ent' : e.base = b
    BY <1>1, <1>6, <1>8, <1>11 DEF Claims, OldIn
  <2> QED
    BY <1>1, <1>6, <1>8, <2>1, OldRest DEF Claims
<1> QED
  BY <1>7, <1>14, <1>15 DEF Claims

(* The caller of malloc or realloc gets its memory.                         *)
LEMMA ReturnC ==
  ASSUME ClaimInv, ~fault, TInv, NEW c \in CPUs, Return(c), View(c, "return", {}),
         \A k \in Rest(c) : MayFollow("return", k.op)
  PROVE  ClaimInv'
<1> DEFINE h == Head(todo[c])
           R == Rest(c)
           z == Chunk(ret[c], h.size)
           n == Owner("live", 0)
           p == Owner("return", c)
<1>0. R = {}
  BY DEF MayFollow
<1>1. /\ h.op = "return" /\ Pend(todo[c]) = {h} \cup R /\ Pend(todo'[c]) = R
      /\ \A d \in CPUs \ {c} : todo'[d] = todo[d]
  BY DEF View
<1>2. /\ UNCHANGED <<damaged, forgotten, list>> /\ ret' = [ret EXCEPT ![c] = NULL]
      /\ live' = IF ret[c] = NULL THEN live ELSE live \cup {z}
  BY DEF Return, mmVars, Chunk
<1>3. DOMAIN ret = CPUs
  BY DEF TInv, StepsT
<1>4. ret'[c] = NULL /\ \A d \in CPUs \ {c} : todo'[d] = todo[d] /\ ret'[d] = ret[d]
  BY <1>1, <1>2, <1>3
<1> SUFFICES ASSUME ~damaged', ~forgotten'
             PROVE  ListInv' /\ Claims' /\ ~Due({"error"})'
  BY DEF ClaimInv
<1>5. ListInv /\ Claims /\ ~Due({"error"})
  BY <1>2 DEF ClaimInv
<1>6. ListInv' /\ ~Due({"error"})'
  BY <1>2, <1>5, ListKept
<1> HIDE DEF h, R
<1>7. Ent' = Ent
  BY <1>2 DEF Ent
<1>8. /\ \A x : ~ResultOf(R, x) /\ ~ReturnOf(R, ret'[c], x)
      /\ \A b : ~OldOf(R, b)
  BY <1>0 DEF ResultOf, ReturnOf, OldOf
<1>9. ASSUME ret[c] = NULL PROVE Claims'
  <2>1. live' \subseteq live /\ list'.items = list.items
    BY <1>2, <1>9
  <2>2. \A d \in CPUs \ {c} : Pend(todo'[d]) = Pend(todo[d]) /\ ret'[d] = ret[d]
    BY <1>4
  <2> QED
    BY <1>1, <1>5, <1>8, <2>1, <2>2, ClaimsSame
<1>10. ASSUME ret[c] # NULL PROVE HeldIn' /\ HeldOnce'
  <2>1. Held(p, z)
    <3>1. ReturnOf({h} \cup R, ret[c], z)
      BY <1>0, <1>1, <1>10 DEF ReturnOf, Finals
    <3> QED
      BY <1>1, <3>1 DEF Held, HeldBy
  <2>2. p # n /\ live' = live \cup {z}
    BY <1>2, <1>10, SameOwner
  <2> HIDE DEF z
  <2>3. ASSUME NEW o, NEW x, Held(o, x)'
        PROVE  (o = n /\ x = z) \/ (Held(o, x) /\ ~(o = p /\ x = z))
    <3>1. \/ o = Owner("live", 0) /\ x \in live'
          \/ o = Owner("result", c) /\ ResultOf(R, x)
          \/ o = Owner("return", c) /\ ReturnOf(R, ret'[c], x)
          \/ o = Owner("old", c) /\ x \in Ent' /\ OldOf(R, x.base)
          \/ \E d \in CPUs \ {c} :
               \/ HeldBy(d, o, x)
               \/ o = Owner("old", d) /\ x \in Ent' /\ OldOf(Pend(todo[d]), x.base)
      BY <1>1, <1>4, <2>3, HeldSplit
    <3>2. CASE o = Owner("live", 0) /\ x \in live'
      BY <2>2, <3>2 DEF Held
    <3>3. CASE \E d \in CPUs \ {c} :
                 \/ HeldBy(d, o, x)
                 \/ o = Owner("old", d) /\ x \in Ent' /\ OldOf(Pend(todo[d]), x.base)
      <4>1. PICK d \in CPUs \ {c} : HeldBy(d, o, x)
        BY <1>7, <3>3 DEF HeldBy
      <4>2. o # p
        BY <4>1, HeldTags
      <4> QED
        BY <4>1, <4>2 DEF Held
    <3> QED
      BY <1>8, <3>1, <3>2, <3>3
  <2> HIDE DEF n, p
  <2> QED
    BY <1>5, <1>7, <2>1, <2>3, HeldPassed DEF Claims
<1>11. OldIn'
  <2>1. \A b : OldOf(Pend(todo'[c]), b) => \E e \in Ent' : e.base = b
    BY <1>1, <1>8
  <2> QED
    BY <1>1, <1>5, <1>7, <2>1, OldRest DEF Claims
<1> QED
  BY <1>6, <1>9, <1>10, <1>11 DEF Claims

(* A new entry is held by the malloc that made it, and by nobody else.      *)
LEMMA AddedC ==
  ASSUME Claims, AgreeInv, NEW c \in CPUs, NEW op \in Makers, NEW M, View(c, op, M),
         UNCHANGED <<live, ret>>, NEW y, y = Chunk(Head(todo[c]).base, Head(todo[c]).size),
         \A e : e \in Ent' <=> e \in Ent \/ e = y,
         \A e \in Ent : e.base # y.base,
         \A k \in M : k.op \in {"malloc2", "movelist"}
  PROVE  Claims'
<1> DEFINE h == Head(todo[c])
           R == Rest(c)
           n == Owner("result", c)
<1>1. /\ h.op = op /\ Pend(todo[c]) = {h} \cup R /\ Pend(todo'[c]) = M \cup R
      /\ \A d \in CPUs \ {c} : todo'[d] = todo[d] /\ ret'[d] = ret[d]
  BY DEF View
<1>2. y = Chunk(h.base, h.size) /\ y.base = h.base
  BY DEF Chunk
<1> HIDE DEF h, R
<1>3. Agreed({h} \cup R) /\ op # "result" /\ op \in Storing /\ op \in Sized
  BY <1>1 DEF AgreeInv, Makers, Storing, Sized
<1>4. PICK r \in R : r.op = "result"
  BY <1>1, <1>3 DEF Agreed
<1>5. ASSUME NEW x, ResultOf(M \cup R, x) PROVE x = y
  <2>1. PICK k \in M \cup R : k.op = "result" /\ x = Chunk(k.base, k.size)
    BY <1>5 DEF ResultOf
  <2>2. k \in {h} \cup R /\ h \in {h} \cup R
    BY <2>1
  <2>3. h.size = k.size /\ h.base = k.base
    BY <1>1, <1>3, <2>1, <2>2 DEF Agreed, Sized
  <2> QED
    BY <1>2, <2>1, <2>3
<1>6. \A x : ~ReturnOf(M \cup R, ret'[c], x)
  BY <1>4 DEF ReturnOf, Finals
<1>7. \A b : OldOf(M \cup R, b) => OldOf(Pend(todo[c]), b)
  BY <1>1 DEF OldOf, Olds
<1>8. \A d \in CPUs : \A b : OldOf(Pend(todo[d]), b) => b # y.base
  BY DEF Claims, OldIn
<1>9. ASSUME NEW o, NEW x, Held(o, x)' PROVE (o = n /\ x = y) \/ Held(o, x)
  <2>1. \/ o = Owner("live", 0) /\ x \in live'
        \/ o = Owner("result", c) /\ ResultOf(M \cup R, x)
        \/ o = Owner("return", c) /\ ReturnOf(M \cup R, ret'[c], x)
        \/ o = Owner("old", c) /\ x \in Ent' /\ OldOf(M \cup R, x.base)
        \/ \E d \in CPUs \ {c} :
             \/ HeldBy(d, o, x)
             \/ o = Owner("old", d) /\ x \in Ent' /\ OldOf(Pend(todo[d]), x.base)
    BY <1>1, <1>9, HeldSplit
  <2>2. CASE o = Owner("live", 0) /\ x \in live'
    BY <2>2 DEF Held
  <2>3. CASE o = Owner("result", c) /\ ResultOf(M \cup R, x)
    BY <1>5, <2>3
  <2>4. ASSUME NEW d \in CPUs, o = Owner("old", d), x \in Ent', OldOf(Pend(todo[d]), x.base)
        PROVE  Held(o, x)
    <3>1. x \in Ent
      BY <1>8, <2>4
    <3> QED
      BY <2>4, <3>1 DEF Held, HeldBy
  <2> QED
    BY <1>6, <1>7, <2>1, <2>2, <2>3, <2>4 DEF Held
<1> HIDE DEF n
<1>10. \A o, x : Held(o, x) => x \in Ent /\ x # y
  BY DEF Claims, HeldIn
<1>11. HeldIn'
  BY <1>9, <1>10 DEF HeldIn
<1>12. HeldOnce'
  <2>1. ASSUME NEW o, NEW q, NEW x, Held(o, x)', Held(q, x)' PROVE o = q
    <3>1. (o = n /\ x = y) \/ Held(o, x)
      BY <1>9, <2>1
    <3>2. (q = n /\ x = y) \/ Held(q, x)
      BY <1>9, <2>1
    <3> QED
      BY <1>10, <3>1, <3>2 DEF Claims, HeldOnce
  <2> QED
    BY <2>1 DEF HeldOnce
<1>13. OldIn'
  <2>1. \A b : OldOf(Pend(todo'[c]), b) => \E e \in Ent' : e.base = b
    BY <1>1, <1>7 DEF Claims, OldIn
  <2>2. \A e \in Ent : e \in Ent'
    OBVIOUS
  <2> QED
    BY <1>1, <2>1, <2>2, OldRest DEF Claims
<1> QED
  BY <1>11, <1>12, <1>13 DEF Claims

(* After a step under the lock nobody waits to make the first list, unless  *)
(* that was put into its place.                                             *)
LEMMA NoFirstList ==
  ASSUME NEW c \in CPUs, NEW op, NEW M, View(c, op, M), op \in Guarded \ {"malloc2", "free2"},
         \A k \in M : k.op # "firstlist"
  PROVE  ~Due({"firstlist"})'
<1>1. {"firstlist"} \subseteq Rare
  BY DEF Rare
<1>2. \A k \in Rest(c) : k.op \in Calm
  BY DEF View
<1>3. ~\E k \in M \cup Rest(c) : k.op \in {"firstlist"}
  BY <1>2 DEF Calm
<1> QED
  BY <1>1, <1>3, AnyAfter

(* What malloc2 has just given is not yet in the list: two chunks of the    *)
(* heap do not begin at one address.                                        *)
LEMMA FreshEntry ==
  ASSUME OInv, TInv, ~damaged, \A j : ~Clearing(j), NEW c \in CPUs, NEW y \in Chunks,
         Own(Owner("step", c), y), NEW e \in Ent
  PROVE  e.base # y.base
<1>1. PICK j \in 1 .. Len(list.items) : list.items[j] = e /\ e.size # 0
  BY InEntries DEF Ent
<1>2. j \in DOMAIN list.items /\ e \in Chunks
  <2>1. list.items \in Seq(Chunks)
    BY DEF TInv, ListT
  <2> QED
    BY <1>1, <2>1, LenProperties
<1>3. Own(Owner("item", j), e)
  BY <1>1, <1>2 DEF Own, OwnThing
<1>4. e \in heap /\ y \in heap /\ Owned /\ Unique /\ Apart
  BY <1>3 DEF OInv, Owned
<1>5. e # y
  BY <1>3, <1>4, SameOwner DEF Unique
<1>6. ASSUME e.base = y.base PROVE FALSE
  <2>1. e.size > 0 /\ y.size > 0
    BY <1>4 DEF Apart
  <2>2. e.base \in Int /\ e.size \in Int /\ y.base \in Int /\ y.size \in Int
    BY <1>2 DEF Chunks
  <2>3. e.base \in ChunkBlocks(e) /\ e.base \in ChunkBlocks(y)
    BY <1>6, <2>1, <2>2 DEF ChunkBlocks, Blocks
  <2> QED
    BY <1>4, <1>5, <2>3 DEF Apart
<1> QED
  BY <1>6

(* malloc enters what malloc2 gave.                                         *)
LEMMA InsertC ==
  ASSUME ClaimInv, AgreeInv, OInv, TInv, ~fault, NEW c \in CPUs, Insert(c),
         View(c, "insert",
              IF Len(list'.items) > Len(list.items) /\ IsFull(Len(list'.items))
              THEN {Step("malloc2", NULL, ItemBlocks(2 * list.max)), Step("movelist", NULL, 0)}
              ELSE {})
  PROVE  ClaimInv'
<1> DEFINE h == Head(todo[c])
           y == Chunk(h.base, h.size)
           s == list.items
           t == WithEntry(s, y)
           k == Step("malloc2", NULL, ItemBlocks(2 * list.max))
           u == Step("movelist", NULL, 0)
           M == IF Len(list'.items) > Len(list.items) /\ IsFull(Len(list'.items)) THEN {k, u} ELSE {}
<1>1. StepsT /\ s \in Seq(Chunks) /\ list \in [base : Int, max : Nat, items : Seq(Chunks)]
  BY DEF TInv, ListT
<1>2. /\ UNCHANGED <<ret, live, damaged, forgotten, fault>> /\ list.base # NULL
      /\ list' = [list EXCEPT !.items = t]
  BY DEF Insert, historyVars, Chunk
<1>3. View(c, "insert", M)
  OBVIOUS
<1>4. k.op = "malloc2" /\ u.op = "movelist" /\ \A j \in M : j = k \/ j = u
  BY StepFields
<1>5. Own(Owner("step", c), y) /\ y \in Chunks /\ y.size # 0
  <2>1. h.op = "insert" /\ Legit(y, pages) /\ h.base = y.base
    BY <1>1, <1>3, HeadT DEF Chunk
  <2>2. h.base # NULL /\ y \in Chunks /\ y.size # 0
    BY <2>1 DEF Legit, NULL, Chunk, Chunks
  <2>3. Own(Owner("step", c), Load(h, list.max, infoMax))
    BY <1>3, <2>2, HeadOwns DEF Carriers
  <2> HIDE DEF h
  <2>4. Load(h, list.max, infoMax) = y
    BY <2>1 DEF Load
  <2> QED
    BY <2>2, <2>3, <2>4
<1> HIDE DEF k, u, M, t
<1>6. list'.items = t /\ list'.base = list.base
  BY <1>1, <1>2
<1> SUFFICES ASSUME ~damaged', ~forgotten'
             PROVE  ListInv' /\ Claims' /\ ~Due({"error"})'
  BY DEF ClaimInv
<1>7. ListInv /\ Claims /\ ~Due({"error"}) /\ ~damaged
  BY <1>2 DEF ClaimInv
<1>8. \A j : ~Clearing(j)
  BY <1>3, EndsOnly DEF Guarded
<1>9. \A e \in Ent : e.base # y.base
  BY <1>5, <1>7, <1>8, FreshEntry
<1>10. \A j \in M : j.op \in {"malloc2", "movelist"}
  BY <1>4
<1>11. Sorted(t) /\ \A e : e \in Ent' <=> e \in Ent \/ e = y
  <2>1. Ent = Entries(s) /\ Ent' = Entries(t) /\ Sorted(s)
    BY <1>6, <1>7 DEF Ent, ListInv
  <2> HIDE DEF y
  <2> QED
    BY <1>1, <1>5, <1>9, <2>1, EntryAdded DEF t
<1>12. Claims'
  <2>1. "insert" \in Makers
    BY DEF Makers
  <2> QED
    BY <1>2, <1>3, <1>7, <1>9, <1>10, <1>11, <2>1, AddedC
<1>13. ~Due({"error"})'
  BY <1>3, <1>7, <1>10, DueMore
<1>14. ~Due({"firstlist"})'
  BY <1>3, <1>10, NoFirstList DEF Guarded
<1>15. ListInv'
  BY <1>2, <1>6, <1>11, <1>14 DEF ListInv
<1> QED
  BY <1>12, <1>13, <1>15

(* The first list has one entry.                                            *)
LEMMA FirstListC ==
  ASSUME ClaimInv, AgreeInv, TInv, ~fault, NEW c \in CPUs, FirstList(c), View(c, "firstlist", {})
  PROVE  ClaimInv'
<1> DEFINE h == Head(todo[c])
           y == Chunk(h.base, h.size)
           items == <<y>>
           M == {}
<1>1. /\ UNCHANGED <<ret, live, damaged, forgotten>> /\ fault' = (ret[c] = NULL)
      /\ list' = [base |-> ret[c], max |-> InitItems, items |-> items]
  BY DEF FirstList, historyVars, Chunk
<1>2. View(c, "firstlist", M) /\ \A k \in M : FALSE
  OBVIOUS
<1>3. y.size # 0 /\ h \in Pend(todo[c]) /\ h.op = "firstlist"
  <2>1. StepsT
    BY DEF TInv
  <2>2. h.op = "firstlist" /\ Legit(y, pages) /\ h \in Pend(todo[c])
    BY <2>1, HeadT
  <2> QED
    BY <2>2 DEF Legit
<1>4. Len(items) = 1 /\ items[1] = y
  OBVIOUS
<1> SUFFICES ASSUME ~damaged', ~forgotten'
             PROVE  ListInv' /\ Claims' /\ ~Due({"error"})'
  BY DEF ClaimInv
<1>5. ListInv /\ Claims /\ ~Due({"error"})
  BY <1>1 DEF ClaimInv
<1> HIDE DEF items, M
<1>6. Due({"firstlist"})
  BY <1>3 DEF Due
<1>7. list.items = <<>>
  BY <1>5, <1>6 DEF ListInv
<1>8. Ent = {}
  <2>1. Len(list.items) = 0
    BY <1>7
  <2> QED
    BY <2>1, InEntries DEF Ent
<1>9. list'.items = items /\ list'.base = ret[c]
  BY <1>1
<1>10. \A e : e \in Ent' <=> e \in Ent \/ e = y
  <2>1. \A e : e \in Entries(items) <=> \E i \in 1 .. Len(items) : items[i] = e /\ e.size # 0
    BY InEntries
  <2>2. \A e : e \in Entries(items) <=> e = y
    <3> HIDE DEF y
    <3> QED
      BY <1>3, <1>4, <2>1
  <2> QED
    BY <1>8, <1>9, <2>2 DEF Ent
<1>11. Sorted(items)
  BY <1>4 DEF Sorted
<1>12. Claims'
  <2>1. "firstlist" \in Makers
    BY DEF Makers
  <2> QED
    BY <1>1, <1>2, <1>5, <1>8, <1>10, <2>1, AddedC
<1>13. ~Due({"error"})'
  BY <1>2, <1>5, DueMore
<1>14. ~Due({"firstlist"})'
  BY <1>2, NoFirstList DEF Guarded
<1>15. ~fault' => list'.base # NULL
  <2>1. ~fault' => ret[c] # NULL
    BY Zenon, <1>1
  <2> QED
    BY <1>9, <2>1
<1>16. ListInv'
  BY <1>9, <1>11, <1>14, <1>15 DEF ListInv
<1> QED
  BY <1>12, <1>13, <1>16

(* free clears the entry of the one that called it, and of nobody else.     *)
LEMMA ClearC ==
  ASSUME ClaimInv, TInv, ~fault, NEW c \in CPUs, Clear(c), View(c, "clear", {}),
         \A k \in Rest(c) : MayFollow("clear", k.op)
  PROVE  ClaimInv'
<1> DEFINE h == Head(todo[c])
           R == Rest(c)
           M == {}
           p == Owner("old", c)
<1>1. /\ h.op = "clear" /\ Pend(todo[c]) = {h} \cup R /\ Pend(todo'[c]) = R
      /\ \A d \in CPUs \ {c} : todo'[d] = todo[d]
  BY DEF View
<1>2. /\ UNCHANGED <<ret, live, damaged, forgotten, fault>>
      /\ list' = [list EXCEPT !.items[Closest(h.base)].size = 0]
  BY DEF Clear, historyVars
<1>3. ListT
  BY DEF TInv
<1>4. list' = [list EXCEPT !.items = [list.items EXCEPT ![Closest(h.base)].size = 0]]
  BY <1>2, <1>3 DEF ListT
<1>5. View(c, "clear", M) /\ \A j \in M : FALSE
  OBVIOUS
<1>6. \A k \in R : k.op = "return"
  BY DEF MayFollow
<1> SUFFICES ASSUME ~damaged', ~forgotten'
             PROVE  ListInv' /\ Claims' /\ ~Due({"error"})'
  BY DEF ClaimInv
<1>7. ListInv /\ Claims /\ ~Due({"error"})
  BY <1>2 DEF ClaimInv
<1> HIDE DEF h, R, M
<1>8. OldOf(Pend(todo[c]), h.base)
  BY <1>1 DEF OldOf, Olds
<1>9. PICK e \in Ent : e.base = h.base
  BY <1>7, <1>8 DEF Claims, OldIn
<1>10. /\ Sorted(list'.items) /\ list'.base = list.base
       /\ \A f : f \in Ent' <=> f \in Ent /\ f # e
  <2> DEFINE l == list'
  <2>1. Sorted(list.items) /\ e \in Entries(list.items)
    BY <1>7, <1>9 DEF Ent, ListInv
  <2>2. l = [list EXCEPT !.items = [list.items EXCEPT ![Closest(e.base)].size = 0]]
    BY <1>4, <1>9
  <2>3. Ent' = Entries(l.items) /\ Ent = Entries(list.items)
    BY DEF Ent
  <2> HIDE DEF l
  <2>4. /\ Sorted(l.items) /\ l.base = list.base
        /\ \A f : f \in Entries(l.items) <=> f \in Entries(list.items) /\ f # e
    BY <1>3, <2>1, <2>2, EntryCleared
  <2> QED
    BY <2>3, <2>4 DEF l
<1>11. Held(p, e)
  BY <1>8, <1>9 DEF Held, HeldBy
<1>12. /\ \A x : ~ResultOf(R, x)
       /\ \A x : ReturnOf(R, ret'[c], x) => ReturnOf(Pend(todo[c]), ret[c], x)
       /\ \A b : ~OldOf(R, b)
  BY <1>1, <1>2, <1>6 DEF ResultOf, ReturnOf, OldOf, Olds, Finals
<1>13. ASSUME NEW o, NEW x, Held(o, x)' PROVE Held(o, x) /\ o # p
  <2>1. \/ o = Owner("live", 0) /\ x \in live'
        \/ o = Owner("result", c) /\ ResultOf(R, x)
        \/ o = Owner("return", c) /\ ReturnOf(R, ret'[c], x)
        \/ o = Owner("old", c) /\ x \in Ent' /\ OldOf(R, x.base)
        \/ \E d \in CPUs \ {c} :
             \/ HeldBy(d, o, x)
             \/ o = Owner("old", d) /\ x \in Ent' /\ OldOf(Pend(todo[d]), x.base)
    BY <1>1, <1>2, <1>13, HeldSplit
  <2>2. CASE o = Owner("live", 0) /\ x \in live'
    BY <1>2, <2>2, SameOwner DEF Held
  <2>3. CASE o = Owner("return", c) /\ ReturnOf(R, ret'[c], x)
    BY <1>12, <2>3, SameOwner DEF Held, HeldBy
  <2>4. CASE \E d \in CPUs \ {c} :
               \/ HeldBy(d, o, x)
               \/ o = Owner("old", d) /\ x \in Ent' /\ OldOf(Pend(todo[d]), x.base)
    <3>1. PICK d \in CPUs \ {c} : HeldBy(d, o, x)
      BY <1>10, <2>4 DEF HeldBy
    <3>2. o # p
      BY <3>1, HeldTags
    <3> QED
      BY <3>1, <3>2 DEF Held
  <2> QED
    BY <1>12, <2>1, <2>2, <2>3, <2>4
<1>14. ASSUME NEW o, Held(o, e), o # p PROVE FALSE
  BY <1>7, <1>11, <1>14 DEF Claims, HeldOnce
<1>15. HeldIn'
  <2>1. ASSUME NEW o, NEW x, Held(o, x)' PROVE x \in Ent'
    <3>1. x \in Ent
      BY <1>7, <1>13, <2>1 DEF Claims, HeldIn
    <3> QED
      BY <1>10, <1>13, <1>14, <2>1, <3>1
  <2> QED
    BY <2>1 DEF HeldIn
<1>16. HeldOnce'
  BY <1>7, <1>13 DEF Claims, HeldOnce
<1>17. OldIn'
  <2>1. ASSUME NEW d \in CPUs \ {c}, OldOf(Pend(todo[d]), e.base) PROVE FALSE
    <3>1. Held(Owner("old", d), e)
      BY <1>9, <2>1 DEF Held, HeldBy
    <3>2. Owner("old", d) # p
      BY <2>1, SameOwner
    <3> QED
      BY <1>14, <3>1, <3>2
  <2>2. \A d \in CPUs \ {c} : \A b : OldOf(Pend(todo[d]), b) =>
          \A f \in Ent : f.base = b => f \in Ent'
    BY <1>10, <2>1
  <2>3. \A b : OldOf(Pend(todo'[c]), b) => \E f \in Ent' : f.base = b
    BY <1>1, <1>12
  <2> QED
    BY <1>1, <1>7, <2>2, <2>3, OldRest DEF Claims
<1>18. ~Due({"error"})'
  BY <1>5, <1>7, DueMore
<1>19. ~Due({"firstlist"})'
  BY <1>5, NoFirstList DEF Guarded
<1>20. ListInv'
  <2>1. list.base # NULL
    <3>1. list.base = NULL => Ent = {}
      <4>1. list.base = NULL => Len(list.items) = 0
        BY <1>7 DEF ListInv
      <4> QED
        BY <4>1, InEntries DEF Ent
    <3> QED
      BY <1>9, <3>1
  <2> QED
    BY <1>2, <1>10, <1>19, <2>1 DEF ListInv
<1> QED
  BY <1>15, <1>16, <1>17, <1>18, <1>20 DEF Claims

(* Every step that works keeps the claims.                                  *)
LEMMA WorkC ==
  ASSUME MemoryInv, OrderInv, AgreeInv, ClaimInv, ~fault, NEW c \in CPUs, Work(c)
  PROVE  ClaimInv'
<1>0. LockInv /\ LevelInv /\ ShapeInv /\ TInv /\ OInv
  BY DEF MemoryInv
<1>1. \A op, M : View(c, op, M) => \A k \in Rest(c) : MayFollow(op, k.op)
  BY <1>0, WorkOrder DEF View
<1>2. CASE DoMalloc2(c)
  BY <1>0, <1>2, WorkViews, MallocC
<1>3. CASE DoFree2(c)
  BY <1>0, <1>3, WorkViews, FreeC
<1>4. CASE Record(c)
  BY <1>0, <1>4, WorkViews, RecordC
<1>5. CASE InsertFirst(c)
  BY <1>0, <1>5, WorkViews, InsertFirstC
<1>6. CASE FirstList(c)
  BY <1>0, <1>6, WorkViews, FirstListC
<1>7. CASE Insert(c)
  BY <1>0, <1>7, WorkViews, InsertC
<1>8. CASE MoveList(c)
  BY <1>0, <1>8, WorkViews, MoveListC
<1>9. CASE SetList(c)
  BY <1>0, <1>9, WorkViews, SetListC
<1>10. CASE Result(c)
  <2>1. View(c, "result", {})
    BY <1>0, <1>10, WorkViews
  <2> QED
    BY <1>0, <1>1, <1>10, <2>1, ResultC
<1>11. CASE Return(c)
  <2>1. View(c, "return", {})
    BY <1>0, <1>11, WorkViews
  <2> QED
    BY <1>0, <1>1, <1>11, <2>1, ReturnC
<1>12. CASE Unlink(c)
  BY <1>0, <1>12, WorkViews, UnlinkC
<1>13. CASE Clear(c)
  <2>1. View(c, "clear", {})
    BY <1>0, <1>13, WorkViews
  <2> QED
    BY <1>0, <1>1, <1>13, <2>1, ClearC
<1>14. CASE Resize(c)
  BY <1>0, <1>14, WorkViews, ResizeC
<1>15. CASE Copymem(c)
  BY <1>0, <1>15, WorkViews, CopymemC
<1>16. ASSUME NEW op \in {"addpage", "moveinfo", "setinfo"}, NEW j, NEW k, NEW M,
              View(c, op, M), \A i \in M : i = j \/ i = k,
              j.op \in {"malloc2", "free2"}, k.op \in {"free2", "moveinfo", "setinfo"},
              UNCHANGED <<live, damaged, forgotten, list, ret>>
       PROVE  ClaimInv'
  <2>1. \A i \in M : i.op \in {"malloc2", "free2", "moveinfo", "setinfo"}
    BY <1>16
  <2> QED
    BY <1>1, <1>16, <2>1, PageC
<1>17. CASE AddTable(c)
  <2> DEFINE M == {}
             j == Step("free2", NULL, 0)
  <2>1. View(c, "addpage", M)
    BY <1>0, <1>17, WorkViews
  <2>3. (\A i \in M : i = j \/ i = j) /\ j.op = "free2"
    BY StepFields
  <2>2. UNCHANGED <<live, damaged, forgotten, list, ret>>
    BY <1>17 DEF AddTable, historyVars, mmVars
  <2> HIDE DEF M, j
  <2> QED
    BY <1>16, <2>1, <2>2, <2>3
<1>18. CASE AddPage(c)
  <2> DEFINE j == Step("malloc2", NULL, InfoBlocks(2 * infoMax))
             k == Step("moveinfo", NULL, 0)
             M == IF pages' >= infoMax THEN {j, k} ELSE {}
  <2>1. View(c, "addpage", M)
    BY <1>0, <1>18, WorkViews
  <2>2. j.op = "malloc2" /\ k.op = "moveinfo" /\ \A i \in M : i = j \/ i = k
    BY StepFields
  <2>3. UNCHANGED <<live, damaged, forgotten, list, ret>>
    BY <1>18 DEF AddPage, historyVars
  <2> HIDE DEF M, j, k
  <2> QED
    BY <1>16, <2>1, <2>2, <2>3
<1>19. CASE MoveInfo(c)
  <2> DEFINE j == Step("free2", infoBase, InfoBlocks(infoMax))
             k == Step("setinfo", ret[c], 0)
             M == {j, k}
  <2>1. View(c, "moveinfo", M)
    BY <1>0, <1>19, WorkViews
  <2>2. j.op = "free2" /\ k.op = "setinfo" /\ \A i \in M : i = j \/ i = k
    BY StepFields
  <2>3. UNCHANGED <<live, damaged, forgotten, list, ret>>
    BY <1>19 DEF MoveInfo, historyVars
  <2> HIDE DEF M, j, k
  <2> QED
    BY <1>16, <2>1, <2>2, <2>3
<1>20. CASE SetInfo(c)
  <2> DEFINE j == Step("free2", infoBase, InfoBlocks(infoMax))
             M == {j}
  <2>1. View(c, "setinfo", M)
    BY <1>0, <1>20, WorkViews
  <2>2. j.op = "free2" /\ \A i \in M : i = j \/ i = j
    BY StepFields
  <2>3. UNCHANGED <<live, damaged, forgotten, list, ret>>
    BY <1>20 DEF SetInfo, historyVars
  <2> HIDE DEF M, j
  <2> QED
    BY <1>16, <2>1, <2>2, <2>3
<1> QED
  BY <1>2, <1>3, <1>4, <1>5, <1>6, <1>7, <1>8, <1>9, <1>10, <1>11, <1>12, <1>13, <1>14, <1>15,
     <1>17, <1>18, <1>19, <1>20 DEF Work

(* What is due after a call was due before, or is part of the call.         *)
LEMMA DueBegins ==
  ASSUME NEW c \in CPUs, NEW M, Begins(c, M), NEW ops, Due(ops)'
  PROVE  (\E k \in M : k.op \in ops) \/ Due(ops)
<1>1. PICK d \in CPUs : \E k \in Pend(todo'[d]) : k.op \in ops
  BY DEF Due
<1>2. PICK k \in Pend(todo'[d]) : k.op \in ops
  BY <1>1
<1>3. CASE d = c
  BY <1>2, <1>3 DEF Begins
<1>4. CASE d # c
  BY <1>2, <1>4 DEF Begins, Due
<1> QED
  BY <1>3, <1>4

(* A caller that gives back x, or hands it to realloc, has it no more: the  *)
(* call has it.                                                             *)
LEMMA GivenC ==
  ASSUME ListInv, Claims, TInv, NEW c \in CPUs, NEW M, Begins(c, M), UNCHANGED <<list, ret>>,
         NEW x \in live, live' = live \ {x},
         \A k \in M : k.op # "result" /\ (k.op \in Olds => k.base = x.base),
         (\A k \in M : k.op # "return") \/ \E k \in M : k.op \notin Finals
  PROVE  Claims'
<1> DEFINE n == Owner("old", c)
           p == Owner("live", 0)
<1>1. Pend(todo'[c]) = M /\ \A d \in CPUs \ {c} : todo'[d] = todo[d] /\ ret'[d] = ret[d]
  BY DEF Begins
<1>2. Ent' = Ent
  BY DEF Ent
<1>3. Held(p, x) /\ x \in Ent
  BY DEF Held, Claims, HeldIn
<1>4. /\ \A y : ~ResultOf(M, y) /\ ~ReturnOf(M, ret'[c], y)
      /\ \A b : OldOf(M, b) => b = x.base
  BY DEF ResultOf, ReturnOf, OldOf
<1>5. ASSUME NEW y \in Ent, y.base = x.base PROVE y = x
  <2>1. list.items \in Seq(Chunks) /\ Sorted(list.items)
    BY DEF TInv, ListT, ListInv
  <2> QED
    BY <1>3, <1>5, <2>1, OneEntry DEF Ent
<1>6. p # n
  BY SameOwner
<1>7. ASSUME NEW o, NEW y, Held(o, y)'
      PROVE  (o = n /\ y = x) \/ (Held(o, y) /\ ~(o = p /\ y = x))
  <2>1. \/ o = Owner("live", 0) /\ y \in live'
        \/ o = Owner("result", c) /\ ResultOf(M, y)
        \/ o = Owner("return", c) /\ ReturnOf(M, ret'[c], y)
        \/ o = Owner("old", c) /\ y \in Ent' /\ OldOf(M, y.base)
        \/ \E d \in CPUs \ {c} :
             \/ HeldBy(d, o, y)
             \/ o = Owner("old", d) /\ y \in Ent' /\ OldOf(Pend(todo[d]), y.base)
    BY <1>1, <1>7, HeldSplit
  <2>2. CASE o = Owner("live", 0) /\ y \in live'
    BY <2>2 DEF Held
  <2>3. CASE o = Owner("old", c) /\ y \in Ent' /\ OldOf(M, y.base)
    BY <1>2, <1>4, <1>5, <2>3
  <2>4. CASE \E d \in CPUs \ {c} :
               \/ HeldBy(d, o, y)
               \/ o = Owner("old", d) /\ y \in Ent' /\ OldOf(Pend(todo[d]), y.base)
    <3>1. PICK d \in CPUs \ {c} : HeldBy(d, o, y)
      BY <1>2, <2>4 DEF HeldBy
    <3>2. o # p
      BY <3>1, HeldTags
    <3> QED
      BY <3>1, <3>2 DEF Held
  <2> QED
    BY <1>4, <2>1, <2>2, <2>3, <2>4
<1> HIDE DEF n, p
<1>8. HeldIn' /\ HeldOnce'
  BY <1>2, <1>3, <1>7, HeldPassed DEF Claims
<1>9. OldIn'
  <2>1. \A b : OldOf(Pend(todo'[c]), b) => \E e \in Ent' : e.base = b
    BY <1>1, <1>2, <1>3, <1>4
  <2> QED
    BY <1>1, <1>2, <2>1, OldRest DEF Claims
<1> QED
  BY <1>8, <1>9 DEF Claims

(* A call that is given nothing.                                            *)
LEMMA NewC ==
  ASSUME Claims, NEW c \in CPUs, NEW M, Begins(c, M), UNCHANGED <<list, ret, live>>,
         \A k \in M : k.op # "result" /\ k.op \notin Olds,
         (\A k \in M : k.op # "return") \/ \E k \in M : k.op \notin Finals
  PROVE  Claims'
<1>1. Pend(todo'[c]) = M /\ \A d \in CPUs \ {c} : Pend(todo'[d]) = Pend(todo[d]) /\ ret'[d] = ret[d]
  BY DEF Begins
<1>2. /\ \A y : ~ResultOf(M, y) /\ ~ReturnOf(M, ret'[c], y)
      /\ \A b : ~OldOf(M, b)
  BY DEF ResultOf, ReturnOf, OldOf
<1> QED
  BY <1>1, <1>2, ClaimsSame

(* The steps a call begins with agree.                                      *)
LEMMA BeginAgree ==
  ASSUME AgreeInv, NEW c \in CPUs, NEW M, Begins(c, M),
         \A j, k \in M : j.op \in Sized /\ k.op \in Sized => j.size = k.size,
         \A k \in M : k.op \notin Storing
  PROVE  AgreeInv'
<1>1. Pend(todo'[c]) = M /\ \A d \in CPUs \ {c} : todo'[d] = todo[d]
  BY DEF Begins
<1>2. Agreed(M)
  BY DEF Agreed, Storing
<1> QED
  BY <1>1, <1>2 DEF AgreeInv

(* The calls keep the claims.                                               *)
LEMMA CallC ==
  ASSUME MemoryInv, AgreeInv, ClaimInv, ~fault, NEW c \in CPUs, Call(c)
  PROVE  AgreeInv' /\ ClaimInv'
<1>0. LockInv /\ LevelInv /\ ShapeInv /\ TInv
  BY DEF MemoryInv
<1>1. UNCHANGED <<list, ret, damaged, forgotten, fault>>
  BY DEF Call, CallMalloc, CallFree, CallRealloc, CallAddPage, Calls, mmVars
<1>2. ASSUME NEW M, Begins(c, M), \A k \in M : k.op # "error" /\ k.op # "firstlist",
             ListInv /\ Claims => Claims'
      PROVE  ClaimInv'
  <2> SUFFICES ASSUME ~damaged', ~forgotten'
               PROVE  ListInv' /\ Claims' /\ ~Due({"error"})'
    BY DEF ClaimInv
  <2>1. ListInv /\ Claims /\ ~Due({"error"})
    BY <1>1 DEF ClaimInv
  <2>2. ~Due({"error"})' /\ (Due({"firstlist"})' => Due({"firstlist"}))
    BY <1>2, <2>1, DueBegins
  <2> QED
    BY <1>1, <1>2, <2>1, <2>2 DEF ListInv
<1>3. CASE \E n \in Sizes : CallMalloc(c, n)
  <2>1. PICK n \in Sizes : CallMalloc(c, n)
    BY <1>3
  <2> DEFINE k == Step("malloc2", NULL, n)
             u == Step("record", NULL, n)
             v == Step("return", NULL, n)
             M == {k, u, v}
  <2>2. Begins(c, M)
    BY <1>0, <2>1, CallViews
  <2>3. /\ k.op = "malloc2" /\ u.op = "record" /\ v.op = "return" /\ UNCHANGED live
        /\ u.size = n /\ v.size = n
    BY <2>1, StepFields DEF CallMalloc
  <2>4. (\A i \in M : i = k \/ i = u \/ i = v) /\ u \in M
    OBVIOUS
  <2> HIDE DEF k, u, v, M
  <2>5. /\ \A i \in M : i.op \in {"malloc2", "record", "return"} /\ (i.op # "malloc2" => i.size = n)
        /\ u \in M /\ u.op \notin Finals
    BY <2>3, <2>4 DEF Finals
  <2>6. AgreeInv'
    BY <2>2, <2>5, BeginAgree DEF Sized, Storing, Makers
  <2>7. Claims => Claims'
    BY <1>1, <2>2, <2>3, <2>5, NewC DEF Olds
  <2> QED
    BY <1>2, <2>2, <2>5, <2>6, <2>7
<1>4. CASE \E x \in live : CallFree(c, x)
  <2>1. PICK x \in live : CallFree(c, x)
    BY <1>4
  <2> DEFINE k == Step("unlink", x.base, 0)
             M == {k}
  <2>2. Begins(c, M)
    BY <1>0, <2>1, CallViews
  <2>3. k.op = "unlink" /\ k.base = x.base /\ live' = live \ {x}
    BY <2>1, StepFields DEF CallFree
  <2>4. \A i \in M : i = k
    OBVIOUS
  <2> HIDE DEF k, M
  <2>5. \A i \in M : i.op = "unlink" /\ i.base = x.base
    BY <2>3, <2>4
  <2>6. AgreeInv'
    BY <2>2, <2>5, BeginAgree DEF Sized, Storing, Makers
  <2>7. ListInv /\ Claims => Claims'
    BY <1>0, <1>1, <2>2, <2>3, <2>5, GivenC
  <2> QED
    BY <1>2, <2>2, <2>5, <2>6, <2>7
<1>5. CASE \E x \in live, n \in Sizes : CallRealloc(c, x, n)
  <2>1. PICK x \in live, n \in Sizes : CallRealloc(c, x, n)
    BY <1>5
  <2> DEFINE k == Step("resize", x.base, n)
             v == Step("return", NULL, n)
             M == {k, v}
  <2>2. Begins(c, M)
    BY <1>0, <2>1, CallViews
  <2>3. /\ k.op = "resize" /\ k.base = x.base /\ k.size = n /\ v.op = "return" /\ v.size = n
        /\ live' = live \ {x}
    BY <2>1, StepFields DEF CallRealloc
  <2>4. (\A i \in M : i = k \/ i = v) /\ k \in M
    OBVIOUS
  <2> HIDE DEF k, v, M
  <2>5. /\ \A i \in M : /\ i.op \in {"resize", "return"} /\ i.size = n
                        /\ i.op = "resize" => i.base = x.base
        /\ k \in M /\ k.op \notin Finals
    BY <2>3, <2>4 DEF Finals
  <2>6. AgreeInv'
    BY <2>2, <2>5, BeginAgree DEF Sized, Storing, Makers
  <2>7. \A i \in M : i.op # "result" /\ (i.op \in Olds => i.base = x.base)
    BY <2>5 DEF Olds
  <2>8. ListInv /\ Claims => Claims'
    BY <1>0, <1>1, <2>2, <2>3, <2>5, <2>7, GivenC
  <2> QED
    BY <1>2, <2>2, <2>5, <2>6, <2>8
<1>6. CASE CallAddPage(c)
  <2> DEFINE k == Step("addpage", NULL, 0)
             M == {k}
  <2>1. Begins(c, M)
    BY <1>0, <1>6, CallViews
  <2>2. k.op = "addpage" /\ UNCHANGED live /\ \A i \in M : i = k
    BY <1>6, StepFields DEF CallAddPage
  <2> HIDE DEF k, M
  <2>3. \A i \in M : i.op = "addpage"
    BY <2>2
  <2>4. AgreeInv'
    BY <2>1, <2>3, BeginAgree DEF Sized, Storing, Makers
  <2>5. Claims => Claims'
    BY <1>1, <2>1, <2>2, <2>3, NewC DEF Olds
  <2> QED
    BY <1>2, <2>1, <2>3, <2>4, <2>5
<1> QED
  BY <1>3, <1>4, <1>5, <1>6 DEF Call

(* A step that is no work keeps everything said of the steps and the list.  *)
LEMMA SameC ==
  ASSUME AgreeInv, ClaimInv, \A d \in CPUs : Pend(todo'[d]) = Pend(todo[d]),
         UNCHANGED <<list, ret, live, damaged, forgotten>>, fault => fault'
  PROVE  AgreeInv' /\ ClaimInv'
<1>1. AgreeInv'
  BY DEF AgreeInv
<1>2. \A ops : Due(ops)' <=> Due(ops)
  BY DEF Due
<1>3. Ent' = Ent
  BY DEF Ent
<1>4. ASSUME NEW o, NEW x PROVE Held(o, x)' <=> Held(o, x)
  <2>1. \A d \in CPUs : HeldBy(d, o, x)' <=> HeldBy(d, o, x)
    BY <1>3 DEF HeldBy
  <2> QED
    BY <2>1 DEF Held
<1>5. OldIn' <=> OldIn
  BY <1>3 DEF OldIn
<1>6. Claims => Claims'
  BY <1>3, <1>4, <1>5 DEF Claims, HeldIn, HeldOnce
<1>7. ListInv => ListInv'
  BY <1>2 DEF ListInv
<1> QED
  BY <1>1, <1>2, <1>6, <1>7 DEF ClaimInv

(* The inductive invariant of AllocList and its users.                      *)
FullInv == MemoryInv /\ OrderInv /\ AgreeInv /\ ClaimInv

(* After mmInit there is no entry, and no call under way.                   *)
LEMMA InitC == Init => OrderInv /\ AgreeInv /\ ClaimInv
<1> SUFFICES ASSUME Init PROVE OrderInv /\ AgreeInv /\ ListInv /\ Claims /\ ~Due({"error"})
  BY DEF ClaimInv
<1>1. \A c \in CPUs : todo[c] = <<>> /\ Pend(todo[c]) = {}
  BY EmptyForm DEF Init
<1>2. OrderInv
  BY <1>1, OrderParts DEF OrderInv
<1>3. AgreeInv
  BY <1>1 DEF AgreeInv, Agreed
<1>4. \A ops : ~Due(ops)
  BY <1>1 DEF Due
<1>5. list.items = <<>> /\ live = {}
  BY DEF Init
<1>6. ListInv
  <2>1. Len(list.items) = 0
    BY <1>5
  <2>2. Sorted(list.items)
    BY <2>1 DEF Sorted
  <2> QED
    BY <1>4, <1>5, <2>2 DEF ListInv
<1>7. \A o, x : ~Held(o, x)
  <2>1. \A c \in CPUs : \A o, x : ~HeldBy(c, o, x)
    BY <1>1 DEF HeldBy, ResultOf, ReturnOf, OldOf
  <2> QED
    BY <1>5, <2>1 DEF Held
<1>8. Claims
  BY <1>1, <1>7 DEF Claims, HeldIn, HeldOnce, OldIn, OldOf
<1> QED
  BY <1>2, <1>3, <1>4, <1>6, <1>8

(* Every step keeps the invariant of AllocList and its holders.             *)
LEMMA StepC ==
  ASSUME FullInv, [Next]_vars
  PROVE  FullInv'
<1>0. /\ MemoryInv /\ OrderInv /\ AgreeInv /\ ClaimInv
      /\ LockInv /\ LevelInv /\ ShapeInv
  BY DEF FullInv, MemoryInv
<1>1. MemoryInv' /\ LevelInv'
  BY <1>0, StepO DEF MemoryInv
<1>2. ASSUME NEW c \in CPUs, Lock(c) PROVE OrderInv' /\ AgreeInv' /\ ClaimInv'
  <2>1. \A d \in CPUs : Pend(todo'[d]) = Pend(todo[d])
    BY <1>0, <1>1, <1>2, LockView
  <2>2. UNCHANGED <<list, ret, live, damaged, forgotten, fault>>
    BY <1>2 DEF Lock, historyVars, mmVars
  <2> QED
    BY <1>0, <1>2, <2>1, <2>2, SameC, LockOrder
<1>3. ASSUME UNCHANGED vars \/ \E c \in CPUs : Overrun(c) PROVE OrderInv' /\ AgreeInv' /\ ClaimInv'
  <2>1. UNCHANGED <<todo, list, ret, live, damaged, forgotten>> /\ (fault => fault')
    BY <1>3 DEF Overrun, vars, historyVars, mmVars
  <2>2. OrderInv'
    BY <1>0, <2>1 DEF OrderInv
  <2> QED
    BY <1>0, <2>1, <2>2, SameC
<1>4. ASSUME ~fault, NEW c \in CPUs, Work(c) PROVE OrderInv' /\ AgreeInv' /\ ClaimInv'
  BY <1>0, <1>4, WorkOrder, WorkAgree, WorkC
<1>5. ASSUME ~fault, NEW c \in CPUs, Call(c) PROVE OrderInv' /\ AgreeInv' /\ ClaimInv'
  BY <1>0, <1>5, CallOrder, CallC
<1>6. OrderInv' /\ AgreeInv' /\ ClaimInv'
  BY <1>2, <1>3, <1>4, <1>5 DEF Next
<1> QED
  BY <1>1, <1>6 DEF FullInv

(* Beside the invariant of the memory: the steps of a call come in their    *)
(* order and agree on size and address; AllocList stays sorted; whatever a  *)
(* caller owns, or a call has entered and not yet returned, or was given to *)
(* free or realloc, is an entry of AllocList and is held by one of them     *)
(* only. An inductive invariant of malloc, free and realloc of mm.c.        *)
THEOREM ClaimInvariance == Spec => []FullInv
<1>1. Init => FullInv
  <2>1. Init => MemoryInv
    BY LockInit, LevelInit, InitT, InitO DEF Init, MemoryInv
  <2> QED
    BY <2>1, InitC DEF FullInv
<1>2. FullInv /\ [Next]_vars => FullInv'
  BY StepC
<1> QED
  BY <1>1, <1>2, PTL DEF Spec

(* As long as malloc2 found no last part in use and marked all, and         *)
(* AllocList was not replaced by NULL, free and realloc find every allocation a caller    *)
(* owns, with its size: through entries shifted, cleared and taken over by  *)
(* other CPUs, and through the moves of the list.                           *)
THEOREM AllocationsAreFound == Spec => []OwnedIsFound
<1>1. ASSUME FullInv PROVE OwnedIsFound
  <2> SUFFICES ASSUME ~damaged, ~forgotten, NEW x \in live
               PROVE  Found(x.base) /\ list.items[Closest(x.base)] = x
    BY DEF OwnedIsFound
  <2>1. ListInv /\ Claims /\ TInv
    BY <1>1 DEF FullInv, ClaimInv, MemoryInv
  <2>2. x \in Ent
    <3>1. Held(Owner("live", 0), x)
      BY DEF Held
    <3> QED
      BY <2>1, <3>1 DEF Claims, HeldIn
  <2>3. list.items \in Seq(Chunks) /\ Sorted(list.items)
    BY <2>1 DEF TInv, ListT, ListInv
  <2>4. Closest(x.base) \in 1 .. Len(list.items) /\ list.items[Closest(x.base)] = x
    BY <2>2, <2>3, FindsEntry DEF Ent, Closest
  <2>5. x.size # 0 /\ Len(list.items) \in Nat
    BY <2>2, <2>3, InEntries, LenProperties DEF Ent
  <2> QED
    BY <2>4, <2>5 DEF Found
<1>2. FullInv => OwnedIsFound
  BY <1>1
<1> QED
  BY <1>2, ClaimInvariance, PTL

(* Under the same condition realloc always finds what it is given, and      *)
(* csLeave is only called inside the section, so no CPU ends in one of the  *)
(* endless loops of realloc and csLeave.                                    *)
THEOREM NobodyHangs == Spec => []NoCPUHangs
<1>1. ASSUME FullInv PROVE NoCPUHangs
  <2> SUFFICES ASSUME ~damaged, ~forgotten, NEW c \in CPUs
               PROVE  at[c] # "hung" /\ (todo[c] = <<>> \/ Head(todo[c]).op # "error")
    BY DEF NoCPUHangs
  <2>1. LevelInv /\ ~Due({"error"})
    BY <1>1 DEF FullInv, ClaimInv, MemoryInv
  <2>2. at[c] # "hung" /\ IsSeq(todo[c])
    BY <2>1 DEF LevelInv, AtInv
  <2>3. ASSUME todo[c] # <<>>, Head(todo[c]).op = "error" PROVE FALSE
    <3>1. 1 \in DOMAIN todo[c] /\ Head(todo[c]) = todo[c][1]
      BY <2>2, <2>3, SeqParts
    <3>2. Head(todo[c]) \in Pend(todo[c])
      BY <2>3, <3>1, InPend DEF LockOps
    <3> QED
      BY <2>1, <2>3, <3>2 DEF Due
  <2> QED
    BY <2>2, <2>3
<1>2. FullInv => NoCPUHangs
  BY <1>1
<1> QED
  BY <1>2, ClaimInvariance, PTL
=============================================================================
