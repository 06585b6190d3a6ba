--------------------------- MODULE LocalBridgeProofs ---------------------------
(***************************************************************************)
(* Proofs about LocalBridge, for any number of connections and processes   *)
(* and any size of the handle counter.                                     *)
(***************************************************************************)
EXTENDS LocalBridge, FiniteSetTheorems, TLAPS

(* The goroutines that waitGroup counts.                                    *)
Active == {c \in Conns : conn[c] \in {"serving", "returning", "done"}}

(* Serve's bookkeeping: waitGroup counts the goroutines, and once the       *)
(* listener is closed nothing waits in its backlog.                         *)
ServeInv ==
  /\ waitGroup = Cardinality(Active)
  /\ listener = "closed" => \A c \in Conns : conn[c] # "pending"
  /\ serve \in {"waiting", "returned"} => listener = "closed"
  /\ serve = "returned" => Active = {}

(* A table is empty before its goroutine starts and after closeHandles.     *)
IdleInv ==
  \A c \in Conns : conn[c] \in {"none", "pending", "done", "closed"} => handles[c] = EmptyTable

(* Objects come into being one after the other.                             *)
FreshInv == \A o \in open : o < objects

(* Before the counter wraps, the numbers above it are unused.               *)
CounterInv ==
  \A c \in Conns : issued[c] <= MaxHandle =>
    /\ \A h \in Handles : h > issued[c] => handles[c][h] = None
    /\ issued[c] < MaxHandle => nextHandle[c] = issued[c] + 1

TableInv == FreshInv /\ CounterInv /\ NoUseAfterClose /\ HandleOwnsObject /\ NoLeak

IInv == TypeOK /\ ServeInv /\ IdleInv /\ TableInv
-----------------------------------------------------------------------------

LEMMA ReferencedDef ==
  ASSUME NEW o, NEW tables
  PROVE o \in ReferencedIn(tables) <=>
          \E c \in Conns, h \in Handles : o \in ObjectOf(tables[c][h])
  BY DEF ReferencedIn

(* Taking objects out of tables takes no handle's exclusive hold away.      *)
LEMMA OwnersShrink ==
  ASSUME NEW before, NEW after, OwnersIn(before),
         \A d \in Conns, h \in Handles : ObjectOf(after[d][h]) \subseteq ObjectOf(before[d][h])
  PROVE OwnersIn(after)
  BY DEF OwnersIn

LEMMA ObjectOfNone == ObjectOf(None) = {}
  BY DEF ObjectOf

(* The listings a backend may return are sequences of processes.            *)
LEMMA OrderingsType ==
  ASSUME NEW S \in SUBSET Pids, NEW f \in Orderings(S)
  PROVE f \in Seq(Pids)
  <1>1. IsFiniteSet(S)
    BY FS_Subset, PidsAssumption
  <1>2. Cardinality(S) \in Nat
    BY <1>1, FS_CardinalityType
  <1> QED
    BY <1>2 DEF Orderings

(* The numbers addHandle issues are handles.                                *)
LEMMA SuccessorType == \A n \in Handles : Successor(n) \in Handles
  BY MaxHandleAssumption DEF Handles, Successor

-----------------------------------------------------------------------------
LEMMA InitIInv == Init => IInv
  <1> SUFFICES ASSUME Init PROVE IInv
    OBVIOUS
  <1> USE DEF Init
  <1>1. EmptyTable \in [Handles -> ProcessEntry \cup SnapshotEntry \cup {None}]
    BY DEF EmptyTable
  <1>2. TypeOK
    BY <1>1, MaxHandleAssumption DEF TypeOK, Handles
  <1>3. Active = {}
    BY DEF Active
  <1>4. ServeInv
    BY <1>3, FS_EmptySet DEF ServeInv
  <1>5. \A c \in Conns, h \in Handles : handles[c][h] = None
    BY DEF EmptyTable
  <1>6. Referenced = {}
    BY <1>5, ObjectOfNone, ReferencedDef DEF Referenced
  <1>7. TableInv
    BY <1>5, <1>6, ObjectOfNone, MaxHandleAssumption
    DEF TableInv, FreshInv, CounterInv, NoUseAfterClose, HandleOwnsObject, OwnersIn, NoLeak
  <1> QED
    BY <1>2, <1>4, <1>7 DEF IInv, IdleInv

-----------------------------------------------------------------------------
(* What each kind of step does to the objects the tables lead to.           *)

(* addHandle changes one place, the one nextHandle names.                   *)
LEMMA AddHandleTable ==
  ASSUME TypeOK, NEW c \in Conns, NEW value, AddHandle(c, value)
  PROVE /\ nextHandle[c] \in Handles
        /\ handles'[c][nextHandle[c]] = value
        /\ \A d \in Conns, h \in Handles :
             (d # c \/ h # nextHandle[c]) => handles'[d][h] = handles[d][h]
        /\ issued' = [issued EXCEPT ![c] = @ + 1]
        /\ nextHandle' = [nextHandle EXCEPT ![c] = Successor(@)]
  BY DEF AddHandle, TypeOK

(* TypeOK, one step per action that touches a typed variable.               *)
LEMMA NextTypeOK ==
  ASSUME TypeOK, ServeInv, [Next]_vars
  PROVE TypeOK'
  <1> USE DEF TypeOK
  <1>1. ASSUME NEW c \in Conns, Connect(c) PROVE TypeOK'
    BY <1>1 DEF Connect, serverVars, tableVars, backendVars
  <1>2. ASSUME NEW c \in Conns, HangUp(c) PROVE TypeOK'
    BY <1>2 DEF HangUp, serverVars, tableVars, backendVars
  <1>3. ASSUME NEW c \in Conns, Accept(c) PROVE TypeOK'
    BY <1>3 DEF Accept, tableVars, backendVars
  <1>4. ASSUME NEW c \in Conns, Query(c) PROVE TypeOK'
    BY <1>4 DEF Query, Dispatch, Answer, serverVars, tableVars, backendVars
  <1>5. ASSUME NEW c \in Conns, Leave(c) PROVE TypeOK'
    BY <1>5 DEF Leave, Dispatch, serverVars, tableVars, backendVars
  <1>6. ASSUME NEW c \in Conns, NEW pid \in Pids, OpenProcess(c, pid) PROVE TypeOK'
    <2>1. [kind |-> "process", object |-> objects] \in ProcessEntry
      BY DEF ProcessEntry
    <2>2. handles' \in [Conns -> [Handles -> ProcessEntry \cup SnapshotEntry \cup {None}]]
      BY <1>6, <2>1 DEF OpenProcess, AddHandle
    <2>3. nextHandle' \in [Conns -> Handles] /\ issued' \in [Conns -> Nat]
      BY <1>6, SuccessorType DEF OpenProcess, AddHandle
    <2> QED
      BY <1>6, <2>2, <2>3 DEF OpenProcess, Dispatch, Answer, serverVars
  <1>7. ASSUME NEW c \in Conns, CreateSnapshot(c) PROVE TypeOK'
    <2>1. PICK list \in Orderings(running) :
            AddHandle(c, [kind |-> "snapshot", processes |-> list, index |-> -1])
      BY <1>7 DEF CreateSnapshot
    <2>2. [kind |-> "snapshot", processes |-> list, index |-> -1] \in SnapshotEntry
      BY OrderingsType DEF SnapshotEntry
    <2>3. handles' \in [Conns -> [Handles -> ProcessEntry \cup SnapshotEntry \cup {None}]]
      BY <2>1, <2>2 DEF AddHandle
    <2>4. nextHandle' \in [Conns -> Handles] /\ issued' \in [Conns -> Nat]
      BY <2>1, SuccessorType DEF AddHandle
    <2> QED
      BY <1>7, <2>3, <2>4 DEF CreateSnapshot, Dispatch, Answer, serverVars, backendVars
  <1>8. ASSUME NEW c \in Conns, NEW h \in Handles, NEW first \in BOOLEAN,
               Process32(c, h, first)
        PROVE TypeOK'
    <2>1. handles[c][h] \in SnapshotEntry
      BY <1>8 DEF Process32, IsSnapshot, Entry, ProcessEntry
    <2>2. NextIndex(first, handles[c][h]) \in Int
      BY <2>1 DEF NextIndex, SnapshotEntry
    <2>3. [handles[c][h] EXCEPT !.index = NextIndex(first, handles[c][h])] \in SnapshotEntry
      BY <2>1, <2>2 DEF SnapshotEntry
    <2>4. handles' \in [Conns -> [Handles -> ProcessEntry \cup SnapshotEntry \cup {None}]]
      BY <1>8, <2>3 DEF Process32
    <2> QED
      BY <1>8, <2>4 DEF Process32, Dispatch, Answer, serverVars, backendVars
  <1>9. ASSUME NEW c \in Conns, NEW h \in Handles, CloseHandleCommand(c, h) PROVE TypeOK'
    BY <1>9 DEF CloseHandleCommand, CloseHandle, Dispatch, Answer, serverVars
  <1>10. ASSUME NEW c \in Conns, ReadFails(c) PROVE TypeOK'
    BY <1>10 DEF ReadFails, serverVars, tableVars, backendVars
  <1>11. ASSUME NEW c \in Conns, CloseHandles(c) PROVE TypeOK'
    BY <1>11 DEF CloseHandles, EmptyTable, serverVars
  <1>12. ASSUME NEW c \in Conns, Done(c) PROVE TypeOK'
    <2>1. IsFiniteSet(Active) /\ c \in Active
      BY <1>12, FS_Subset, ConnsAssumption DEF Active, Done
    <2>2. waitGroup' \in Nat
      BY <1>12, <2>1, FS_EmptySet, FS_CardinalityType DEF Done, ServeInv
    <2> QED
      BY <1>12, <2>2 DEF Done, tableVars, backendVars
  <1>13. ASSUME NEW p \in Pids, ProcessChange(p) PROVE TypeOK'
    BY <1>13 DEF ProcessChange, serverVars, tableVars
  <1>14. CASE Serve
    BY <1>14 DEF Serve, CloseListener, AcceptClosed, AcceptFails, WaitReturns, tableVars, backendVars
  <1>15. CASE UNCHANGED vars
    BY <1>15 DEF vars, serverVars, tableVars, backendVars
  <1> QED
    BY <1>1, <1>2, <1>3, <1>4, <1>5, <1>6, <1>7, <1>8, <1>9, <1>10, <1>11, <1>12,
       <1>13, <1>14, <1>15
    DEF Next, Command, Return

-----------------------------------------------------------------------------
(* waitGroup counts the goroutines.                                         *)
LEMMA NextServeInv ==
  ASSUME TypeOK, ServeInv, [Next]_vars
  PROVE ServeInv'
  <1> USE DEF TypeOK, ServeInv
  <1>1. IsFiniteSet(Active)
    BY FS_Subset, ConnsAssumption DEF Active
  <1>2. ASSUME UNCHANGED <<waitGroup, listener, serve>>,
               \A c \in Conns : conn'[c] = conn[c] \/
                 (conn[c] \in {"serving", "returning"} /\ conn'[c] \in {"returning", "done"})
        PROVE ServeInv'
    <2>1. Active' = Active
      BY <1>2 DEF Active
    <2> QED
      BY <1>2, <2>1
  <1>3. ASSUME NEW c \in Conns, Connect(c) PROVE ServeInv'
    <2>1. Active' = Active
      BY <1>3 DEF Active, Connect
    <2> QED
      BY <1>3, <2>1 DEF Connect, serverVars
  <1>4. ASSUME NEW c \in Conns, Accept(c) PROVE ServeInv'
    <2>1. Active' = Active \cup {c} /\ c \notin Active
      BY <1>4 DEF Active, Accept
    <2>2. Cardinality(Active') = Cardinality(Active) + 1
      BY <1>1, <2>1, FS_AddElement
    <2> QED
      BY <1>4, <2>2 DEF Accept
  <1>5. ASSUME NEW c \in Conns, Done(c) PROVE ServeInv'
    <2>1. Active' = Active \ {c} /\ c \in Active
      BY <1>5 DEF Active, Done
    <2>2. Cardinality(Active') = Cardinality(Active) - 1
      BY <1>1, <2>1, FS_RemoveElement
    <2> QED
      BY <1>5, <2>1, <2>2 DEF Done
  <1>6. CASE Serve
    <2>1. Active' = Active
      BY <1>6 DEF Active, Serve, CloseListener, AcceptClosed, AcceptFails, WaitReturns
    <2>2. waitGroup = 0 => Active = {}
      BY <1>1, FS_EmptySet
    <2> QED
      BY <1>6, <2>1, <2>2 DEF Serve, CloseListener, AcceptClosed, AcceptFails, WaitReturns
  <1>7. ASSUME NEW c \in Conns, HangUp(c) \/ Command(c) \/ ReadFails(c) \/ CloseHandles(c)
        PROVE ServeInv'
    <2>1. UNCHANGED <<waitGroup, listener, serve>>
      BY <1>7 DEF HangUp, Command, Query, Leave, OpenProcess, CreateSnapshot, Process32,
                  CloseHandleCommand, Dispatch, ReadFails, CloseHandles, serverVars
    <2>2. \A d \in Conns : conn'[d] = conn[d] \/
            (conn[d] \in {"serving", "returning"} /\ conn'[d] \in {"returning", "done"})
      BY <1>7 DEF HangUp, Command, Query, Leave, OpenProcess, CreateSnapshot, Process32,
                  CloseHandleCommand, Dispatch, Answer, ReadFails, CloseHandles
    <2> QED
      BY <1>2, <2>1, <2>2
  <1>8. ASSUME NEW p \in Pids, ProcessChange(p) PROVE ServeInv'
    BY <1>2, <1>8 DEF ProcessChange, serverVars
  <1>9. CASE UNCHANGED vars
    BY <1>2, <1>9 DEF vars, serverVars
  <1> QED
    BY <1>3, <1>4, <1>5, <1>6, <1>7, <1>8, <1>9 DEF Next, Return

(* Only a serving goroutine has handles.                                    *)
LEMMA NextIdleInv ==
  ASSUME TypeOK, IdleInv, [Next]_vars
  PROVE IdleInv'
  <1> USE DEF TypeOK, IdleInv
  <1>1. ASSUME UNCHANGED handles,
               \A c \in Conns : conn'[c] \in {"none", "pending", "done", "closed"} =>
                                 conn[c] \in {"none", "pending", "done", "closed"}
        PROVE IdleInv'
    BY <1>1
  <1>2. ASSUME NEW c \in Conns,
               Connect(c) \/ HangUp(c) \/ Accept(c) \/ Query(c) \/ Leave(c) \/ ReadFails(c) \/ Done(c)
        PROVE IdleInv'
    <2>1. UNCHANGED handles
      BY <1>2 DEF Connect, HangUp, Accept, Query, Leave, ReadFails, Done, tableVars
    <2> QED
      BY <1>1, <1>2, <2>1 DEF Connect, HangUp, Accept, Query, Leave, Dispatch, Answer, ReadFails, Done
  <1>3. ASSUME NEW c \in Conns, NEW pid \in Pids, OpenProcess(c, pid) PROVE IdleInv'
    BY <1>3 DEF OpenProcess, AddHandle, Dispatch, Answer
  <1>4. ASSUME NEW c \in Conns, CreateSnapshot(c) PROVE IdleInv'
    BY <1>4 DEF CreateSnapshot, AddHandle, Dispatch, Answer
  <1>5. ASSUME NEW c \in Conns, NEW h \in Handles, NEW first \in BOOLEAN, Process32(c, h, first)
        PROVE IdleInv'
    BY <1>5 DEF Process32, Dispatch, Answer
  <1>6. ASSUME NEW c \in Conns, NEW h \in Handles, CloseHandleCommand(c, h) PROVE IdleInv'
    BY <1>6 DEF CloseHandleCommand, CloseHandle, Dispatch, Answer
  <1>7. ASSUME NEW c \in Conns, CloseHandles(c) PROVE IdleInv'
    BY <1>7 DEF CloseHandles
  <1>8. ASSUME NEW p \in Pids, ProcessChange(p) PROVE IdleInv'
    BY <1>1, <1>8 DEF ProcessChange, tableVars
  <1>9. CASE Serve
    BY <1>1, <1>9 DEF Serve, CloseListener, AcceptClosed, AcceptFails, WaitReturns, tableVars
  <1>10. CASE UNCHANGED vars
    BY <1>1, <1>10 DEF vars, tableVars
  <1> QED
    BY <1>2, <1>3, <1>4, <1>5, <1>6, <1>7, <1>8, <1>9, <1>10 DEF Next, Command, Return

-----------------------------------------------------------------------------
(* The tables and the objects behind them.                                  *)

(* A step that leaves every entry's object, every free place, the counters  *)
(* and the backend alone preserves TableInv.                                *)
LEMMA SameTable ==
  ASSUME TypeOK, TableInv,
         UNCHANGED <<issued, nextHandle, open, objects>>,
         \A c \in Conns, h \in Handles :
           /\ ObjectOf(handles'[c][h]) = ObjectOf(handles[c][h])
           /\ handles[c][h] = None => handles'[c][h] = None
  PROVE TableInv'
  <1>1. \A o : o \in Referenced' <=> o \in Referenced
    BY ReferencedDef DEF Referenced
  <1>2. HandleOwnsObject'
    BY DEF TableInv, HandleOwnsObject, OwnersIn
  <1>3. CounterInv'
    BY DEF TableInv, CounterInv
  <1> QED
    BY <1>1, <1>2, <1>3 DEF TableInv, FreshInv, NoUseAfterClose, NoLeak, Unwrapped

(* addHandle with an entry whose object, if any, is new and becomes open.   *)
LEMMA AddTable ==
  ASSUME TypeOK, TableInv, NEW c \in Conns, NEW value, AddHandle(c, value), value # None,
         \/ ObjectOf(value) = {} /\ UNCHANGED <<open, objects>>
         \/ /\ ObjectOf(value) = {objects}
            /\ open' = open \cup {objects}
            /\ objects' = objects + 1
  PROVE TableInv'
  <1> DEFINE n == nextHandle[c]
  <1>0. /\ FreshInv /\ CounterInv /\ NoUseAfterClose /\ NoLeak
        /\ OwnersIn(handles)
        /\ objects \in Nat /\ open \subseteq Nat
        /\ issued \in [Conns -> Nat] /\ nextHandle \in [Conns -> Handles]
    BY DEF TypeOK, TableInv, HandleOwnsObject
  <1>1. /\ n \in Handles
        /\ handles'[c][n] = value
        /\ \A d \in Conns, h \in Handles : (d # c \/ h # n) => handles'[d][h] = handles[d][h]
        /\ issued'[c] = issued[c] + 1
        /\ \A d \in Conns : d # c => issued'[d] = issued[d] /\ nextHandle'[d] = nextHandle[d]
        /\ nextHandle'[c] = Successor(n)
    BY <1>0, AddHandleTable
  <1>2. objects \notin open
    BY <1>0 DEF FreshInv
  <1>3. FreshInv'
    <2> SUFFICES ASSUME NEW o \in open' PROVE o < objects'
      BY DEF FreshInv
    <2>1. objects \in Nat /\ open \subseteq Nat
      BY <1>0
    <2>2. CASE o \in open
      <3>1. o \in Nat /\ o < objects
        BY <1>0, <2>1, <2>2 DEF FreshInv
      <3> QED
        BY <2>1, <3>1
    <2>3. CASE o \notin open
      <3>1. o = objects /\ objects' = objects + 1
        BY <2>3
      <3> QED
        BY <2>1, <3>1
    <2> QED
      BY <2>2, <2>3
  <1>4. CounterInv'
    <2> SUFFICES ASSUME NEW d \in Conns, issued'[d] <= MaxHandle
                 PROVE /\ \A h \in Handles : h > issued'[d] => handles'[d][h] = None
                       /\ issued'[d] < MaxHandle => nextHandle'[d] = issued'[d] + 1
      BY DEF CounterInv
    <2>1. CASE d # c
      BY <1>0, <1>1, <2>1 DEF CounterInv
    <2>2. CASE d = c
      <3>1. issued[c] \in Nat /\ issued[c] < MaxHandle /\ n = issued[c] + 1
        BY <1>0, <1>1, <2>2, MaxHandleAssumption DEF CounterInv
      <3>2. \A h \in Handles : h > issued[c] => handles[c][h] = None
        BY <1>0, <3>1, MaxHandleAssumption DEF CounterInv
      <3>3. \A h \in Handles : h > issued[c] + 1 => h > issued[c] /\ h # n
        BY <3>1 DEF Handles
      <3>4. \A h \in Handles : h > issued'[c] => handles'[c][h] = None
        BY <1>1, <3>2, <3>3
      <3> QED
        BY <1>1, <2>2, <3>1, <3>4, MaxHandleAssumption DEF Successor
    <2> QED
      BY <2>1, <2>2
  <1>5. \A d \in Conns, h \in Handles : ObjectOf(handles[d][h]) \subseteq open
    BY <1>0, ReferencedDef DEF NoUseAfterClose, Referenced
  <1>6. NoUseAfterClose'
    <2> SUFFICES ASSUME NEW o \in Referenced' PROVE o \in open'
      BY DEF NoUseAfterClose
    <2>1. PICK d \in Conns, h \in Handles : o \in ObjectOf(handles'[d][h])
      BY ReferencedDef DEF Referenced
    <2>2. CASE d = c /\ h = n
      BY <1>1, <2>1, <2>2
    <2>3. CASE d # c \/ h # n
      BY <1>1, <1>5, <2>1, <2>3
    <2> QED
      BY <2>2, <2>3
  <1>7. HandleOwnsObject'
    <2> SUFFICES ASSUME NEW d \in Conns, NEW e \in Conns, NEW h \in Handles, NEW k \in Handles,
                        NEW o, o \in ObjectOf(handles'[d][h]), o \in ObjectOf(handles'[e][k])
                 PROVE d = e /\ h = k
      BY DEF HandleOwnsObject, OwnersIn
    <2>1. CASE (d # c \/ h # n) /\ (e # c \/ k # n)
      <3>1. o \in ObjectOf(handles[d][h]) /\ o \in ObjectOf(handles[e][k])
        BY <1>1, <2>1
      <3> QED
        BY <1>0, <3>1, Zenon DEF OwnersIn
    <2>2. CASE (d # c \/ h # n) /\ e = c /\ k = n
      BY <1>1, <1>2, <1>5, <2>2
    <2>3. CASE d = c /\ h = n /\ (e # c \/ k # n)
      BY <1>1, <1>2, <1>5, <2>3
    <2> QED
      BY <2>1, <2>2, <2>3
  <1>8. NoLeak'
    <2> SUFFICES ASSUME Unwrapped', NEW o \in open' PROVE o \in Referenced'
      BY DEF NoLeak
    <2>1. Unwrapped /\ issued[c] < MaxHandle
      BY <1>0, <1>1, MaxHandleAssumption DEF Unwrapped
    <2>2. handles[c][n] = None
      BY <1>0, <1>1, <2>1, MaxHandleAssumption DEF CounterInv
    <2>3. CASE o \in open
      <3>1. PICK d \in Conns, h \in Handles : o \in ObjectOf(handles[d][h])
        BY <1>0, <2>1, <2>3, ReferencedDef DEF NoLeak, Referenced
      <3>2. d # c \/ h # n
        BY <2>2, <3>1, ObjectOfNone
      <3> QED
        BY <1>1, <3>1, <3>2, ReferencedDef DEF Referenced
    <2>4. CASE o \notin open
      <3>1. o \in ObjectOf(handles'[c][n])
        BY <1>1, <2>4
      <3> QED
        BY <1>1, <3>1, ReferencedDef DEF Referenced
    <2> QED
      BY <2>3, <2>4
  <1> QED
    BY <1>3, <1>4, <1>6, <1>7, <1>8 DEF TableInv

(* Emptying places of one table closes exactly the objects they lead to.    *)
LEMMA CloseTable ==
  ASSUME TypeOK, TableInv, NEW c \in Conns, NEW S \in SUBSET Handles,
         UNCHANGED <<issued, nextHandle, objects>>,
         \A h \in S : handles'[c][h] = None,
         \A d \in Conns, h \in Handles : (d # c \/ h \notin S) => handles'[d][h] = handles[d][h],
         open' = open \ UNION {ObjectOf(handles[c][h]) : h \in S}
  PROVE TableInv'
  <1>0. /\ FreshInv /\ CounterInv /\ NoUseAfterClose /\ NoLeak
        /\ OwnersIn(handles)
        /\ objects \in Nat /\ open \subseteq Nat
        /\ issued \in [Conns -> Nat] /\ nextHandle \in [Conns -> Handles]
    BY DEF TypeOK, TableInv, HandleOwnsObject
  <1>1. FreshInv' /\ CounterInv'
    BY <1>0 DEF FreshInv, CounterInv
  <1>2. \A d \in Conns, h \in Handles : ObjectOf(handles[d][h]) \subseteq open
    BY <1>0, ReferencedDef DEF NoUseAfterClose, Referenced
  <1>3. HandleOwnsObject'
    <2>1. \A d \in Conns, h \in Handles : ObjectOf(handles'[d][h]) \subseteq ObjectOf(handles[d][h])
      BY ObjectOfNone
    <2> QED
      BY <1>0, <2>1, OwnersShrink DEF HandleOwnsObject
  <1>4. NoUseAfterClose'
    <2> SUFFICES ASSUME NEW o \in Referenced' PROVE o \in open'
      BY DEF NoUseAfterClose
    <2>1. PICK d \in Conns, h \in Handles : o \in ObjectOf(handles'[d][h])
      BY ReferencedDef DEF Referenced
    <2>2. d # c \/ h \notin S
      BY <2>1, ObjectOfNone
    <2>3. o \in ObjectOf(handles[d][h])
      BY <2>1, <2>2
    <2>4. \A k \in S : o \notin ObjectOf(handles[c][k])
      <3> SUFFICES ASSUME NEW k \in S, o \in ObjectOf(handles[c][k]) PROVE FALSE
        OBVIOUS
      <3>1. k \in Handles /\ d = c /\ h = k
        BY <1>0, <2>3 DEF OwnersIn
      <3> QED
        BY <2>2, <3>1
    <2> QED
      BY <1>2, <2>3, <2>4
  <1>5. NoLeak'
    <2> SUFFICES ASSUME Unwrapped', NEW o \in open' PROVE o \in Referenced'
      BY DEF NoLeak
    <2>1. PICK d \in Conns, h \in Handles : o \in ObjectOf(handles[d][h])
      BY <1>0, ReferencedDef DEF NoLeak, Referenced, Unwrapped
    <2>2. d # c \/ h \notin S
      BY <2>1
    <2> QED
      BY <2>1, <2>2, ReferencedDef DEF Referenced
  <1> QED
    BY <1>1, <1>3, <1>4, <1>5 DEF TableInv

LEMMA NextTableInv ==
  ASSUME TypeOK, TableInv, [Next]_vars
  PROVE TableInv'
  <1>1. ASSUME UNCHANGED <<handles, issued, nextHandle, open, objects>> PROVE TableInv'
    BY <1>1, SameTable
  <1>2. ASSUME NEW c \in Conns,
               Connect(c) \/ HangUp(c) \/ Accept(c) \/ Query(c) \/ Leave(c) \/ ReadFails(c) \/ Done(c)
        PROVE TableInv'
    BY <1>1, <1>2 DEF Connect, HangUp, Accept, Query, Leave, ReadFails, Done, tableVars, backendVars
  <1>3. ASSUME NEW c \in Conns, NEW pid \in Pids, OpenProcess(c, pid) PROVE TableInv'
    <2> DEFINE value == [kind |-> "process", object |-> objects]
    <2>1. value # None
      BY NoneAssumption DEF TypeOK, ProcessEntry
    <2>2. ObjectOf(value) = {objects}
      BY <2>1 DEF ObjectOf
    <2> QED
      BY <1>3, <2>1, <2>2, AddTable DEF OpenProcess
  <1>4. ASSUME NEW c \in Conns, CreateSnapshot(c) PROVE TableInv'
    <2>1. PICK list \in Orderings(running) :
            AddHandle(c, [kind |-> "snapshot", processes |-> list, index |-> -1])
      BY <1>4 DEF CreateSnapshot
    <2> DEFINE value == [kind |-> "snapshot", processes |-> list, index |-> -1]
    <2>2. value \in SnapshotEntry
      BY OrderingsType DEF SnapshotEntry, TypeOK
    <2>3. value # None /\ ObjectOf(value) = {}
      BY <2>2, NoneAssumption DEF ObjectOf
    <2> QED
      BY <1>4, <2>1, <2>3, AddTable DEF CreateSnapshot, backendVars
  <1>5. ASSUME NEW c \in Conns, NEW h \in Handles, NEW first \in BOOLEAN, Process32(c, h, first)
        PROVE TableInv'
    <2>1. handles[c][h] \in SnapshotEntry /\ handles[c][h] # None
      BY <1>5 DEF Process32, IsSnapshot, Entry, ProcessEntry, TypeOK
    <2>2. handles'[c][h].kind = "snapshot"
      BY <1>5, <2>1 DEF Process32, SnapshotEntry, TypeOK
    <2>3. ObjectOf(handles[c][h]) = {} /\ ObjectOf(handles'[c][h]) = {}
      BY <2>1, <2>2 DEF ObjectOf, SnapshotEntry
    <2>4. \A d \in Conns, k \in Handles : (d # c \/ k # h) => handles'[d][k] = handles[d][k]
      BY <1>5 DEF Process32, TypeOK
    <2> QED
      BY <1>5, <2>1, <2>3, <2>4, SameTable DEF Process32, backendVars
  <1>6. ASSUME NEW c \in Conns, NEW h \in Handles, CloseHandleCommand(c, h) PROVE TableInv'
    <2>1. /\ handles'[c][h] = None
          /\ \A d \in Conns, k \in Handles : (d # c \/ k \notin {h}) => handles'[d][k] = handles[d][k]
      BY <1>6 DEF CloseHandleCommand, CloseHandle, TypeOK
    <2>2. open' = open \ UNION {ObjectOf(handles[c][k]) : k \in {h}}
      BY <1>6 DEF CloseHandleCommand, CloseHandle
    <2>3. UNCHANGED <<issued, nextHandle, objects>>
      BY <1>6 DEF CloseHandleCommand, CloseHandle
    <2>4. \A k \in {h} : handles'[c][k] = None
      BY <2>1
    <2> DEFINE S == {h}
    <2>5. S \in SUBSET Handles
      OBVIOUS
    <2> HIDE DEF S
    <2> QED
      BY <2>1, <2>2, <2>3, <2>4, <2>5, CloseTable DEF S
  <1>7. ASSUME NEW c \in Conns, CloseHandles(c) PROVE TableInv'
    <2>1. /\ \A h \in Handles : handles'[c][h] = None
          /\ \A d \in Conns, h \in Handles : (d # c \/ h \notin Handles) => handles'[d][h] = handles[d][h]
      BY <1>7 DEF CloseHandles, EmptyTable, TypeOK
    <2> QED
      BY <1>7, <2>1, CloseTable DEF CloseHandles
  <1>8. ASSUME NEW p \in Pids, ProcessChange(p) PROVE TableInv'
    BY <1>1, <1>8 DEF ProcessChange, tableVars
  <1>9. CASE Serve
    BY <1>1, <1>9 DEF Serve, CloseListener, AcceptClosed, AcceptFails, WaitReturns, tableVars, backendVars
  <1>10. CASE UNCHANGED vars
    BY <1>1, <1>10 DEF vars, tableVars, backendVars
  <1> QED
    BY <1>2, <1>3, <1>4, <1>5, <1>6, <1>7, <1>8, <1>9, <1>10 DEF Next, Command, Return

-----------------------------------------------------------------------------
(* The inductive invariant holds of every behaviour of the bridge.          *)
THEOREM Invariance == Spec => []IInv
  <1>1. IInv /\ [Next]_vars => IInv'
    BY NextTypeOK, NextServeInv, NextIdleInv, NextTableInv DEF IInv
  <1> QED
    BY InitIInv, <1>1, PTL DEF Spec

(* The variables of the bridge keep their types; in particular waitGroup    *)
(* never goes below zero, where sync.WaitGroup would panic.                 *)
THEOREM TypeCorrect == Spec => []TypeOK
  BY Invariance, PTL DEF IInv

(* No ProcessMemory the bridge opened is ever lost before a connection has  *)
(* issued 2^32 - 1 handles.                                                 *)
THEOREM NothingLeaks == Spec => []NoLeak
  BY Invariance, PTL DEF IInv, TableInv

(* No handle ever leads to a closed ProcessMemory, wrap or no wrap.         *)
THEOREM HandlesAreLive == Spec => []NoUseAfterClose
  BY Invariance, PTL DEF IInv, TableInv

(* A ProcessMemory has one handle on one connection.                        *)
THEOREM HandlesAreOwners == Spec => []HandleOwnsObject
  BY Invariance, PTL DEF IInv, TableInv

(* When Serve returns nil, every goroutine it started is over and has given *)
(* back its handles.                                                        *)
THEOREM ReturnIsClean == Spec => []CleanReturn
  <1>1. IInv => CleanReturn
    BY DEF IInv, ServeInv, IdleInv, CleanReturn, TypeOK, Active
  <1> QED
    BY <1>1, Invariance, PTL
=============================================================================
