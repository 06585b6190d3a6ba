------------------------------ MODULE LocalBridge ------------------------------
(***************************************************************************)
(* The loopback bridge of internal/localbridge/server.go: an accept loop   *)
(* (Server.Serve) that runs one goroutine per connection                   *)
(* (ServeConnection), each with its own table of handles                   *)
(* (connectionState) over one shared operating-system Backend.             *)
(*                                                                         *)
(* A goroutine's table is its own and it answers a command before it reads *)
(* the next one, so a whole command handler is one step, parameterised by  *)
(* the request; the accept loop, the goroutines, the peers and the system  *)
(* interleave.                                                             *)
(***************************************************************************)
EXTENDS Integers, FiniteSets, Sequences

CONSTANTS
  Conns,       \* TCP connections that may reach the bridge
  Pids,        \* processes of the machine
  MaxHandle,   \* largest handle number: 2^32 - 1 in the code (uint32)
  MaxIssued,   \* per connection: bound on the handles issued on it
  None         \* an empty place of a table

ASSUME ConnsAssumption == IsFiniteSet(Conns)
ASSUME PidsAssumption == IsFiniteSet(Pids)
ASSUME MaxHandleAssumption == MaxHandle \in Nat \ {0}
ASSUME MaxIssuedAssumption == MaxIssued \in [Conns -> Nat]

Handles == 1 .. MaxHandle

ProcessEntry == [kind : {"process"}, object : Nat]
SnapshotEntry == [kind : {"snapshot"}, processes : Seq(Pids), index : Int]

ASSUME NoneAssumption == None \notin ProcessEntry \cup SnapshotEntry

VARIABLES
  listener,    \* "open" or "closed"
  serve,       \* Server.Serve: "accepting", "waiting", "returned", "failed"
  waitGroup,   \* Server.waitGroup
  conn,        \* per connection: where its goroutine is
  peer,        \* per connection: "absent", "open" or "gone"
  handles,     \* connectionState.handles
  nextHandle,  \* connectionState.nextHandle
  issued,      \* history: handles addHandle has issued on the connection
  running,     \* processes the system runs now
  open,        \* ProcessMemory objects opened and not closed
  objects      \* number of ProcessMemory objects opened so far

serverVars == <<listener, serve, waitGroup>>
tableVars == <<handles, nextHandle, issued>>
backendVars == <<running, open, objects>>
vars == <<serverVars, conn, peer, tableVars, backendVars>>

EmptyTable == [h \in Handles |-> None]

Init ==
  /\ listener = "open"
  /\ serve = "accepting"
  /\ waitGroup = 0
  /\ conn = [c \in Conns |-> "none"]
  /\ peer = [c \in Conns |-> "absent"]
  /\ handles = [c \in Conns |-> EmptyTable]
  /\ nextHandle = [c \in Conns |-> 1]
  /\ issued = [c \in Conns |-> 0]
  /\ running = Pids
  /\ open = {}
  /\ objects = 0

-----------------------------------------------------------------------------
(* Peers: any client of the protocol; a peer may hang up at any time.       *)

Connect(c) ==
  /\ listener = "open"
  /\ conn[c] = "none"
  /\ conn' = [conn EXCEPT ![c] = "pending"]
  /\ peer' = [peer EXCEPT ![c] = "open"]
  /\ UNCHANGED <<serverVars, tableVars, backendVars>>

HangUp(c) ==
  /\ peer[c] = "open"
  /\ peer' = [peer EXCEPT ![c] = "gone"]
  /\ UNCHANGED <<serverVars, conn, tableVars, backendVars>>

(* The system: a process exits, or starts again under its pid.              *)
ProcessChange(p) ==
  /\ running' = IF p \in running THEN running \ {p} ELSE running \cup {p}
  /\ UNCHANGED <<serverVars, conn, peer, tableVars, open, objects>>

-----------------------------------------------------------------------------
(* Server.Serve                                                             *)

Accept(c) ==
  /\ serve = "accepting"
  /\ listener = "open"
  /\ conn[c] = "pending"
  /\ waitGroup' = waitGroup + 1
  /\ conn' = [conn EXCEPT ![c] = "serving"]
  /\ UNCHANGED <<listener, serve, peer, tableVars, backendVars>>

(* Whoever gave Serve its listener closes it, as server_test.go does: Serve *)
(* returns nil for that reason only.  The connections still in the backlog  *)
(* are reset.                                                               *)
CloseListener ==
  /\ listener = "open"
  /\ listener' = "closed"
  /\ conn' = [c \in Conns |-> IF conn[c] = "pending" THEN "closed" ELSE conn[c]]
  /\ UNCHANGED <<serve, waitGroup, peer, tableVars, backendVars>>

AcceptClosed ==
  /\ serve = "accepting"
  /\ listener = "closed"
  /\ serve' = "waiting"
  /\ UNCHANGED <<listener, waitGroup, conn, peer, tableVars, backendVars>>

(* Any other Accept error: Serve returns it at once, without waiting.       *)
AcceptFails ==
  /\ serve = "accepting"
  /\ listener = "open"
  /\ serve' = "failed"
  /\ UNCHANGED <<listener, waitGroup, conn, peer, tableVars, backendVars>>

(* Mutant: Serve returns without waitGroup.Wait.                            *)
WaitReturnsEarly ==
  /\ serve = "waiting"
  /\ serve' = "returned"
  /\ UNCHANGED <<listener, waitGroup, conn, peer, tableVars, backendVars>>

WaitReturns ==
  /\ serve = "waiting"
  /\ waitGroup = 0
  /\ serve' = "returned"
  /\ UNCHANGED <<listener, waitGroup, conn, peer, tableVars, backendVars>>

-----------------------------------------------------------------------------
(* connectionState                                                          *)

Entry(c, h) == IF h \in Handles THEN handles[c][h] ELSE None

IsSnapshot(c, h) == Entry(c, h) # None /\ Entry(c, h).kind = "snapshot"

(* Mutant: without the test for 0.                                          *)
SuccessorNoSkip(n) == IF n = MaxHandle THEN 0 ELSE n + 1

(* uint32 increment: past the largest number it becomes 0, which addHandle  *)
(* replaces by 1.                                                           *)
Successor(n) == IF n = MaxHandle THEN 1 ELSE n + 1

(* addHandle stores under nextHandle, whatever is there.                    *)
AddHandle(c, value) ==
  /\ issued[c] < MaxIssued[c]
  /\ handles' = [handles EXCEPT ![c][nextHandle[c]] = value]
  /\ nextHandle' = [nextHandle EXCEPT ![c] = Successor(@)]
  /\ issued' = [issued EXCEPT ![c] = @ + 1]

(* The object that deleting a table entry closes, as a set.                 *)
ObjectOf(entry) ==
  IF entry # None /\ entry.kind = "process" THEN {entry.object} ELSE {}

(* Mutant: the entry goes, the ProcessMemory is not closed.                 *)
CloseHandleForgets(c, h) ==
  /\ handles' = [handles EXCEPT ![c][h] = None]
  /\ UNCHANGED <<open, nextHandle, issued, running, objects>>

(* Mutant: the ProcessMemory is closed, the entry stays.                    *)
CloseHandleKeepsEntry(c, h) ==
  /\ open' = open \ ObjectOf(handles[c][h])
  /\ UNCHANGED <<tableVars, running, objects>>

(* closeHandle: delete the entry, then Close a ProcessMemory.               *)
CloseHandle(c, h) ==
  /\ handles' = [handles EXCEPT ![c][h] = None]
  /\ open' = open \ ObjectOf(handles[c][h])
  /\ UNCHANGED <<nextHandle, issued, running, objects>>

(* ServeConnection has read a request in full.                              *)
Dispatch(c) ==
  /\ conn[c] = "serving"
  /\ UNCHANGED <<serverVars, peer>>

(* Writing the answer: the loop goes on, or, once the peer is gone, the     *)
(* write may fail and the handler returns false.                            *)
Answer(c) ==
  \/ UNCHANGED conn
  \/ /\ peer[c] = "gone"
     /\ conn' = [conn EXCEPT ![c] = "returning"]

(* Commands that leave the table alone (version, ABI, paths, read, write,   *)
(* architecture, regions, connection name), and every refusal: a look-up or *)
(* a backend call that fails answers 0.                                     *)
Query(c) ==
  /\ Dispatch(c)
  /\ Answer(c)
  /\ UNCHANGED <<tableVars, backendVars>>

(* handleCommand returns false: closeConnection, an unknown command, a      *)
(* write or a name over its limit, or a request cut short by a hang-up.     *)
Leave(c) ==
  /\ Dispatch(c)
  /\ conn' = [conn EXCEPT ![c] = "returning"]
  /\ UNCHANGED <<tableVars, backendVars>>

(* Mutant: a ProcessMemory that is already open is handed out again.        *)
OpenProcessShares(c, pid) ==
  /\ Dispatch(c)
  /\ pid \in running
  /\ objects' = objects + 1
  /\ open' = open \cup {objects}
  /\ \E o \in open' : AddHandle(c, [kind |-> "process", object |-> o])
  /\ Answer(c)
  /\ UNCHANGED running

(* The backend opens a process that runs, or refuses (gone, no permission). *)
OpenProcess(c, pid) ==
  /\ Dispatch(c)
  /\ pid \in running
  /\ objects' = objects + 1
  /\ open' = open \cup {objects}
  /\ AddHandle(c, [kind |-> "process", object |-> objects])
  /\ Answer(c)
  /\ UNCHANGED running

(* The orders in which a backend may list a set of processes.               *)
Orderings(S) ==
  {f \in [1 .. Cardinality(S) -> S] : \A i, j \in DOMAIN f : f[i] = f[j] => i = j}

CreateSnapshot(c) ==
  /\ Dispatch(c)
  /\ \E list \in Orderings(running) :
       AddHandle(c, [kind |-> "snapshot", processes |-> list, index |-> -1])
  /\ Answer(c)
  /\ UNCHANGED backendVars

(* Process32First and Process32Next.  The index counts from 0; past the end *)
(* every value answers alike, so the model stops it there.                  *)
NextIndex(first, entry) ==
  IF first THEN 0
  ELSE IF entry.index < Len(entry.processes) THEN entry.index + 1
  ELSE entry.index

Process32(c, h, first) ==
  /\ Dispatch(c)
  /\ IsSnapshot(c, h)
  /\ handles' = [handles EXCEPT ![c][h].index = NextIndex(first, handles[c][h])]
  /\ Answer(c)
  /\ UNCHANGED <<nextHandle, issued, backendVars>>

CloseHandleCommand(c, h) ==
  /\ Dispatch(c)
  /\ Entry(c, h) # None
  /\ CloseHandle(c, h)
  /\ Answer(c)


(* Mutant: the loop goes on after a failed read.                            *)
ReadFailsIgnored(c) ==
  /\ conn[c] = "serving"
  /\ peer[c] = "gone"
  /\ UNCHANGED vars

(* io.ReadFull fails: the peer hung up.                                     *)
ReadFails(c) ==
  /\ conn[c] = "serving"
  /\ peer[c] = "gone"
  /\ conn' = [conn EXCEPT ![c] = "returning"]
  /\ UNCHANGED <<serverVars, peer, tableVars, backendVars>>

(* The deferred calls of ServeConnection, in the order they run:            *)
(* closeHandles, then connection.Close ...                                  *)
CloseHandles(c) ==
  /\ conn[c] = "returning"
  /\ handles' = [handles EXCEPT ![c] = EmptyTable]
  /\ open' = open \ UNION {ObjectOf(handles[c][h]) : h \in Handles}
  /\ conn' = [conn EXCEPT ![c] = "done"]
  /\ UNCHANGED <<serverVars, peer, nextHandle, issued, running, objects>>

(* Mutant: the goroutine ends without waitGroup.Done.                       *)
DoneMissing(c) ==
  /\ conn[c] = "done"
  /\ conn' = [conn EXCEPT ![c] = "closed"]
  /\ UNCHANGED <<serverVars, peer, tableVars, backendVars>>

(* ... and waitGroup.Done of the goroutine Serve started.                   *)
Done(c) ==
  /\ conn[c] = "done"
  /\ conn' = [conn EXCEPT ![c] = "closed"]
  /\ waitGroup' = waitGroup - 1
  /\ UNCHANGED <<listener, serve, peer, tableVars, backendVars>>

-----------------------------------------------------------------------------
Command(c) ==
  \/ Query(c)
  \/ Leave(c)
  \/ \E pid \in Pids : OpenProcess(c, pid)
  \/ CreateSnapshot(c)
  \/ \E h \in Handles, first \in BOOLEAN : Process32(c, h, first)
  \/ \E h \in Handles : CloseHandleCommand(c, h)

Return(c) == ReadFails(c) \/ CloseHandles(c) \/ Done(c)

Serve == CloseListener \/ AcceptClosed \/ AcceptFails \/ WaitReturns

Next ==
  \/ \E c \in Conns : Connect(c) \/ HangUp(c) \/ Accept(c) \/ Command(c) \/ Return(c)
  \/ \E p \in Pids : ProcessChange(p)
  \/ Serve

(* The Go scheduler runs a goroutine that can return until Serve fails,     *)
(* when the program exits; peers and the system owe nothing.                *)
Fairness ==
  /\ \A c \in Conns : WF_vars(serve # "failed" /\ Return(c))
  /\ WF_vars(AcceptClosed)
  /\ WF_vars(WaitReturns)

Spec == Init /\ [][Next]_vars
FairSpec == Spec /\ Fairness

-----------------------------------------------------------------------------
TypeOK ==
  /\ listener \in {"open", "closed"}
  /\ serve \in {"accepting", "waiting", "returned", "failed"}
  /\ waitGroup \in Nat
  /\ conn \in [Conns -> {"none", "pending", "serving", "returning", "done", "closed"}]
  /\ peer \in [Conns -> {"absent", "open", "gone"}]
  /\ handles \in [Conns -> [Handles -> ProcessEntry \cup SnapshotEntry \cup {None}]]
  /\ nextHandle \in [Conns -> Handles]
  /\ issued \in [Conns -> Nat]
  /\ running \subseteq Pids
  /\ objects \in Nat
  /\ open \subseteq Nat

(* The ProcessMemory objects the tables lead to.                            *)
ReferencedIn(tables) == UNION {ObjectOf(tables[c][h]) : c \in Conns, h \in Handles}
Referenced == ReferencedIn(handles)

(* No connection has issued more handles than there are handle numbers.     *)
Unwrapped == \A c \in Conns : issued[c] <= MaxHandle

(* An object the bridge opened stays reachable through a handle until it is *)
(* closed, whatever the peers do and whenever they hang up: as long as no   *)
(* connection has wrapped its uint32 counter, nothing leaks.                *)
NoLeak == Unwrapped => open \subseteq Referenced

(* No handle leads to an object that was closed, even past the wrap.        *)
NoUseAfterClose == Referenced \subseteq open

(* Two handles never lead to one object, on one connection or on two, so    *)
(* closing one handle cannot close an object another one still uses.        *)
OwnersIn(tables) ==
  \A c, d \in Conns : \A h, k \in Handles : \A o \in ObjectOf(tables[c][h]) :
    o \in ObjectOf(tables[d][k]) => (c = d /\ h = k)
HandleOwnsObject == OwnersIn(handles)

(* Serve returns nil only after every goroutine it started has closed all   *)
(* its handles.                                                             *)
CleanReturn ==
  serve = "returned" =>
    \A c \in Conns : conn[c] \in {"none", "closed"} /\ handles[c] = EmptyTable

(* A peer that disappears, even inside a request, releases its handles.     *)
HangUpReleases ==
  \A c \in Conns : (peer[c] = "gone") ~> (handles[c] = EmptyTable \/ serve = "failed")

(* Once the listener is closed and the peers are gone, Serve returns.       *)
ServeReturns ==
  (listener = "closed" /\ \A c \in Conns : peer[c] # "open")
    ~> serve \in {"returned", "failed"}
=============================================================================
