------------------------------- MODULE HandleList -------------------------------
(***************************************************************************)
(* The handle list of ceserver (porthelp.c) and the operations that make,  *)
(* share and free what it points to: OpenProcess, snapshots, OpenPipe,     *)
(* CloseHandle and CloseAllPipes (api.c).                                  *)
(*                                                                         *)
(* One list serves every connection.  ceserver runs a thread per           *)
(* connection and takes no lock here, so an operation is a sequence of     *)
(* steps that other threads' steps may separate: each step below is one    *)
(* access to the list or to an object of the heap.                         *)
(***************************************************************************)
EXTENDS Integers, Sequences, FiniteSets

CONSTANTS
  Threads,     \* connection threads
  Pids,        \* processes that can be opened
  InitialMax,  \* places of the first list: 256 in the code, place 0 unused
  MaxGrowths,  \* bound on the times the list is enlarged
  MaxObjects,  \* bound on the objects ever allocated
  MaxHeld,     \* bound on the handles one connection holds
  Entries,     \* entries of a snapshot
  MaxLost,     \* bound on the connections that end with handles unclosed
  Overlap      \* TRUE: commands that open or close may run at the same time

ASSUME InitialMaxAssumption == InitialMax \in Nat \ {0}
ASSUME BoundsAssumption == /\ MaxGrowths \in Nat /\ MaxObjects \in Nat
                           /\ MaxHeld \in Nat /\ MaxLost \in Nat /\ Entries \in Nat
ASSUME ThreadsAssumption == IsFiniteSet(Threads)
ASSUME OverlapAssumption == Overlap \in BOOLEAN

(* What a handle stands for: a process, or the snapshot or the connection   *)
(* to a named pipe that a client made.                                      *)
Kinds == {"process", "snapshot", "pipe"}
Keys == Pids \cup Threads \cup {"none"}

Entry == [type : Kinds \cup {"empty"}, ptr : 0 .. MaxObjects]
Object == [kind : Kinds, key : Keys, refs : Nat, iterator : 0 .. Entries, live : BOOLEAN]

(* seen counts the entries of a snapshot the client has been sent, to one   *)
(* more than there are.                                                     *)
Held == [handle : Nat, kind : Kinds, key : Keys, seen : 0 .. Entries + 1]

VARIABLES
  list,    \* HandleList[1 .. HandleList_max - 1]
  heap,    \* the objects allocated so far, freed ones too
  pc,      \* per thread: the step it is at
  reg,     \* per thread: its local variables (handle, object, what to open)
  held,    \* per connection: the handles it was given and has not closed
  up,      \* the connections there are; the code counts them in `connections`
  grown,   \* history: times the list was enlarged
  lost,    \* history: connections that ended with handles unclosed
  overlapped,  \* history: commands have clashed, see Clash
  fault    \* undefined behaviour met: "none", "freed", "null" or "mistaken"

vars == <<list, heap, pc, reg, held, up, grown, lost, overlapped, fault>>

Steps == {"idle", "search", "addRef", "alloc", "find", "grow", "storePointer",
          "storeType", "firstModule", "unref", "free", "remove"}

(* HandleList_max                                                           *)
Max == Len(list) + 1

EmptyEntry == [type |-> "empty", ptr |-> 0]
EmptyList(max) == [i \in 1 .. max - 1 |-> EmptyEntry]

NoRegister == [handle |-> 0, object |-> 0, kind |-> "process", key |-> "none"]

Init ==
  /\ list = EmptyList(InitialMax)
  /\ heap = <<>>
  /\ pc = [t \in Threads |-> "idle"]
  /\ reg = [t \in Threads |-> NoRegister]
  /\ held = [t \in Threads |-> <<>>]
  /\ up = {}
  /\ grown = 0
  /\ lost = 0
  /\ overlapped = FALSE
  /\ fault = "none"

-----------------------------------------------------------------------------
(* The first of a set of places of the list, or 0.                          *)
First(places) ==
  IF places = {} THEN 0 ELSE CHOOSE i \in places : \A j \in places : i <= j

IsEmpty(i) == list[i].type = "empty"
FirstEmpty == First({i \in DOMAIN list : IsEmpty(i)})

(* GetHandleType                                                            *)
TypeOf(h) == IF h \in DOMAIN list THEN list[h].type ELSE "empty"

(* The object a place of the list leads to.                                 *)
Target(i) == heap[list[i].ptr]

At(t, step) == fault = "none" /\ pc[t] = step
Goto(t, step) == pc' = [pc EXCEPT ![t] = step]

(* The operation is over and its local variables are gone.                  *)
Finish(t) == Goto(t, "idle") /\ reg' = [reg EXCEPT ![t] = NoRegister]

Quiet == \A t \in Threads : pc[t] = "idle"

(* Nothing keeps the commands of two connections apart.  Those that open or *)
(* close a handle take several steps, and what such a command read may not  *)
(* be so any more when it writes: `overlapped` notes that one started while *)
(* another one ran.                                                         *)
Clash(c) == (c => Overlap) /\ overlapped' = IF c THEN TRUE ELSE overlapped
Start(t) == t \in up /\ At(t, "idle")
StartChange(t) == Start(t) /\ Clash(~Quiet)

(* A command that only uses a handle clashes with nothing, as long as the   *)
(* list has not been enlarged and the handle is the connection's own.       *)
StartUse(t) == Start(t) /\ Clash(~Quiet /\ grown # 0)

(* The answer carries the handle: the connection holds it from now on.      *)
Return(t, h) ==
  /\ Finish(t)
  /\ held' = [held EXCEPT ![t] =
                Append(@, [handle |-> h, kind |-> reg[t].kind, key |-> reg[t].key, seen |-> 0])]

(* What following a pointer to object o, 0 for NULL, does.                  *)
Access(o) == IF o = 0 THEN "null" ELSE IF heap[o].live THEN "none" ELSE "freed"

(* GetPointerFromHandle                                                     *)
Pointer(h) == IF TypeOf(h) = "empty" THEN 0 ELSE list[h].ptr

-----------------------------------------------------------------------------
(* OpenProcess                                                              *)

OpenProcess(t, p) ==
  /\ StartChange(t)
  /\ Len(held[t]) < MaxHeld
  /\ Goto(t, "search")
  /\ reg' = [reg EXCEPT ![t] = [NoRegister EXCEPT !.key = p]]
  /\ UNCHANGED <<list, heap, held, up, grown, lost, fault>>

(* SearchHandleListProcessCallback                                          *)
IsProcessOf(i, p) == list[i].type = "process" /\ Target(i).key = p

(* Mutant: the process is taken to be unknown.                              *)
SearchNever(t) ==
  /\ At(t, "search")
  /\ Goto(t, "alloc")
  /\ UNCHANGED <<list, heap, reg, held, up, grown, lost, overlapped, fault>>

(* SearchHandleList, which reads the pid of every process on its way.       *)
Search(t) ==
  LET h == First({i \in DOMAIN list : IsProcessOf(i, reg[t].key)})
      read == {i \in DOMAIN list : list[i].type = "process" /\ (h = 0 \/ i <= h)}
  IN
  /\ At(t, "search")
  /\ fault' = IF \E i \in read : ~Target(i).live THEN "freed" ELSE "none"
  /\ reg' = [reg EXCEPT ![t] = [@ EXCEPT !.handle = h]]
  /\ Goto(t, IF h = 0 THEN "alloc" ELSE "addRef")
  /\ UNCHANGED <<list, heap, held, up, grown, lost, overlapped>>

(* Mutant: the process is shared and its ReferenceCount stays.              *)
AddRefMissing(t) ==
  /\ At(t, "addRef")
  /\ Return(t, reg[t].handle)
  /\ UNCHANGED <<list, heap, up, grown, lost, overlapped, fault>>

(* GetPointerFromHandle and ReferenceCount++ on the handle just found.      *)
AddRef(t) ==
  LET o == Pointer(reg[t].handle) IN
  /\ At(t, "addRef")
  /\ fault' = Access(o)
  /\ heap' = IF fault' = "none"
             THEN [heap EXCEPT ![o] = [@ EXCEPT !.refs = heap[o].refs + 1]] ELSE heap
  /\ Return(t, reg[t].handle)
  /\ UNCHANGED <<list, up, grown, lost, overlapped>>

(* A pipe has no ReferenceCount.                                            *)
NewObject(t) ==
  [kind |-> reg[t].kind, key |-> reg[t].key, refs |-> IF reg[t].kind = "pipe" THEN 0 ELSE 1,
   iterator |-> 0, live |-> TRUE]

(* Mutant: ReferenceCount is left 0.                                        *)
AllocUncounted(t) ==
  /\ At(t, "alloc")
  /\ Len(heap) < MaxObjects
  /\ heap' = Append(heap, [NewObject(t) EXCEPT !.refs = 0])
  /\ reg' = [reg EXCEPT ![t] = [@ EXCEPT !.object = Len(heap) + 1]]
  /\ Goto(t, "find")
  /\ UNCHANGED <<list, held, up, grown, lost, overlapped, fault>>

(* malloc of a ProcessData, of a snapshot or of a PipeData ...              *)
Alloc(t) ==
  /\ At(t, "alloc")
  /\ Len(heap) < MaxObjects
  /\ heap' = Append(heap, NewObject(t))
  /\ reg' = [reg EXCEPT ![t] = [@ EXCEPT !.object = Len(heap) + 1]]
  /\ Goto(t, "find")
  /\ UNCHANGED <<list, held, up, grown, lost, overlapped, fault>>

(* ... or chdir to /proc/<pid> fails, the maps or the task directory of a   *)
(* process are not opened, or no connect succeeds before the timeout, and   *)
(* OpenProcess, CreateToolhelp32Snapshot or OpenPipe returns 0.             *)
AllocFails(t) ==
  /\ At(t, "alloc")
  /\ Finish(t)
  /\ UNCHANGED <<list, heap, held, up, grown, lost, overlapped, fault>>

(* The client gets an object of its own.                                    *)
CreateOwn(t, kind) ==
  /\ StartChange(t)
  /\ Len(held[t]) < MaxHeld
  /\ Goto(t, "alloc")
  /\ reg' = [reg EXCEPT ![t] = [NoRegister EXCEPT !.kind = kind, !.key = t]]
  /\ UNCHANGED <<list, heap, held, up, grown, lost, fault>>

(* CreateToolhelp32Snapshot, of processes, modules or threads               *)
CreateSnapshot(t) == CreateOwn(t, "snapshot")

(* A snapshot of modules opens its process first and closes it again, taken *)
(* here as one step.  That leaves the list as it was, also when the process *)
(* was open and its ReferenceCount went up and down; but one that was not   *)
(* open needs a place of its own and one for the snapshot of its first      *)
(* module, and with fewer places free the list is enlarged.                 *)
ModuleProcess(t, p) ==
  /\ At(t, "alloc")
  /\ reg[t].kind = "snapshot"
  /\ ~\E i \in DOMAIN list : IsProcessOf(i, p)
  /\ \A i, j \in DOMAIN list : IsEmpty(i) /\ IsEmpty(j) => i = j
  /\ grown < MaxGrowths
  /\ grown' = grown + 1
  /\ list' = EmptyList(2 * Max)
  /\ UNCHANGED <<heap, pc, reg, held, up, lost, overlapped, fault>>

OpenPipe(t) == CreateOwn(t, "pipe")

-----------------------------------------------------------------------------
(* CreateHandleFromPointer                                                  *)

Find(t) ==
  /\ At(t, "find")
  /\ reg' = [reg EXCEPT ![t] = [@ EXCEPT !.handle = FirstEmpty]]
  /\ Goto(t, IF FirstEmpty = 0 THEN "grow" ELSE "storePointer")
  /\ UNCHANGED <<list, heap, held, up, grown, lost, overlapped, fault>>

StorePointer(t) ==
  /\ At(t, "storePointer")
  /\ list' = [list EXCEPT ![reg[t].handle] = [@ EXCEPT !.ptr = reg[t].object]]
  /\ Goto(t, "storeType")
  /\ UNCHANGED <<heap, reg, held, up, grown, lost, overlapped, fault>>

(* A process goes on to its first module; a snapshot or a pipe is returned. *)
Created(t, h) ==
  \/ /\ reg[t].kind = "process"
     /\ reg' = [reg EXCEPT ![t] = [@ EXCEPT !.handle = h]]
     /\ Goto(t, "firstModule")
     /\ UNCHANGED held
  \/ reg[t].kind # "process" /\ Return(t, h)

StoreType(t) ==
  /\ At(t, "storeType")
  /\ list' = [list EXCEPT ![reg[t].handle] = [@ EXCEPT !.type = reg[t].kind]]
  /\ Created(t, reg[t].handle)
  /\ UNCHANGED <<heap, up, grown, lost, overlapped, fault>>

(* The list is doubled.  memcpy is given the size of a size, so nothing of  *)
(* the old list but the start of its unused place 0 is copied.              *)
Grow(t) ==
  /\ At(t, "grow")
  /\ grown < MaxGrowths
  /\ grown' = grown + 1
  /\ list' = [EmptyList(2 * Max) EXCEPT ![Max] = [type |-> reg[t].kind, ptr |-> reg[t].object]]
  /\ Created(t, Max)
  /\ UNCHANGED <<heap, up, lost, overlapped, fault>>

(* OpenProcess makes a snapshot of the first module and closes it again.    *)
(* The list is left as it was, unless that handle was one too many; when    *)
(* the snapshot cannot be made it has no handle.                            *)
FirstModule(t) ==
  /\ At(t, "firstModule")
  /\ \/ UNCHANGED <<list, grown>>
     \/ /\ FirstEmpty = 0
        /\ grown < MaxGrowths
        /\ grown' = grown + 1
        /\ list' = EmptyList(2 * Max)
  /\ Return(t, reg[t].handle)
  /\ UNCHANGED <<heap, up, lost, overlapped, fault>>

-----------------------------------------------------------------------------
(* CloseHandle                                                              *)

(* The handle type and the pointer are read; the connection sends a handle  *)
(* it holds and holds it no longer.  An unknown handle is just removed; a   *)
(* pipe is not counted and is freed at once.                                *)
CloseHandle(t, k) ==
  LET h == held[t][k].handle IN
  /\ StartChange(t)
  /\ held' = [held EXCEPT ![t] = SubSeq(@, 1, k - 1) \o SubSeq(@, k + 1, Len(@))]
  /\ \/ TypeOf(h) = "empty" /\ UNCHANGED <<pc, reg>>
     \/ /\ TypeOf(h) # "empty"
        /\ reg' = [reg EXCEPT ![t] = [@ EXCEPT !.handle = h, !.object = list[h].ptr]]
        /\ Goto(t, IF TypeOf(h) = "pipe" THEN "free" ELSE "unref")
  /\ UNCHANGED <<list, heap, up, grown, lost, fault>>

(* ReferenceCount--                                                         *)
Unref(t) ==
  LET o == reg[t].object IN
  /\ At(t, "unref")
  /\ fault' = Access(o)
  /\ heap' = [heap EXCEPT ![o] = [@ EXCEPT !.refs = heap[o].refs - 1]]
  /\ Goto(t, "free")
  /\ UNCHANGED <<list, reg, held, up, grown, lost, overlapped>>

(* Mutant: the object is freed on the first close, shared or not.           *)
FreeAlways(t) ==
  /\ At(t, "free")
  /\ heap' = [heap EXCEPT ![reg[t].object] = [@ EXCEPT !.live = FALSE]]
  /\ Goto(t, "remove")
  /\ UNCHANGED <<list, reg, held, up, grown, lost, overlapped, fault>>

(* if (ReferenceCount<=0) the object is freed, of a snapshot of threads     *)
(* only the list of them: nobody has a pointer to the rest any more ...     *)
Free(t) ==
  LET o == reg[t].object IN
  /\ At(t, "free")
  /\ fault' = Access(o)
  /\ \/ heap[o].refs > 0 /\ Finish(t) /\ UNCHANGED heap
     \/ /\ heap[o].refs <= 0
        /\ heap' = [heap EXCEPT ![o] = [@ EXCEPT !.live = FALSE]]
        /\ Goto(t, "remove")
        /\ UNCHANGED reg
  /\ UNCHANGED <<list, held, up, grown, lost, overlapped>>

(* Mutant: the place is not given back.                                     *)
RemoveMissing(t) ==
  /\ At(t, "remove")
  /\ Finish(t)
  /\ UNCHANGED <<list, heap, held, up, grown, lost, overlapped, fault>>

(* ... and only then RemoveHandle marks the place empty.                    *)
Remove(t) ==
  /\ At(t, "remove")
  /\ list' = IF reg[t].handle \in DOMAIN list
             THEN [list EXCEPT ![reg[t].handle] = [@ EXCEPT !.type = "empty"]] ELSE list
  /\ Finish(t)
  /\ UNCHANGED <<heap, held, up, grown, lost, overlapped, fault>>

-----------------------------------------------------------------------------
(* A command that works through a process handle the connection holds: the  *)
(* memory of the process is read, written or queried.                       *)
Use(t, k) ==
  LET h == held[t][k].handle IN
  /\ StartUse(t)
  /\ held[t][k].kind = "process"
  /\ TypeOf(h) = "process"
  /\ fault' = Access(Pointer(h))
  /\ UNCHANGED <<list, heap, pc, reg, held, up, grown, lost>>

(* ReadPipe and WritePipe take what the handle points to for a PipeData     *)
(* without a look at its type; an unknown handle is answered with -1.       *)
UsePipe(t, k) ==
  LET h == held[t][k].handle IN
  /\ StartUse(t)
  /\ held[t][k].kind = "pipe"
  /\ TypeOf(h) # "empty"
  /\ fault' = IF TypeOf(h) = "pipe" THEN Access(Pointer(h)) ELSE "mistaken"
  /\ UNCHANGED <<list, heap, pc, reg, held, up, grown, lost>>

(* The client counts what it is sent from each First on.                    *)
SeenAfter(seen, first, more) ==
  (IF first THEN 0 ELSE seen) + (IF more THEN 1 ELSE 0)

(* Mutant: First does not start anew.                                       *)
PositionKept(o, first) == heap[o].iterator

(* Where Process32First, Process32Next and their like take an entry from.   *)
Position(o, first) == IF first THEN 0 ELSE heap[o].iterator

(* One entry of a snapshot is sent and the iterator moves on; at the end    *)
(* the answer is FALSE.                                                     *)
Walk(t, k, first) ==
  LET e == held[t][k]
      h == e.handle
      o == Pointer(h)
      more == Position(o, first) < Entries
      step == IF more THEN 1 ELSE 0
  IN
  /\ StartUse(t)
  /\ e.kind = "snapshot"
  /\ first \/ e.seen <= Entries
  /\ TypeOf(h) = "snapshot"
  /\ fault' = Access(o)
  /\ heap' = [heap EXCEPT ![o] = [@ EXCEPT !.iterator = Position(o, first) + step]]
  /\ held' = [held EXCEPT ![t] =
                [@ EXCEPT ![k] = [e EXCEPT !.seen = SeenAfter(e.seen, first, more)]]]
  /\ UNCHANGED <<list, pc, reg, up, grown, lost>>

(* threadStartedEvent                                                       *)
Connect(t) ==
  /\ At(t, "idle")
  /\ t \notin up
  /\ up' = up \cup {t}
  /\ UNCHANGED <<list, heap, pc, reg, held, grown, lost, overlapped, fault>>

Pipes == {i \in DOMAIN list : list[i].type = "pipe"}

(* Every pipe of the list is closed.  connectionsCS is held, and without it *)
(* no connection starts: nothing comes between the steps of this loop.      *)
CloseAllPipes ==
  /\ fault' = IF \E i \in Pipes : ~Target(i).live THEN "freed" ELSE "none"
  /\ heap' = [o \in DOMAIN heap |->
                IF \E i \in Pipes : list[i].ptr = o
                THEN [heap[o] EXCEPT !.live = FALSE] ELSE heap[o]]
  /\ list' = [i \in DOMAIN list |->
                IF i \in Pipes THEN [list[i] EXCEPT !.type = "empty"] ELSE list[i]]

(* Mutant: the pipes stay when the last connection ends.                    *)
DisconnectKeepingPipes(t) ==
  /\ Start(t)
  /\ held[t] # <<>> => lost < MaxLost
  /\ lost' = IF held[t] = <<>> THEN lost ELSE lost + 1
  /\ held' = [held EXCEPT ![t] = <<>>]
  /\ up' = up \ {t}
  /\ UNCHANGED <<list, heap, pc, reg, grown, overlapped, fault>>

(* The connection ends.  Nothing in newconnection closes its handles; when  *)
(* it was the last, threadClosedEvent closes the pipes.                     *)
Disconnect(t) ==
  /\ Start(t)
  /\ held[t] # <<>> => lost < MaxLost
  /\ lost' = IF held[t] = <<>> THEN lost ELSE lost + 1
  /\ held' = [held EXCEPT ![t] = <<>>]
  /\ up' = up \ {t}
  /\ \/ up' = {} /\ CloseAllPipes
     \/ up' # {} /\ UNCHANGED <<list, heap, fault>>
  /\ UNCHANGED <<pc, reg, grown, overlapped>>

Next ==
  \E t \in Threads :
    \/ \E p \in Pids : OpenProcess(t, p) \/ ModuleProcess(t, p)
    \/ CreateSnapshot(t) \/ OpenPipe(t)
    \/ Search(t) \/ AddRef(t) \/ Alloc(t) \/ AllocFails(t)
    \/ Find(t) \/ StorePointer(t) \/ StoreType(t) \/ Grow(t) \/ FirstModule(t)
    \/ \E k \in 1 .. Len(held[t]) : CloseHandle(t, k) \/ Use(t, k) \/ UsePipe(t, k)
    \/ \E k \in 1 .. Len(held[t]), first \in BOOLEAN : Walk(t, k, first)
    \/ Unref(t) \/ Free(t) \/ Remove(t)
    \/ Connect(t) \/ Disconnect(t)

Spec == Init /\ [][Next]_vars

-----------------------------------------------------------------------------
DataOK ==
  /\ list \in Seq(Entry)
  /\ heap \in Seq(Object)
  /\ pc \in [Threads -> Steps]
  /\ reg \in [Threads -> [handle : Nat, object : Nat, kind : Kinds, key : Keys]]
  /\ held \in [Threads -> Seq(Held)]
  /\ up \subseteq Threads
  /\ grown \in 0 .. MaxGrowths
  /\ lost \in 0 .. MaxLost
  /\ fault \in {"none", "freed", "null", "mistaken"}

TypeOK == DataOK /\ overlapped \in BOOLEAN

Denotes(e) ==
  /\ TypeOf(e.handle) = e.kind
  /\ Target(e.handle).live
  /\ Target(e.handle).key = e.key

(* A handle a connection holds leads to the object it was opened for: the   *)
(* process with the pid the client asked for, or the client's own snapshot. *)
(* Other connections may open, share and close what they like.              *)
HandleDenotesItsObject ==
  \A t \in Threads : \A k \in 1 .. Len(held[t]) : Denotes(held[t][k])

(* It does as long as the list has not been enlarged, which empties it.     *)
HandleKeepsItsObject == grown = 0 => HandleDenotesItsObject

Holders(p) ==
  Cardinality({h \in Threads \X (1 .. MaxHeld) :
    LET t == h[1]  k == h[2] IN
    k <= Len(held[t]) /\ held[t][k].kind = "process" /\ held[t][k].key = p})

(* Between commands, ReferenceCount is the number of holds connections have *)
(* on the process, plus what connections that ended without closing left    *)
(* behind: a close by one client never frees what another one uses.         *)
RefCountCoversHolders ==
  (Quiet /\ grown = 0) =>
    \A i \in DOMAIN list : list[i].type = "process" =>
      /\ Target(i).refs >= Holders(Target(i).key)
      /\ lost = 0 => Target(i).refs = Holders(Target(i).key)

(* A process has one handle, however many connections opened it.            *)
OneHandlePerProcess ==
  Quiet => \A i, j \in DOMAIN list :
             (list[i].type = "process" /\ list[j].type = "process"
               /\ Target(i).key = Target(j).key) => i = j

(* A client that walks a snapshot is sent its entries one after the other,  *)
(* each of them once, however other connections walk theirs: the server's   *)
(* iterator is where the client stands.                                     *)
WalkIsUndisturbed ==
  grown = 0 =>
    \A t \in Threads : \A k \in 1 .. Len(held[t]) :
      held[t][k].kind = "snapshot" => Target(held[t][k].handle).iterator = held[t][k].seen

(* No step reads or writes an object after its free, or through NULL, and   *)
(* none takes one object for another: a pipe's handle leads to what is no   *)
(* pipe only after the list was enlarged and its places were given anew.    *)
NoFault ==
  /\ fault \notin {"freed", "null"}
  /\ grown = 0 => fault # "mistaken"

(* With no command running and no connection holding a handle, nothing      *)
(* stays open in the server, unless a connection ended with a handle        *)
(* unclosed.  Of what such a connection left, the pipes are closed when the *)
(* last connection ends; in a list that was enlarged they are not found.    *)
OnlyLostHandlesStay ==
  /\ (Quiet /\ lost = 0 /\ \A t \in Threads : held[t] = <<>>)
       => \A i \in DOMAIN list : list[i].type = "empty"
  /\ (Quiet /\ up = {} /\ grown = 0)
       => \A o \in DOMAIN heap : heap[o].kind = "pipe" => ~heap[o].live
=============================================================================
