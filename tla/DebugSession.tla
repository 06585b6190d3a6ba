------------------------------ MODULE DebugSession ------------------------------
(***************************************************************************)
(* One `cecli debug trace` (TraceDebugEvents, internal/ceserver/debug.go)  *)
(* against the debugger of ceserver (api.c, x86 build), while other        *)
(* connections suspend and resume threads of the same process, set and     *)
(* remove breakpoints and read and write contexts.                         *)
(*                                                                         *)
(* ceserver's thread for the trace's connection is the ptrace tracer.  It  *)
(* serves the trace's commands and, between commands and inside the timed  *)
(* wait of WaitForDebugEventNative, the commands other connections pass to *)
(* it over a socket pair.  They wait for the answer under a mutex, so a    *)
(* passed command is one step of the tracer unless it has to wait for the  *)
(* thread to stop.  A command for all threads is one for each in turn.     *)
(***************************************************************************)
EXTENDS Integers, Sequences

CONSTANTS
  NumThreads,   \* threads of the target; they neither start nor exit here
  MaxEvents,    \* --events
  MaxSignals,   \* bound on the signals the target's threads raise
  MaxCommands,  \* bound on the commands of other connections
  Operations,   \* which of them, beside suspend and resume, there are
  Requested,    \* the continuation modes to start with
  MayDie        \* TRUE: cecli may be killed, or the network lost, at any time

ASSUME BoundsAssumption ==
  /\ NumThreads \in Nat \ {0} /\ MaxEvents \in Nat \ {0}
  /\ MaxSignals \in Nat /\ MaxCommands \in Nat
ASSUME MayDieAssumption == MayDie \in BOOLEAN
ASSUME ChoicesAssumption ==
  /\ Operations \subseteq {"set", "remove", "get", "restart"}
  /\ Requested \subseteq {"auto", "deliver", "ignore", "single-step"}

(* The threadlist in its order; thread 1 is the one whose tid is the pid.   *)
Threads == 1 .. NumThreads

(* Numbers of the protocol: signals, and the two virtual events.            *)
CreateProcess == -2
CreateThread == -1
SIGTRAP == 5
SIGSEGV == 11
SIGSTOP == 19
Raised == {SIGTRAP, SIGSEGV}
Signals == Raised \cup {SIGSTOP}

Event == [tid : 0 .. NumThreads, sig : Signals \cup {0, CreateProcess, CreateThread}]
NoEvent == [tid |-> 0, sig |-> 0]

Modes == {"auto", "deliver", "ignore", "single-step"}

(* Commands that look at a thread while it is stopped.                      *)
Visits == {"set", "remove", "get"}

VARIABLES
  \* the kernel, per thread
  attached,        \* the tracer traces it
  stop,            \* the signal it is stopped with, 0 while it runs
  consumed,        \* waitpid has returned the stop
  pending,         \* signals sent and not yet acted on
  breaks,          \* the threads with the breakpoint in their debug registers
  \* ProcessData
  queue,           \* debugEventQueue
  current,         \* debuggedThreadEvent
  isPaused,
  suspendCount,
  suspendedDevent,
  holders,         \* who holds the process handle: "trace", "other"
  \* the tracer: where it is, the thread it waits for, where it goes back to
  tracer,
  \* the trace command
  mode,            \* --continue
  client,          \* where it is, the event it has, the events it has seen,
                   \* and the request it has sent and waits for no longer
  \* history
  lastContinue,    \* the last continuation and what ptrace was asked for it
  shown,           \* per thread: times its present stop was sent to the client
  refused,         \* a continuation was answered with 0
  nullEvent,       \* SuspendThread followed the NULL of a search in vain
  stray,           \* a suspended thread was visited as one that runs
  garbled,         \* a visit went on with an event that was never filled in
  wiped,           \* StartDebug was called a second time
  raised,
  commands

kernelVars == <<attached, stop, consumed, pending>>
dataVars == <<queue, current, isPaused, suspendCount, suspendedDevent>>
visitVars == <<breaks, stray, garbled, wiped>>
quietVars == <<mode, visitVars>>
historyVars == <<lastContinue, shown, refused, nullEvent, raised, commands>>
vars == <<kernelVars, dataVars, holders, tracer, mode, client, historyVars, visitVars>>

At(where) == [pc |-> where, tid |-> 0, back |-> "select"]

NoContinue == [mode |-> "auto", event |-> 0, request |-> "none", signal |-> 0]

Init ==
  /\ attached = [t \in Threads |-> FALSE]
  /\ stop = [t \in Threads |-> 0]
  /\ consumed = [t \in Threads |-> FALSE]
  /\ pending = [t \in Threads |-> {}]
  /\ queue = <<>>
  /\ current = NoEvent
  /\ isPaused = [t \in Threads |-> FALSE]
  /\ suspendCount = [t \in Threads |-> 0]
  /\ suspendedDevent = [t \in Threads |-> NoEvent]
  /\ holders = {"trace"}
  /\ tracer = At("select")
  /\ mode \in Requested
  /\ client = [pc |-> "start", event |-> NoEvent, events |-> 0, left |-> "none"]
  /\ lastContinue = NoContinue
  /\ shown = [t \in Threads |-> 0]
  /\ refused = FALSE
  /\ nullEvent = FALSE
  /\ raised = 0
  /\ commands = 0
  /\ breaks = {}
  /\ stray = FALSE /\ garbled = FALSE /\ wiped = FALSE

-----------------------------------------------------------------------------
(* The target and the kernel                                                *)

Raise(t, s) ==
  /\ attached[t]
  /\ raised < MaxSignals
  /\ s \notin pending[t]
  /\ raised' = raised + 1
  /\ pending' = [pending EXCEPT ![t] = @ \cup {s}]
  /\ UNCHANGED <<attached, stop, consumed, dataVars, holders, tracer, quietVars, client,
                 lastContinue, shown, refused, nullEvent, commands>>

(* A traced thread stops before a signal is acted on.                       *)
Stop(t, s) ==
  /\ attached[t]
  /\ stop[t] = 0
  /\ s \in pending[t]
  /\ stop' = [stop EXCEPT ![t] = s]
  /\ pending' = [pending EXCEPT ![t] = @ \ {s}]
  /\ UNCHANGED <<attached, consumed, dataVars, holders, tracer, quietVars, client, historyVars>>

(* Threads whose stop waitpid can return.                                   *)
Waitable == {t \in Threads : attached[t] /\ stop[t] # 0 /\ ~consumed[t]}

(* A thread leaves its stop; a single step traps right after.               *)
Run(t, request) ==
  /\ stop' = [stop EXCEPT ![t] = 0]
  /\ consumed' = [consumed EXCEPT ![t] = FALSE]
  /\ pending' = [pending EXCEPT ![t] = IF request = "step" THEN @ \cup {SIGTRAP} ELSE @]
  /\ shown' = [shown EXCEPT ![t] = 0]
  /\ UNCHANGED attached

(* tkill(t, SIGSTOP)                                                        *)
Tkill(t) == pending' = [pending EXCEPT ![t] = @ \cup {SIGSTOP}]

(* The tracer's thread ends: the kernel lets go of all it traces.           *)
ReleaseAll ==
  /\ attached' = [t \in Threads |-> FALSE]
  /\ stop' = [t \in Threads |-> 0]
  /\ consumed' = [t \in Threads |-> FALSE]
  /\ pending' = [t \in Threads |-> {}]

-----------------------------------------------------------------------------
(* Requests and answers                                                     *)

(* The places where the trace has a request under way: CMD_STARTDEBUG,      *)
(* CMD_WAITFORDEBUGEVENT and CMD_CONTINUEFROMDEBUGEVENT.                    *)
Requests == {"start", "wait", "got"}

(* The tracer reads the request from the socket, where it stays when the    *)
(* client has given up or died.                                             *)
Reads(request) == tracer.pc = "select" /\ request \in {client.pc, client.left}

(* The answer: the client goes on, unless it waits for it no longer.        *)
Answered(next) ==
  client' = IF client.left = "none" THEN next
            ELSE [client EXCEPT !.left = "none", !.event = NoEvent]

-----------------------------------------------------------------------------
(* StartDebug                                                               *)

IsDebuggerThread == \E t \in Threads : attached[t]

(* Every thread is attached, which sends it SIGSTOP, and the virtual events *)
(* are queued: one for the process, one for each thread.  Not here: threads *)
(* that exit while they are attached, which would leave only some attached. *)
StartDebug ==
  /\ Reads("start")
  /\ attached' = [t \in Threads |-> TRUE]
  /\ pending' = [t \in Threads |-> {SIGSTOP}]
  /\ queue' = <<[tid |-> 1, sig |-> CreateProcess]>>
              \o [t \in Threads |-> [tid |-> t, sig |-> CreateThread]]
  /\ Answered([client EXCEPT !.pc = "wait"])
  /\ UNCHANGED <<stop, consumed, current, isPaused, suspendCount, suspendedDevent,
                 holders, tracer, quietVars, historyVars>>

(* No thread could be attached: the answer is 0 and the trace fails.        *)
StartFails ==
  /\ Reads("start")
  /\ Answered([client EXCEPT !.pc = "close"])
  /\ UNCHANGED <<kernelVars, dataVars, holders, tracer, quietVars, historyVars>>

-----------------------------------------------------------------------------
(* WaitForDebugEvent                                                        *)

(* The event goes out; a client that has gone or given up does not see it.  *)
Report(e) ==
  /\ tracer' = At("select")
  /\ client' = IF client.pc \in {"wait", "waiting"}
               THEN [client EXCEPT !.pc = "got", !.event = e, !.events = client.events + 1]
               ELSE [client EXCEPT !.left = "none"]
  /\ shown' = IF e.sig > 0 THEN [shown EXCEPT ![e.tid] = @ + 1] ELSE shown

NothingPaused == [t \in Threads |-> FALSE]

(* waitpid returns the stop of t.                                           *)
Consume(t) ==
  /\ t \in Waitable
  /\ consumed' = [consumed EXCEPT ![t] = TRUE]
  /\ UNCHANGED <<attached, stop, pending>>

Served == Reads("wait")

(* An event that was not continued is returned again.                       *)
WaitReturnsCurrent ==
  /\ Served
  /\ current.tid # 0
  /\ Report(current)
  /\ UNCHANGED <<kernelVars, dataVars, holders, quietVars, lastContinue, refused,
                 nullEvent, raised, commands>>

(* Otherwise nothing should be paused: isPaused is cleared for all threads, *)
(* and the first queued event is returned ...                               *)
WaitReturnsQueued ==
  /\ Served
  /\ current.tid = 0
  /\ queue # <<>>
  /\ isPaused' = NothingPaused
  /\ queue' = Tail(queue)
  /\ current' = Head(queue)
  /\ Report(Head(queue))
  /\ UNCHANGED <<kernelVars, suspendCount, suspendedDevent, holders, quietVars,
                 lastContinue, refused, nullEvent, raised, commands>>

(* ... or a stop waitpid has at once ...                                    *)
WaitReturnsStop(t) ==
  LET e == [tid |-> t, sig |-> stop[t]] IN
  /\ Served
  /\ current.tid = 0
  /\ queue = <<>>
  /\ Consume(t)
  /\ isPaused' = [NothingPaused EXCEPT ![t] = TRUE]
  /\ current' = e
  /\ Report(e)
  /\ UNCHANGED <<queue, suspendCount, suspendedDevent, holders, quietVars,
                 lastContinue, refused, nullEvent, raised, commands>>

(* ... or the tracer sleeps until it is woken or the timeout passes.        *)
WaitSleeps ==
  /\ Served
  /\ current.tid = 0
  /\ queue = <<>>
  /\ Waitable = {}
  /\ isPaused' = NothingPaused
  /\ tracer' = At("sleep")
  /\ Answered([client EXCEPT !.pc = "waiting"])
  /\ UNCHANGED <<kernelVars, queue, current, suspendCount, suspendedDevent,
                 holders, quietVars, historyVars>>

(* Mutant: the stop is reported and not remembered.                         *)
WakeForStopForgets(t) ==
  /\ tracer.pc = "sleep"
  /\ queue = <<>>
  /\ Consume(t)
  /\ Report([tid |-> t, sig |-> stop[t]])
  /\ UNCHANGED <<dataVars, holders, quietVars, lastContinue, refused, nullEvent, raised, commands>>

(* Woken by SIGCHLD: the stop becomes the current event.                    *)
WakeForStop(t) ==
  LET e == [tid |-> t, sig |-> stop[t]] IN
  /\ tracer.pc = "sleep"
  /\ queue = <<>>
  /\ Consume(t)
  /\ isPaused' = [isPaused EXCEPT ![t] = TRUE]
  /\ current' = e
  /\ Report(e)
  /\ UNCHANGED <<queue, suspendCount, suspendedDevent, holders, quietVars,
                 lastContinue, refused, nullEvent, raised, commands>>

(* GetStopSignalFromThread: PTRACE_GETSIGINFO fails on a running thread.    *)
StopSignal(t) == IF stop[t] = 0 THEN -1 ELSE stop[t]

(* Woken by ResumeThread, which queued an event: it is taken from the queue *)
(* and its signal read anew.                                                *)
WakeForQueued ==
  LET e == [tid |-> Head(queue).tid, sig |-> StopSignal(Head(queue).tid)] IN
  /\ tracer.pc = "sleep"
  /\ queue # <<>>
  /\ queue' = Tail(queue)
  /\ isPaused' = [isPaused EXCEPT ![e.tid] = TRUE]
  /\ current' = e
  /\ Report(e)
  /\ UNCHANGED <<kernelVars, suspendCount, suspendedDevent, holders, quietVars,
                 lastContinue, refused, nullEvent, raised, commands>>

(* sem_timedwait gives up: the answer is 0 and the trace ends.              *)
WaitTimesOut ==
  /\ tracer.pc = "sleep"
  /\ queue = <<>>
  /\ tracer' = At("select")
  /\ client' = IF client.pc = "waiting" THEN [client EXCEPT !.pc = "close"] ELSE client
  /\ UNCHANGED <<kernelVars, dataVars, holders, quietVars, historyVars>>

-----------------------------------------------------------------------------
(* TraceDebugEvents and ContinueFromDebugEvent                              *)

(* continueModeForEvent                                                     *)
ModeForEvent(requested, sig) ==
  IF requested # "auto" THEN requested
  ELSE IF sig \in {CreateProcess, CreateThread, SIGTRAP, SIGSTOP} THEN "ignore"
  ELSE "deliver"

(* The number a mode has in the Go constants, and on the wire.              *)
ModeCode(m) ==
  CASE m = "auto" -> -1 [] m = "deliver" -> 1 [] m = "ignore" -> 2 [] m = "single-step" -> 3

(* What the server makes of that number for a thread stopped with sig.      *)
PtraceRequest(code) == IF code = 2 THEN "step" ELSE "cont"
PtraceSignal(code, sig) == IF code # 0 \/ sig = SIGSTOP THEN 0 ELSE sig

Continues == Reads("got")

(* Mutant: one event more than --events.                                    *)
ProceedOneMore == Answered([client EXCEPT !.pc = IF client.events <= MaxEvents THEN "wait" ELSE "close",
                                          !.event = NoEvent])

(* The trace goes on to its next event, or is complete.                     *)
Proceed == Answered([client EXCEPT !.pc = IF client.events < MaxEvents THEN "wait" ELSE "close",
                                   !.event = NoEvent])

(* A virtual event has nothing to continue.                                 *)
ContinueVirtual ==
  /\ Continues
  /\ current.sig < 0
  /\ current' = NoEvent
  /\ Proceed
  /\ UNCHANGED <<kernelVars, queue, isPaused, suspendCount, suspendedDevent, holders,
                 tracer, quietVars, historyVars>>

(* Mutant: >= 0 for > 0.                                                    *)
ContinueSuspendedAlways ==
  /\ Continues
  /\ current.sig >= 0
  /\ suspendCount[client.event.tid] >= 0
  /\ Proceed
  /\ UNCHANGED <<kernelVars, dataVars, holders, tracer, quietVars, historyVars>>

(* A suspended thread stays where it is, and so does its event.             *)
ContinueSuspended ==
  /\ Continues
  /\ current.sig >= 0
  /\ suspendCount[client.event.tid] > 0
  /\ Proceed
  /\ UNCHANGED <<kernelVars, dataVars, holders, tracer, quietVars, historyVars>>

(* PTRACE_CONT or PTRACE_SINGLESTEP on a thread that is stopped.            *)
ContinueStopped(t) ==
  LET m == ModeForEvent(mode, client.event.sig)
      code == ModeCode(m)
  IN
  /\ Continues
  /\ current.sig >= 0
  /\ stop[t] # 0
  /\ Run(t, PtraceRequest(code))
  /\ lastContinue' = [mode |-> m, event |-> stop[t], request |-> PtraceRequest(code),
                      signal |-> PtraceSignal(code, stop[t])]
  /\ isPaused' = [isPaused EXCEPT ![t] = FALSE]
  /\ Proceed
  /\ UNCHANGED <<queue, suspendCount, suspendedDevent, holders, tracer, quietVars,
                 refused, nullEvent, raised, commands>>

(* Mutant: without the test of the suspend count.                           *)
ContinueThreadAnyway ==
  /\ client.event.tid # 0
  /\ ContinueStopped(client.event.tid)
  /\ current' = [current EXCEPT !.tid = 0]

(* The thread is continued and its event is done with.                      *)
ContinueThread ==
  /\ client.event.tid # 0
  /\ suspendCount[client.event.tid] = 0
  /\ ContinueStopped(client.event.tid)
  /\ current' = [current EXCEPT !.tid = 0]

(* PTRACE_GETSIGINFO fails on a thread that runs: the answer is 0, and the  *)
(* trace fails.                                                             *)
ContinueRefused ==
  /\ Continues
  /\ current.sig >= 0
  /\ suspendCount[client.event.tid] = 0
  /\ stop[client.event.tid] = 0
  /\ refused' = TRUE
  /\ Answered([client EXCEPT !.pc = "close", !.event = NoEvent])
  /\ UNCHANGED <<kernelVars, dataVars, holders, tracer, quietVars, lastContinue, shown,
                 nullEvent, raised, commands>>

(* ctx.Err() at the top of the loop: the user interrupted the trace.        *)
Interrupt ==
  /\ client.pc = "wait"
  /\ client' = [client EXCEPT !.pc = "close"]
  /\ UNCHANGED <<kernelVars, dataVars, holders, tracer, quietVars, historyVars>>

(* The network deadline passes while the tracer is held up by a command of  *)
(* another connection.  A request it has not read yet stays in the socket.  *)
Deadline ==
  /\ client.pc \in {"wait", "waiting", "got"}
  /\ tracer.pc \in Visits \cup {"suspend"}
  /\ client' = [client EXCEPT !.pc = "close",
                              !.left = IF client.pc \in Requests THEN client.pc ELSE "none"]
  /\ UNCHANGED <<kernelVars, dataVars, holders, tracer, quietVars, historyVars>>

(* The deferred CloseHandle, then Client.Close: the socket is just dropped. *)
CloseTrace ==
  /\ client.pc = "close" /\ client.left = "none"
  /\ tracer.pc = "select"
  /\ holders' = holders \ {"trace"}
  /\ client' = [client EXCEPT !.pc = "gone"]
  /\ UNCHANGED <<kernelVars, dataVars, tracer, quietVars, historyVars>>

(* cecli is killed or the network lost: no CloseHandle.  A request that was *)
(* sent by then is still read.                                              *)
Die ==
  /\ MayDie
  /\ client.pc # "gone"
  /\ \E request \in {client.left} \cup ({client.pc} \cap Requests) :
       client' = [client EXCEPT !.pc = "gone", !.left = request,
                                !.event = IF request = "got" THEN client.event ELSE NoEvent]
  /\ UNCHANGED <<kernelVars, dataVars, holders, tracer, quietVars, historyVars>>

-----------------------------------------------------------------------------
(* SuspendThread and ResumeThread                                           *)

OtherOpen ==
  /\ commands < MaxCommands
  /\ holders = {"trace"}
  /\ IsDebuggerThread
  /\ holders' = holders \cup {"other"}
  /\ UNCHANGED <<kernelVars, dataVars, tracer, quietVars, client, historyVars>>

OtherClose ==
  /\ "other" \in holders
  /\ tracer.pc \notin Visits \cup {"suspend"}
  /\ holders' = holders \ {"other"}
  /\ UNCHANGED <<kernelVars, dataVars, tracer, quietVars, client, historyVars>>

(* The tracer reads a command of another connection.  In the timed wait the *)
(* queue was empty and is looked at right after each command.               *)
Passed ==
  /\ "other" \in holders
  /\ IsDebuggerThread
  /\ tracer.pc = "select" \/ (tracer.pc = "sleep" /\ queue = <<>>)
  /\ commands < MaxCommands
  /\ commands' = commands + 1

Queued(t) == {i \in DOMAIN queue : queue[i].tid = t}
FirstQueued(t) == CHOOSE i \in Queued(t) : \A j \in Queued(t) : i <= j
Dequeued(t) ==
  IF Queued(t) = {} THEN queue
  ELSE [i \in 1 .. Len(queue) - 1 |-> IF i < FirstQueued(t) THEN queue[i] ELSE queue[i + 1]]

(* A thread known to be paused: its event is kept aside on the first        *)
(* suspension, from the current event or from the queue.                    *)
SuspendPaused(t) ==
  /\ Passed
  /\ isPaused[t]
  /\ suspendCount' = [suspendCount EXCEPT ![t] = @ + 1]
  /\ \/ suspendCount[t] > 0 /\ UNCHANGED <<suspendedDevent, queue, nullEvent>>
     \/ /\ suspendCount[t] = 0 /\ current.tid = t
        /\ suspendedDevent' = [suspendedDevent EXCEPT ![t] = current]
        /\ UNCHANGED <<queue, nullEvent>>
     \/ /\ suspendCount[t] = 0 /\ current.tid # t
        /\ nullEvent' = (Queued(t) = {})
        /\ suspendedDevent' = IF nullEvent' THEN suspendedDevent
                              ELSE [suspendedDevent EXCEPT ![t] = queue[FirstQueued(t)]]
        /\ queue' = Dequeued(t)
  /\ UNCHANGED <<kernelVars, current, isPaused, holders, tracer, quietVars, client,
                 lastContinue, shown, refused, raised>>

(* Any other thread is sent SIGSTOP, again and again until it stops.        *)
SuspendRunning(t) ==
  /\ Passed
  /\ ~isPaused[t]
  /\ Tkill(t)
  /\ tracer' = [pc |-> "suspend", tid |-> t, back |-> tracer.pc]
  /\ UNCHANGED <<attached, stop, consumed, dataVars, holders, quietVars, client,
                 lastContinue, shown, refused, nullEvent, raised>>

Suspended(t) ==
  /\ suspendedDevent' = [suspendedDevent EXCEPT ![t] = [tid |-> t, sig |-> StopSignal(t)]]
  /\ isPaused' = [isPaused EXCEPT ![t] = TRUE]
  /\ suspendCount' = [suspendCount EXCEPT ![t] = @ + 1]
  /\ tracer' = At(tracer.back)
  /\ UNCHANGED <<current, holders, quietVars, client, historyVars>>

(* Mutant: only the SIGSTOP itself is taken for an answer.                  *)
SuspendStoppedOnly(t) ==
  /\ tracer.pc = "suspend"
  /\ tracer.tid = t
  /\ stop[t] = SIGSTOP
  /\ Consume(t)
  /\ Suspended(t)
  /\ UNCHANGED queue

(* waitpid returns a stop of that thread ...                                *)
SuspendStopped(t) ==
  /\ tracer.pc = "suspend"
  /\ tracer.tid = t
  /\ Consume(t)
  /\ Suspended(t)
  /\ UNCHANGED queue

(* ... or, after a wake-up, an event of it is in the queue, which is looked *)
(* at first.                                                                *)
SuspendQueued(t) ==
  /\ tracer.pc = "suspend"
  /\ tracer.tid = t
  /\ Queued(t) # {}
  /\ queue' = Dequeued(t)
  /\ Suspended(t)
  /\ UNCHANGED kernelVars

(* The last resume lets the thread run, or queues the event kept aside.     *)
ResumeThread(t) ==
  /\ Passed
  /\ isPaused[t]
  /\ suspendCount[t] > 0
  /\ suspendCount' = [suspendCount EXCEPT ![t] = @ - 1]
  /\ \/ suspendCount[t] > 1 /\ UNCHANGED <<queue, isPaused, kernelVars, shown>>
     \/ /\ suspendCount[t] = 1 /\ suspendedDevent[t].sig = SIGSTOP
        /\ Run(t, "cont")
        /\ isPaused' = [isPaused EXCEPT ![t] = FALSE]
        /\ UNCHANGED queue
     \/ /\ suspendCount[t] = 1 /\ suspendedDevent[t].sig # SIGSTOP
        /\ queue' = Append(queue, suspendedDevent[t])
        /\ UNCHANGED <<isPaused, kernelVars, shown>>
  /\ UNCHANGED <<current, suspendedDevent, holders, tracer, quietVars, client,
                 lastContinue, refused, nullEvent, raised>>

(* "Failure resuming this thread": the answer is -1.                        *)
ResumeRefused(t) ==
  /\ Passed
  /\ ~(isPaused[t] /\ suspendCount[t] > 0)
  /\ UNCHANGED <<kernelVars, dataVars, holders, tracer, quietVars, client,
                 lastContinue, shown, refused, nullEvent, raised>>

-----------------------------------------------------------------------------
(* SetBreakpoint, RemoveBreakpoint and GetThreadContext                     *)

(* FindPausedThread: the first of the list.                                 *)
PausedThread ==
  IF \E t \in Threads : isPaused[t]
  THEN CHOOSE t \in Threads : isPaused[t] /\ \A u \in Threads : isPaused[u] => t <= u
  ELSE 0

(* The debug registers of w are written; ptrace refuses that for a thread   *)
(* that runs, and the answer is 0.                                          *)
Poke(op, w) ==
  LET written == w # 0 /\ stop[w] # 0 IN
  /\ breaks' = IF ~written \/ op = "get" THEN breaks
               ELSE IF op = "set" THEN breaks \cup {w} ELSE breaks \ {w}

(* The thread that is written to when the wanted one is paused.             *)
Target(op, t) ==
  CASE op = "set" -> PausedThread [] op = "remove" -> current.tid [] OTHER -> t

VisitPaused(op, t) ==
  /\ Passed
  /\ isPaused[t]
  /\ Poke(op, Target(op, t))
  /\ UNCHANGED <<kernelVars, dataVars, holders, tracer, mode, client,
                 lastContinue, shown, refused, nullEvent, raised, stray, garbled, wiped>>

(* Any other thread is sent SIGSTOP and waited for, ten times 100 ms.       *)
VisitRunning(op, t) ==
  /\ Passed
  /\ ~isPaused[t]
  /\ Tkill(t)
  /\ tracer' = [pc |-> op, tid |-> t, back |-> tracer.pc]
  /\ stray' = (stray \/ suspendCount[t] > 0)
  /\ UNCHANGED <<attached, stop, consumed, dataVars, holders, mode, client, lastContinue, shown,
                 refused, nullEvent, raised, breaks, garbled, wiped>>

(* Mutant: the stop of another signal is not queued.                        *)
VisitEndsForgets(t, events, taken) ==
  /\ tracer' = At(tracer.back)
  /\ queue' = events
  /\ \/ /\ stop[t] = SIGSTOP
        /\ Run(t, "cont")
        /\ isPaused' = [isPaused EXCEPT ![t] = FALSE]
     \/ /\ stop[t] # SIGSTOP
        /\ consumed' = [consumed EXCEPT ![t] = IF taken THEN TRUE ELSE @]
        /\ isPaused' = [isPaused EXCEPT ![t] = TRUE]
        /\ UNCHANGED <<attached, stop, pending, shown>>
  /\ UNCHANGED <<current, suspendCount, suspendedDevent, holders, mode, client,
                 lastContinue, refused, nullEvent, raised, commands, stray, garbled, wiped>>

(* After the visit: a thread that stopped for SIGSTOP goes on; the stop of  *)
(* any other signal is queued, and the thread left as it is; its stop was   *)
(* taken from the kernel just now, or not.                                  *)
VisitEnds(t, events, taken) ==
  /\ tracer' = At(tracer.back)
  /\ \/ /\ stop[t] = SIGSTOP
        /\ Run(t, "cont")
        /\ isPaused' = [isPaused EXCEPT ![t] = FALSE]
        /\ queue' = events
     \/ /\ stop[t] # SIGSTOP
        /\ consumed' = [consumed EXCEPT ![t] = IF taken THEN TRUE ELSE @]
        /\ isPaused' = [isPaused EXCEPT ![t] = TRUE]
        /\ queue' = Append(events, [tid |-> t, sig |-> StopSignal(t)])
        /\ UNCHANGED <<attached, stop, pending, shown>>
  /\ UNCHANGED <<current, suspendCount, suspendedDevent, holders, mode, client,
                 lastContinue, refused, nullEvent, raised, commands, stray, garbled, wiped>>

(* waitpid returns a stop of that thread ...                                *)
VisitStopped(t) ==
  /\ tracer.pc \in Visits
  /\ tracer.tid = t
  /\ t \in Waitable
  /\ Poke(tracer.pc, t)
  /\ VisitEnds(t, queue, TRUE)

(* ... or, after a wake-up, an event of it is in the queue ...              *)
VisitQueued(t) ==
  /\ tracer.pc \in Visits
  /\ tracer.tid = t
  /\ Queued(t) # {}
  /\ Poke(tracer.pc, t)
  /\ VisitEnds(t, Dequeued(t), FALSE)

(* ... or ten tries were in vain: the code goes on with an event that was   *)
(* never filled in.  What it does then is not followed further.             *)
VisitTimesOut ==
  /\ tracer.pc \in Visits
  /\ tracer.tid \notin Waitable
  /\ garbled' = TRUE
  /\ UNCHANGED <<kernelVars, dataVars, holders, tracer, mode, client, historyVars,
                 breaks, stray, wiped>>

(* SetThreadContext of another connection starts with StartDebug on its     *)
(* own thread: the list of threads is built anew, PTRACE_ATTACH fails for   *)
(* all of them, and the answer is that the process is debugged.  Two things *)
(* are not followed: the list is emptied and grows entry by entry, and that *)
(* connection's thread, taken for a debugger thread, from then on competes  *)
(* with the tracer for the commands that are passed to it.                  *)
RestartDebug ==
  /\ "other" \in holders
  /\ IsDebuggerThread
  /\ commands < MaxCommands
  /\ commands' = commands + 1
  /\ isPaused' = [t \in Threads |-> FALSE]
  /\ suspendCount' = [t \in Threads |-> 0]
  /\ suspendedDevent' = [t \in Threads |-> NoEvent]
  /\ wiped' = TRUE
  /\ UNCHANGED <<kernelVars, queue, current, holders, tracer, mode, client,
                 lastContinue, shown, refused, nullEvent, raised, breaks, stray, garbled>>

-----------------------------------------------------------------------------
(* newconnection and StopDebug                                              *)

(* The peer has disconnected.  Without a valid handle StopDebug does        *)
(* nothing, after a read error (the connection was reset) it is not called; *)
(* the thread ends, which makes the kernel detach.                          *)
Disconnected ==
  /\ client.pc = "gone" /\ client.left = "none"
  /\ tracer.pc = "select"
  /\ holders = {} \/ ~IsDebuggerThread \/ MayDie
  /\ tracer' = At("exited")
  /\ ReleaseAll
  /\ UNCHANGED <<dataVars, holders, quietVars, client, historyVars>>

(* With a valid handle StopDebug stops each thread in turn to detach it.    *)
StopDebug ==
  /\ client.pc = "gone" /\ client.left = "none"
  /\ tracer.pc = "select"
  /\ holders # {}
  /\ IsDebuggerThread
  /\ tracer' = [At("stop") EXCEPT !.tid = 1]
  /\ Tkill(1)
  /\ UNCHANGED <<attached, stop, consumed, dataVars, holders, quietVars, client, historyVars>>

(* waitpid returns another signal: the thread is continued with it and sent *)
(* SIGSTOP again.                                                           *)
StopOtherSignal ==
  /\ tracer.pc = "stop"
  /\ tracer.tid \in Waitable
  /\ stop[tracer.tid] # SIGSTOP
  /\ stop' = [stop EXCEPT ![tracer.tid] = 0]
  /\ Tkill(tracer.tid)
  /\ UNCHANGED <<attached, consumed, dataVars, holders, tracer, quietVars, client, historyVars>>

(* waitpid returns SIGSTOP: the thread is detached and the next one is      *)
(* stopped, or the thread of the connection ends.                           *)
DetachThread ==
  LET t == tracer.tid IN
  /\ tracer.pc = "stop"
  /\ t \in Waitable
  /\ stop[t] = SIGSTOP
  /\ \/ /\ t < NumThreads
        /\ attached' = [attached EXCEPT ![t] = FALSE]
        /\ stop' = [stop EXCEPT ![t] = 0]
        /\ pending' = [pending EXCEPT ![t] = {}, ![t + 1] = pending[t + 1] \cup {SIGSTOP}]
        /\ tracer' = [tracer EXCEPT !.tid = t + 1]
        /\ UNCHANGED consumed
     \/ t = NumThreads /\ tracer' = At("exited") /\ ReleaseAll
  /\ UNCHANGED <<dataVars, holders, quietVars, client, historyVars>>

-----------------------------------------------------------------------------
WaitForDebugEvent ==
  \/ WaitReturnsCurrent \/ WaitReturnsQueued \/ WaitSleeps \/ WakeForQueued \/ WaitTimesOut
  \/ \E t \in Threads : WaitReturnsStop(t) \/ WakeForStop(t)

ContinueFromDebugEvent ==
  ContinueVirtual \/ ContinueSuspended \/ ContinueThread \/ ContinueRefused

Others ==
  \/ OtherOpen \/ OtherClose
  \/ RestartDebug /\ "restart" \in Operations
  \/ \E t \in Threads : \/ SuspendPaused(t) \/ SuspendRunning(t)
                        \/ ResumeThread(t) \/ ResumeRefused(t)
                        \/ \E op \in Operations \cap Visits : VisitPaused(op, t) \/ VisitRunning(op, t)

Suspending == \E t \in Threads : SuspendStopped(t) \/ SuspendQueued(t)

Visiting == VisitTimesOut \/ \E t \in Threads : VisitStopped(t) \/ VisitQueued(t)

Ending == CloseTrace \/ Disconnected \/ StopDebug \/ StopOtherSignal \/ DetachThread

Kernel == \E t \in Threads, s \in Signals : Stop(t, s)

Next ==
  /\ ~garbled
  /\ \/ StartDebug \/ StartFails
     \/ WaitForDebugEvent \/ ContinueFromDebugEvent
     \/ Interrupt \/ Deadline \/ Die
     \/ Others \/ Suspending \/ Visiting \/ Ending
     \/ Kernel
     \/ \E t \in Threads, s \in Raised : Raise(t, s)

(* cecli and the tracer's thread go on with what they have begun, a timed   *)
(* wait ends, a network deadline passes, and the kernel stops a thread with *)
(* a signal pending.  Nobody owes a signal, a command or an interrupt.      *)
Fairness ==
  /\ WF_vars(~garbled /\ (StartDebug \/ StartFails \/ WaitForDebugEvent
                          \/ ContinueFromDebugEvent \/ Suspending \/ Visiting \/ Ending))
  /\ WF_vars(~garbled /\ Deadline)
  /\ WF_vars(~garbled /\ OtherClose)
  /\ \A t \in Threads : WF_vars(~garbled /\ \E s \in Signals : Stop(t, s))

Spec == Init /\ [][Next]_vars
FairSpec == Spec /\ Fairness

-----------------------------------------------------------------------------
TypeOK ==
  /\ attached \in [Threads -> BOOLEAN]
  /\ stop \in [Threads -> Signals \cup {0}]
  /\ consumed \in [Threads -> BOOLEAN]
  /\ pending \in [Threads -> SUBSET Signals]
  /\ queue \in Seq(Event)
  /\ current \in Event
  /\ isPaused \in [Threads -> BOOLEAN]
  /\ suspendCount \in [Threads -> Nat]
  /\ suspendedDevent \in [Threads -> Event]
  /\ holders \subseteq {"trace", "other"}
  /\ tracer \in [pc : {"select", "sleep", "suspend", "stop", "exited"} \cup Visits,
                 tid : 0 .. NumThreads, back : {"select", "sleep"}]
  /\ mode \in Modes
  /\ client \in [pc : {"start", "wait", "waiting", "got", "close", "gone"},
                 event : Event, events : 0 .. MaxEvents, left : Requests \cup {"none"}]
  /\ shown \in [Threads -> Nat]
  /\ refused \in BOOLEAN /\ nullEvent \in BOOLEAN

(* A stop ceserver has taken from the kernel is never forgotten: until the  *)
(* session ends it is the current event, a queued one, or the event of a    *)
(* suspended thread.  A stop that is none of these freezes the thread.      *)
(* Only a second StartDebug, which forgets all suspensions, breaks this.    *)
StopsAreKnown ==
  \A t \in Threads :
    (stop[t] # 0 /\ consumed[t] /\ tracer.pc \notin {"stop", "exited"} /\ ~wiped)
      => current.tid = t \/ Queued(t) # {} \/ suspendCount[t] > 0

(* A suspended thread is stopped, or about to act on the SIGSTOP it was     *)
(* sent, whatever the trace continues and other commands visit meanwhile.   *)
(* A visit lets it go only if isPaused, which the next WaitForDebugEvent    *)
(* clears for all threads, no longer says that it is stopped.               *)
SuspendedStaysStopped ==
  \A t \in Threads :
    (suspendCount[t] > 0 /\ attached[t] /\ tracer.pc # "stop" /\ ~stray)
      => stop[t] # 0 \/ SIGSTOP \in pending[t]

(* SuspendThread finds an event wherever it looks for one; it dereferences  *)
(* the result of the search without a test.                                 *)
EventIsFound == ~nullEvent

(* As long as nobody suspends or visits, WaitForDebugEvent sends the trace  *)
(* every stop once, and ContinueFromDebugEvent succeeds for each of them.   *)
StopsAreShownOnce == commands = 0 => ~refused /\ \A t \in Threads : shown[t] <= 1

Released == \A t \in Threads : ~attached[t] /\ stop[t] = 0

(* The tracer waits for a stop somebody has already taken from the kernel.  *)
WaitsInVain == tracer.pc \in {"stop", "suspend"} /\ consumed[tracer.tid]

(* docs/command-reference.md: the trace "detaches when the connection       *)
(* closes".  Once cecli is gone, the target's threads are all let go in the *)
(* end and none of them stays stopped.                                      *)
Detaches == (client.pc = "gone") ~> Released

(* SuspendThread ends, unless the thread is stopped already and isPaused,   *)
(* cleared meanwhile, does not say so: then there is nothing to wait for.   *)
SuspendEnds == (tracer.pc = "suspend") ~> (tracer.pc # "suspend" \/ garbled \/ WaitsInVain)

(* docs/command-reference.md: `deliver` delivers the original signal,       *)
(* `ignore` suppresses it and `single-step` takes the single-step path.     *)
ModeIsHonoured ==
  LET c == lastContinue IN
  /\ c.mode = "deliver" => c.request = "cont" /\ c.signal = c.event
  /\ c.mode = "ignore" => c.request = "cont" /\ c.signal = 0
  /\ c.mode = "single-step" => c.request = "step"
=============================================================================
