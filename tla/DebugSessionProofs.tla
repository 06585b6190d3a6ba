-------------------------- MODULE DebugSessionProofs --------------------------
(***************************************************************************)
(* Proofs about DebugSession, for any number of threads, any bounds, any   *)
(* operations of other connections, any continuation modes, and with or    *)
(* without the death of cecli.                                             *)
(***************************************************************************)
EXTENDS DebugSession, SequenceTheorems, WellFoundedInduction, TLAPS

(* The tracer is in the timed wait of WaitForDebugEvent, or in a command    *)
(* that was passed to it there.                                             *)
Sleeping ==
  tracer.pc = "sleep" \/ (tracer.pc \in Visits \cup {"suspend"} /\ tracer.back = "sleep")

(* StopDebug is at work, or the tracer's thread is over.                    *)
Over == tracer.pc \in {"stop", "exited"}

(* The request is under way, or in the socket with nobody waiting for it.   *)
Asked(request) == request \in {client.pc, client.left}

(* The events of a queue: one of thread t, and one that is not virtual.     *)
Has(q, t) == \E i \in DOMAIN q : q[i].tid = t
HasReal(q, t) == \E i \in DOMAIN q : q[i].tid = t /\ q[i].sig >= 0

(* The thread is stopped, or stops before it does anything else for good.   *)
Held(t) == stop[t] # 0 \/ SIGSTOP \in pending[t]

(* A stop of the thread is written down somewhere, as a stop and not just   *)
(* as one of the virtual events.                                            *)
Known(t) ==
  \/ current.tid = t /\ current.sig >= 0
  \/ HasReal(queue, t)
  \/ suspendCount[t] > 0 /\ suspendedDevent[t].sig >= 0

(* The types, in groups that the actions change together.                   *)
KernelTypes ==
  /\ attached \in [Threads -> BOOLEAN]
  /\ stop \in [Threads -> Signals \cup {0}]
  /\ consumed \in [Threads -> BOOLEAN]
  /\ pending \in [Threads -> SUBSET Signals]

DataTypes ==
  /\ queue \in Seq(Event)
  /\ current \in Event
  /\ isPaused \in [Threads -> BOOLEAN]
  /\ suspendCount \in [Threads -> Nat]
  /\ suspendedDevent \in [Threads -> Event]

PlaceTypes ==
  /\ holders \subseteq {"trace", "other"}
  /\ tracer \in [pc : {"select", "sleep", "suspend", "stop", "exited"} \cup Visits,
                 tid : 0 .. NumThreads, back : {"select", "sleep"}]
  /\ mode \in Modes
  /\ client \in [pc : {"start", "wait", "waiting", "got", "close", "gone"},
                 event : Event, events : 0 .. MaxEvents, left : Requests \cup {"none"}]

HistoryTypes ==
  /\ shown \in [Threads -> Nat]
  /\ refused \in BOOLEAN /\ nullEvent \in BOOLEAN
  /\ commands \in Nat

TypeInv == KernelTypes /\ DataTypes /\ PlaceTypes /\ HistoryTypes

(* Where the client is, given where the tracer is, and what both remember.  *)
PlaceInv ==
  /\ tracer.pc \in Visits \cup {"suspend", "stop"} => tracer.tid \in Threads
  /\ client.left # "none" => client.pc \in {"close", "gone"}
  /\ Asked("got") => client.event = current /\ current.tid \in Threads
  /\ client.pc \in {"start", "wait", "waiting"} => client.events < MaxEvents
  /\ Asked("start") => tracer.pc = "select"
  /\ Over => client.pc = "gone" /\ client.left = "none"
  /\ Sleeping => current.tid = 0 /\ \A request \in Requests : ~Asked(request)

(* What the kernel knows of a thread; before StartDebug it knows nothing,   *)
(* and nothing is debugged.                                                 *)
KernelInv ==
  /\ \A t \in Threads : consumed[t] => stop[t] # 0
  /\ tracer.pc = "exited" => \A t \in Threads : ~attached[t]
  /\ Asked("start") => \A t \in Threads : ~attached[t] /\ stop[t] = 0 /\ ~isPaused[t]

(* In the timed wait an event is queued, and a thread paused, only when it  *)
(* is stopped: a virtual event cannot be met there.  The event a suspended  *)
(* thread has kept aside is its own.                                        *)
QueueInv ==
  /\ \A i \in DOMAIN queue : queue[i].tid \in Threads
  /\ Sleeping => \A i \in DOMAIN queue : stop[queue[i].tid] # 0
  /\ Sleeping => \A t \in Threads : isPaused[t] => stop[t] # 0
  /\ Sleeping /\ tracer.pc # "sleep" => queue = <<>>
  /\ \A t \in Threads : suspendCount[t] > 0 => suspendedDevent[t].tid = t

(* A paused thread that is not suspended has an event.  The event must not  *)
(* be a virtual one that is current: continuing it leaves isPaused alone.   *)
PausedInv ==
  /\ EventIsFound
  /\ \A t \in Threads :
       (isPaused[t] /\ suspendCount[t] = 0)
         => Has(queue, t) \/ (current.tid = t /\ current.sig >= 0)

KnownInv == \A t \in Threads : (consumed[t] /\ ~Over /\ ~wiped) => Known(t)

(* Threads that are paused, suspended, or about to be, do not run on.       *)
HeldInv ==
  /\ tracer.pc \in Visits \cup {"suspend"} => Held(tracer.tid)
  /\ tracer.pc \in Visits /\ ~stray => suspendCount[tracer.tid] = 0
  /\ ~Over => \A t \in Threads : isPaused[t] => Held(t)
  /\ ~Over /\ ~stray => \A t \in Threads : suspendCount[t] > 0 => Held(t)

(* Without commands of other connections: the client waits only when every  *)
(* event was continued, and a stop that was shown is one it has not         *)
(* continued.                                                               *)
OnceInv ==
  commands = 0 =>
    /\ ~refused
    /\ tracer.pc \notin Visits \cup {"suspend"}
    /\ \A t \in Threads : suspendCount[t] = 0
    /\ \A i \in DOMAIN queue : queue[i].sig < 0
    /\ tracer.pc = "sleep" => queue = <<>>
    /\ client.pc = "waiting" \/ Asked("start") \/ Asked("wait") => current.tid = 0
    /\ Asked("got") /\ current.sig >= 0 => stop[current.tid] # 0
    /\ \A t \in Threads : shown[t] <= 1
    /\ ~Over => \A t \in Threads : shown[t] # 0 => consumed[t]

IInv ==
  /\ TypeInv /\ PlaceInv /\ KernelInv /\ QueueInv /\ PausedInv
  /\ KnownInv /\ HeldInv /\ OnceInv

-----------------------------------------------------------------------------
(* The queue                                                                *)

(* Every event of p is one of q.                                            *)
Within(p, q) == \A i \in DOMAIN p : \E j \in DOMAIN q : p[i] = q[j]

LEMMA ThreadIds ==
  /\ 1 \in Threads
  /\ \A t \in Threads : t \in 0 .. NumThreads /\ t \in Nat /\ t # 0
  /\ \A t \in 0 .. NumThreads : t # 0 => t \in Threads
  /\ \A t \in Threads : t < NumThreads => t + 1 \in Threads
BY BoundsAssumption DEF Threads

LEMMA SignalNumbers ==
  /\ 0 \notin Signals /\ SIGSTOP \in Signals /\ SIGTRAP \in Signals
  /\ Raised \subseteq Signals /\ \A s \in Signals : s \in Nat /\ s > 0
  /\ CreateProcess \in Int /\ CreateProcess < 0 /\ CreateThread = -1 /\ SIGSTOP > 0
BY DEF Signals, Raised, SIGSTOP, SIGTRAP, SIGSEGV, CreateProcess, CreateThread

(* Any number an event has for a signal.                                    *)
LEMMA EventNumbers ==
  /\ NoEvent \in Event
  /\ \A e \in Event : e.tid \in 0 .. NumThreads /\ e.sig \in Int
  /\ \A t \in Threads, s \in Signals \cup {0, -1} : [tid |-> t, sig |-> s] \in Event
BY ThreadIds, SignalNumbers, BoundsAssumption DEF Event, NoEvent

(* An event that was continued has no thread.                               *)
LEMMA ContinuedEvent ==
  ASSUME NEW e \in Event
  PROVE  [e EXCEPT !.tid = 0] \in Event
<1>1. 0 \in 0 .. NumThreads
  BY BoundsAssumption
<1> QED
  BY <1>1 DEF Event

(* The signal of a thread, once it is asked for.                            *)
LEMMA StopSignals ==
  ASSUME KernelTypes, NEW t \in Threads
  PROVE  /\ [tid |-> t, sig |-> StopSignal(t)] \in Event
         /\ stop[t] # 0 => StopSignal(t) = stop[t] /\ stop[t] > 0
BY EventNumbers, SignalNumbers DEF StopSignal, KernelTypes

(* WaitForDebugEvent takes the first event.                                 *)
LEMMA TailQueue ==
  ASSUME NEW q \in Seq(Event), q # <<>>
  PROVE  /\ Tail(q) \in Seq(Event) /\ Head(q) \in Event /\ Within(Tail(q), q)
         /\ \E j \in DOMAIN q : Head(q) = q[j]
         /\ \A u : Has(q, u) => Has(Tail(q), u) \/ Head(q).tid = u
         /\ \A u : HasReal(q, u) => HasReal(Tail(q), u) \/ (Head(q).tid = u /\ Head(q).sig >= 0)
<1> DEFINE p == Tail(q)
<1>1. /\ p \in Seq(Event) /\ Head(q) \in Event /\ Len(p) = Len(q) - 1
      /\ \A i \in 1 .. Len(p) : p[i] = q[i + 1]
  BY HeadTailProperties
<1>2. Head(q) = q[1]
  OBVIOUS
<1>3. Len(q) \in Nat \ {0} /\ DOMAIN q = 1 .. Len(q) /\ DOMAIN p = 1 .. Len(p)
  BY <1>1, EmptySeq, LenProperties
<1> HIDE DEF p
<1>4. Within(p, q)
  BY <1>1, <1>3 DEF Within
<1>5. \A j \in DOMAIN q : j # 1 => j - 1 \in DOMAIN p /\ p[j - 1] = q[j]
  BY <1>1, <1>3
<1>6. \E j \in DOMAIN q : Head(q) = q[j]
  BY <1>2, <1>3
<1> QED
  BY <1>1, <1>2, <1>4, <1>5, <1>6 DEF Has, HasReal, p

(* ResumeThread and the end of a visit add an event.                        *)
LEMMA AppendQueue ==
  ASSUME NEW q \in Seq(Event), NEW e \in Event
  PROVE  /\ Append(q, e) \in Seq(Event) /\ Append(q, e) # <<>>
         /\ \A i \in DOMAIN Append(q, e) :
              Append(q, e)[i] = e \/ \E j \in DOMAIN q : Append(q, e)[i] = q[j]
         /\ \A u : Has(Append(q, e), u) <=> Has(q, u) \/ e.tid = u
         /\ \A u : HasReal(Append(q, e), u) <=> HasReal(q, u) \/ (e.tid = u /\ e.sig >= 0)
<1> DEFINE p == Append(q, e)
<1>1. /\ p \in Seq(Event) /\ p # <<>> /\ Len(p) = Len(q) + 1
      /\ \A i \in 1 .. Len(q) : p[i] = q[i]
      /\ p[Len(q) + 1] = e
  BY AppendProperties
<1>2. Len(q) \in Nat /\ DOMAIN q = 1 .. Len(q) /\ DOMAIN p = 1 .. Len(p)
  BY <1>1, LenProperties
<1> HIDE DEF p
<1>3. \A i \in DOMAIN p : i \in DOMAIN q \/ i = Len(q) + 1
  BY <1>1, <1>2
<1>4. /\ \A i \in DOMAIN q : i \in DOMAIN p /\ p[i] = q[i]
      /\ Len(q) + 1 \in DOMAIN p
  BY <1>1, <1>2
<1> QED
  BY <1>1, <1>3, <1>4 DEF Has, HasReal, p

(* The search for an event of thread t finds the first one.                 *)
LEMMA FirstOfQueue ==
  ASSUME NEW t, queue \in Seq(Event), Queued(t) # {}
  PROVE  FirstQueued(t) \in DOMAIN queue /\ queue[FirstQueued(t)].tid = t
<1> DEFINE S == Queued(t)
           R == OpToRel(<, Nat)
<1>1. S \in SUBSET Nat /\ S \subseteq DOMAIN queue
  BY LenProperties DEF Queued
<1>2. IsWellFoundedOn(R, Nat)
  BY NatLessThanWellFounded
<1>3. \A i, j \in Nat : i < j => <<i, j>> \in R
  BY DEF OpToRel
<1> HIDE DEF R
<1>4. PICK i \in S : \A j \in S : ~(<<j, i>> \in R)
  <2>1. S # {}
    OBVIOUS
  <2> HIDE DEF S
  <2> QED
    BY <1>1, <1>2, <2>1, WFMin
<1>5. ASSUME NEW j \in S PROVE i <= j
  <2> HIDE DEF S
  <2>1. i \in Nat /\ j \in Nat
    BY <1>1
  <2>2. ~(j < i)
    BY <1>3, <1>4, <2>1
  <2> QED
    BY <2>1, <2>2
<1>6. FirstQueued(t) \in S
  BY <1>4, <1>5 DEF FirstQueued
<1> QED
  BY <1>1, <1>6 DEF Queued

(* SuspendThread and the visits take that event out of the queue.           *)
LEMMA DequeuedQueue ==
  ASSUME NEW t, queue \in Seq(Event)
  PROVE  /\ Dequeued(t) \in Seq(Event) /\ Within(Dequeued(t), queue)
         /\ \A u : u # t /\ Has(queue, u) => Has(Dequeued(t), u)
         /\ \A u : u # t /\ HasReal(queue, u) => HasReal(Dequeued(t), u)
         /\ HasReal(queue, t) => /\ Queued(t) # {}
                                 /\ HasReal(Dequeued(t), t) \/ queue[FirstQueued(t)].sig >= 0
<1>1. CASE Queued(t) = {}
  BY <1>1 DEF Dequeued, Within, Has, HasReal, Queued
<1>2. CASE Queued(t) # {}
  <2> DEFINE k == FirstQueued(t)
             n == Len(queue)
             p == [i \in 1 .. n - 1 |-> IF i < k THEN queue[i] ELSE queue[i + 1]]
  <2>1. k \in DOMAIN queue /\ queue[k].tid = t
    BY <1>2, FirstOfQueue
  <2>2. n \in Nat /\ DOMAIN queue = 1 .. n /\ \A i \in 1 .. n : queue[i] \in Event
    BY LenProperties
  <2>3. Dequeued(t) = p
    BY <1>2 DEF Dequeued
  <2> HIDE DEF k, n
  <2>4. k \in 1 .. n /\ n - 1 \in Nat
    BY <2>1, <2>2
  <2>5. p \in [1 .. n - 1 -> Event]
    BY <2>2, <2>4
  <2>6. p \in Seq(Event)
    <3> DEFINE m == n - 1
    <3>1. m \in Nat /\ p \in [1 .. m -> Event]
      BY <2>4, <2>5
    <3> HIDE DEF m, p
    <3> QED
      BY <3>1, SeqDef
  <2>7. /\ DOMAIN p = 1 .. n - 1
        /\ \A i \in 1 .. n - 1 : p[i] = IF i < k THEN queue[i] ELSE queue[i + 1]
    OBVIOUS
  <2> HIDE DEF p
  <2>8. \A j \in DOMAIN queue : j < k => j \in DOMAIN p /\ p[j] = queue[j]
    BY <2>2, <2>4, <2>7
  <2>9. \A j \in DOMAIN queue : j > k => j - 1 \in DOMAIN p /\ p[j - 1] = queue[j]
    BY <2>2, <2>4, <2>7
  <2>10. \A j \in DOMAIN queue : j # k => \E i \in DOMAIN p : p[i] = queue[j]
    BY <2>2, <2>4, <2>8, <2>9
  <2>11. Within(p, queue)
    BY <2>2, <2>4, <2>7 DEF Within
  <2>12. ASSUME NEW u, u # t, Has(queue, u) PROVE Has(p, u)
    BY <2>1, <2>10, <2>12 DEF Has
  <2>13. ASSUME NEW u, u # t, HasReal(queue, u) PROVE HasReal(p, u)
    BY <2>1, <2>10, <2>13 DEF HasReal
  <2>14. ASSUME HasReal(queue, t) PROVE HasReal(p, t) \/ queue[k].sig >= 0
    BY <2>1, <2>10, <2>14 DEF HasReal
  <2> QED
    BY <1>2, <2>3, <2>6, <2>11, <2>12, <2>13, <2>14 DEF k
<1> QED
  BY <1>1, <1>2

(* StartDebug queues the virtual events.                                    *)
LEMMA VirtualQueue ==
  ASSUME NEW q, q = <<[tid |-> 1, sig |-> CreateProcess]>>
                    \o [t \in Threads |-> [tid |-> t, sig |-> CreateThread]]
  PROVE  q \in Seq(Event) /\ \A i \in DOMAIN q : q[i].tid \in Threads /\ q[i].sig < 0
<1> DEFINE S == {e \in Event : e.tid \in Threads /\ e.sig < 0}
           a == <<[tid |-> 1, sig |-> CreateProcess]>>
           b == [t \in Threads |-> [tid |-> t, sig |-> CreateThread]]
<1>1. [tid |-> 1, sig |-> CreateProcess] \in S
  BY BoundsAssumption DEF Event, Threads, CreateProcess
<1>2. ASSUME NEW t \in Threads PROVE [tid |-> t, sig |-> CreateThread] \in S
  <2>1. t \in 0 .. NumThreads
    BY ThreadIds
  <2>2. CreateThread < 0
    BY DEF CreateThread
  <2> QED
    BY <2>1, <2>2 DEF Event
<1> HIDE DEF S
<1>3. a \in Seq(S)
  BY <1>1
<1>4. b \in Seq(S)
  <2>1. b \in [1 .. NumThreads -> S]
    BY <1>2 DEF Threads
  <2> QED
    <3>1. NumThreads \in Nat
      BY BoundsAssumption
    <3> HIDE DEF b
    <3> QED
      BY <2>1, <3>1, SeqDef
<1> HIDE DEF a, b
<1>5. q \in Seq(S)
  BY <1>3, <1>4, ConcatProperties DEF a, b
<1>6. \A i \in DOMAIN q : q[i] \in S
  BY <1>5, LenProperties
<1>7. q \in Seq(Event)
  BY <1>5, SeqMonotonic DEF S
<1> QED
  BY <1>6, <1>7 DEF S

-----------------------------------------------------------------------------
(* The reply of WaitForDebugEvent                                           *)

LEMMA AtTypes ==
  ASSUME NEW p \in {"select", "sleep", "exited", "stop"}
  PROVE  At(p) \in [pc : {"select", "sleep", "suspend", "stop", "exited"} \cup Visits,
                    tid : 0 .. NumThreads, back : {"select", "sleep"}]
BY BoundsAssumption DEF At

LEMMA ReportTypes ==
  ASSUME PlaceTypes, HistoryTypes, PlaceInv, NEW e \in Event, Report(e),
         UNCHANGED <<holders, mode, refused, nullEvent, commands>>
  PROVE  PlaceTypes' /\ HistoryTypes'
<1>1. tracer' \in [pc : {"select", "sleep", "suspend", "stop", "exited"} \cup Visits,
                   tid : 0 .. NumThreads, back : {"select", "sleep"}]
  BY AtTypes DEF Report
<1>2. shown' \in [Threads -> Nat]
  <2>1. CASE e.sig > 0
    <3>1. shown' = [shown EXCEPT ![e.tid] = shown[e.tid] + 1]
      BY <2>1 DEF Report
    <3>2. \A u \in Threads : shown[u] \in Nat /\ shown[u] + 1 \in Nat
      BY DEF HistoryTypes
    <3> QED
      BY <3>1, <3>2 DEF HistoryTypes
  <2>2. CASE ~(e.sig > 0)
    BY <2>2 DEF Report, HistoryTypes
  <2> QED
    BY <2>1, <2>2
<1>3. client' \in [pc : {"start", "wait", "waiting", "got", "close", "gone"},
                   event : Event, events : 0 .. MaxEvents, left : Requests \cup {"none"}]
  <2>1. CASE client.pc \in {"wait", "waiting"}
    <3> DEFINE n == client.events + 1
    <3>1. n \in 0 .. MaxEvents
      BY <2>1, BoundsAssumption DEF PlaceInv, PlaceTypes, Asked, Requests
    <3>2. client' = [client EXCEPT !.pc = "got", !.event = e, !.events = n]
      BY <2>1 DEF Report
    <3> HIDE DEF n
    <3> QED
      BY <3>1, <3>2 DEF PlaceTypes, Requests
  <2>2. CASE client.pc \notin {"wait", "waiting"}
    BY <2>2 DEF Report, PlaceTypes, Requests
  <2> QED
    BY <2>1, <2>2
<1> QED
  BY <1>1, <1>2, <1>3 DEF PlaceTypes, HistoryTypes, Requests

-----------------------------------------------------------------------------
(* The steps that leave the debugger alone                                  *)

(* A step of the client or of another connection that changes nothing but   *)
(* where the client is, who holds the handle and what is counted.           *)
Quiet ==
  /\ UNCHANGED <<kernelVars, dataVars, tracer, mode, shown, refused, nullEvent, stray, wiped>>
  /\ commands' \in {commands, commands + 1}
  /\ holders' \subseteq {"trace", "other"}
  /\ \/ client' = client
     \/ /\ client'.pc \in {"close", "gone"} /\ Over => client'.pc = "gone"
        /\ client'.left \in {"none", client.left} \cup ({client.pc} \cap Requests)
        /\ client'.left = "got" => client'.event = client.event
        /\ client' \in [pc : {"close", "gone"}, event : Event, events : 0 .. MaxEvents,
                        left : Requests \cup {"none"}]

LEMMA QuietStep ==
  ASSUME IInv, Quiet
  PROVE  IInv'
<1>1. KernelTypes'
  BY DEF IInv, TypeInv, KernelTypes, Quiet, kernelVars, dataVars
<1>2. DataTypes'
  BY DEF IInv, TypeInv, DataTypes, Quiet, kernelVars, dataVars
<1>3. PlaceTypes'
  BY DEF IInv, TypeInv, PlaceTypes, Quiet, kernelVars, dataVars, Requests
<1>4. HistoryTypes'
  BY DEF IInv, TypeInv, HistoryTypes, Quiet, kernelVars, dataVars
<1>5. PlaceInv'
  BY DEF IInv, PlaceInv, Sleeping, Over, Visits, Quiet, kernelVars, dataVars, Asked, Requests
<1>6. KernelInv'
  BY DEF IInv, KernelInv, Quiet, kernelVars, dataVars, Asked, Requests
<1>7. QueueInv'
  BY DEF IInv, QueueInv, Sleeping, Visits, Quiet, kernelVars, dataVars
<1>8. PausedInv'
  BY DEF IInv, PausedInv, EventIsFound, Quiet, kernelVars, dataVars
<1>9. KnownInv'
  BY DEF IInv, KnownInv, Known, Over, Quiet, kernelVars, dataVars
<1>10. HeldInv'
  BY DEF IInv, HeldInv, Held, Over, Visits, Quiet, kernelVars, dataVars
<1>11. OnceInv'
  BY DEF IInv, TypeInv, KernelTypes, DataTypes, HistoryTypes, OnceInv, Over, Visits, Quiet,
     kernelVars, dataVars, Asked, Requests
<1> QED
  BY <1>1, <1>2, <1>3, <1>4, <1>5, <1>6, <1>7, <1>8, <1>9, <1>10, <1>11 DEF IInv, TypeInv

LEMMA QuietSteps ==
  ASSUME IInv,
         StartFails \/ Interrupt \/ Deadline \/ CloseTrace \/ Die \/ OtherOpen \/ OtherClose
           \/ VisitTimesOut \/ \E t \in Threads : ResumeRefused(t)
  PROVE  IInv'
<1>2. ASSUME StartFails PROVE Quiet
  BY <1>2, EventNumbers DEF Quiet, IInv, TypeInv, PlaceTypes, HistoryTypes, StartFails,
     PlaceInv, Over,
     kernelVars, dataVars, visitVars, quietVars, historyVars, Requests, Reads, Answered
<1>3. ASSUME Interrupt PROVE Quiet
  BY <1>3, EventNumbers DEF Quiet, IInv, TypeInv, PlaceTypes, HistoryTypes, Interrupt, PlaceInv,
     Over, kernelVars, dataVars, visitVars, quietVars, historyVars, Asked, Requests
<1>4. ASSUME Deadline PROVE Quiet
  BY <1>4, EventNumbers DEF Quiet, IInv, TypeInv, PlaceTypes, HistoryTypes, Deadline, Visits,
     Over,
     kernelVars, dataVars, visitVars, quietVars, historyVars, Requests
<1>5. ASSUME CloseTrace PROVE Quiet
  BY <1>5, EventNumbers DEF Quiet, IInv, TypeInv, PlaceTypes, HistoryTypes, CloseTrace,
     kernelVars, dataVars, visitVars, quietVars, historyVars, Requests
<1>6. ASSUME Die PROVE Quiet
  BY <1>6, EventNumbers DEF Quiet, IInv, TypeInv, PlaceTypes, HistoryTypes, Die, kernelVars,
     dataVars, visitVars, quietVars, historyVars, Requests
<1>7. ASSUME OtherOpen PROVE Quiet
  BY <1>7, EventNumbers DEF Quiet, IInv, TypeInv, PlaceTypes, HistoryTypes, OtherOpen,
     kernelVars, dataVars, visitVars, quietVars, historyVars, Requests
<1>8. ASSUME OtherClose PROVE Quiet
  BY <1>8, EventNumbers DEF Quiet, IInv, TypeInv, PlaceTypes, HistoryTypes, OtherClose,
     kernelVars, dataVars, visitVars, quietVars, historyVars, Requests
<1>9. ASSUME VisitTimesOut PROVE Quiet
  BY <1>9, EventNumbers DEF Quiet, IInv, TypeInv, PlaceTypes, HistoryTypes, VisitTimesOut,
     kernelVars, dataVars, visitVars, quietVars, historyVars, Requests
<1>10. ASSUME NEW t \in Threads, ResumeRefused(t) PROVE Quiet
  BY <1>10, EventNumbers DEF Quiet, IInv, TypeInv, PlaceTypes, HistoryTypes, ResumeRefused,
     Passed, kernelVars, dataVars, visitVars, quietVars, historyVars, Requests
<1> QED
  BY <1>2, <1>3, <1>4, <1>5, <1>6, <1>7, <1>8, <1>9, <1>10, QuietStep

-----------------------------------------------------------------------------
(* The kernel and the target                                                *)

LEMMA RaiseStep ==
  ASSUME IInv, NEW t \in Threads, NEW s \in Raised, Raise(t, s)
  PROVE  IInv'
<1>1. KernelTypes'
  BY SignalNumbers DEF IInv, TypeInv, KernelTypes, Raise
<1>2. DataTypes'
  BY DEF IInv, TypeInv, DataTypes, Raise, dataVars, visitVars, quietVars
<1>3. PlaceTypes'
  BY DEF IInv, TypeInv, PlaceTypes, Raise, dataVars, visitVars, quietVars, Requests
<1>4. HistoryTypes'
  BY DEF IInv, TypeInv, HistoryTypes, Raise, dataVars, visitVars, quietVars
<1>5. PlaceInv'
  BY DEF IInv, PlaceInv, Sleeping, Over, Visits, Raise, dataVars, visitVars, quietVars, Asked,
     Requests
<1>6. KernelInv'
  BY DEF IInv, KernelInv, Raise, dataVars, visitVars, quietVars, Asked, Requests
<1>7. QueueInv'
  BY DEF IInv, QueueInv, Sleeping, Visits, Raise, dataVars, visitVars, quietVars
<1>8. PausedInv'
  BY DEF IInv, PausedInv, EventIsFound, Raise, dataVars, visitVars, quietVars
<1>9. KnownInv'
  BY DEF IInv, KnownInv, Known, Over, Raise, dataVars, visitVars, quietVars
<1>10. HeldInv'
  BY DEF IInv, HeldInv, Held, Over, Visits, Raise, dataVars, visitVars, quietVars
<1>11. OnceInv'
  BY DEF IInv, OnceInv, Over, Visits, Raise, dataVars, visitVars, quietVars, Asked, Requests
<1> QED
  BY <1>1, <1>2, <1>3, <1>4, <1>5, <1>6, <1>7, <1>8, <1>9, <1>10, <1>11 DEF IInv, TypeInv

LEMMA StopStep ==
  ASSUME IInv, NEW t \in Threads, NEW s \in Signals, Stop(t, s)
  PROVE  IInv'
<1>1. KernelTypes'
  BY DEF IInv, TypeInv, KernelTypes, Stop, dataVars, visitVars, quietVars, historyVars
<1>2. DataTypes'
  BY DEF IInv, TypeInv, DataTypes, Stop, dataVars, visitVars, quietVars, historyVars
<1>3. PlaceTypes'
  BY DEF IInv, TypeInv, PlaceTypes, Stop, dataVars, visitVars, quietVars, historyVars, Requests
<1>4. HistoryTypes'
  BY DEF IInv, TypeInv, HistoryTypes, Stop, dataVars, visitVars, quietVars, historyVars
<1>5. PlaceInv'
  BY DEF IInv, PlaceInv, Sleeping, Over, Visits, Stop, dataVars, visitVars, quietVars,
     historyVars, Asked, Requests
<1>6. KernelInv'
  BY DEF IInv, KernelInv, Stop, dataVars, visitVars, quietVars, historyVars, Asked, Requests
<1>7. QueueInv'
  BY DEF IInv, QueueInv, Sleeping, Visits, Stop, dataVars, visitVars, quietVars, historyVars
<1>8. PausedInv'
  BY DEF IInv, PausedInv, EventIsFound, Stop, dataVars, visitVars, quietVars, historyVars
<1>9. KnownInv'
  BY DEF IInv, KnownInv, Known, Over, Stop, dataVars, visitVars, quietVars, historyVars
<1>10. HeldInv'
  BY SignalNumbers DEF IInv, TypeInv, KernelTypes, Over, HeldInv, Held, Stop, dataVars,
     visitVars, quietVars
<1>11. OnceInv'
  BY DEF IInv, OnceInv, Over, Visits, Stop, dataVars, visitVars, quietVars, historyVars,
     Asked, Requests
<1> QED
  BY <1>1, <1>2, <1>3, <1>4, <1>5, <1>6, <1>7, <1>8, <1>9, <1>10, <1>11 DEF IInv, TypeInv

-----------------------------------------------------------------------------
(* StartDebug and WaitForDebugEvent                                         *)

LEMMA StartDebugStep ==
  ASSUME IInv, StartDebug
  PROVE  IInv'
<1>0. queue' \in Seq(Event) /\ \A i \in DOMAIN queue' :
                                   queue'[i].tid \in Threads /\ queue'[i].sig < 0
  BY VirtualQueue DEF StartDebug, Reads, Answered
<1>1. KernelTypes'
  BY SignalNumbers DEF IInv, TypeInv, KernelTypes, StartDebug, Reads, Answered
<1>2. DataTypes'
  BY <1>0 DEF IInv, TypeInv, DataTypes, StartDebug, visitVars, quietVars, historyVars, Reads,
     Answered
<1>3. PlaceTypes'
  BY EventNumbers DEF IInv, TypeInv, PlaceTypes, StartDebug, visitVars, quietVars, historyVars,
     Requests, Reads, Answered
<1>4. HistoryTypes'
  BY DEF IInv, TypeInv, HistoryTypes, StartDebug, visitVars, quietVars, historyVars, Reads,
     Answered
<1>5. PlaceInv'
  BY DEF IInv, PlaceInv, Sleeping, Over, Visits, StartDebug, visitVars, quietVars, historyVars,
     Asked, Requests, Reads, Answered
<1>6. KernelInv'
  BY DEF IInv, KernelInv, PlaceInv, StartDebug, visitVars, quietVars, historyVars,
     Asked, Requests, Reads, Answered
<1>7. QueueInv'
  BY <1>0 DEF IInv, QueueInv, Sleeping, Visits, StartDebug, visitVars, quietVars, historyVars,
     Reads, Answered
<1>8. PausedInv'
  BY DEF IInv, KernelInv, PausedInv, EventIsFound, StartDebug, historyVars,
     Asked, Requests, Reads, Answered
<1>9. KnownInv'
  BY DEF IInv, KernelInv, KnownInv, StartDebug, Asked, Requests, Reads, Answered
<1>10. HeldInv'
  BY DEF IInv, HeldInv, Held, Over, Visits, StartDebug, visitVars, quietVars, historyVars,
     Reads, Answered
<1>11. OnceInv'
  BY <1>0, SignalNumbers DEF IInv, TypeInv, KernelTypes, Over, OnceInv, StartDebug, historyVars,
     Asked, Requests, Reads, Answered
<1> QED
  BY <1>1, <1>2, <1>3, <1>4, <1>5, <1>6, <1>7, <1>8, <1>9, <1>10, <1>11 DEF IInv, TypeInv

LEMMA WaitReturnsCurrentStep ==
  ASSUME IInv, WaitReturnsCurrent
  PROVE  IInv'
<1>0. current \in Event
  BY DEF IInv, TypeInv, DataTypes
<1>1. KernelTypes'
  BY DEF IInv, TypeInv, KernelTypes, WaitReturnsCurrent, Served, Report, At, kernelVars,
     dataVars, visitVars, quietVars, Reads
<1>2. DataTypes'
  BY DEF IInv, TypeInv, DataTypes, WaitReturnsCurrent, Served, Report, At, kernelVars, dataVars,
     visitVars, quietVars, Reads
<1>3. PlaceTypes'
  BY <1>0, ReportTypes DEF IInv, TypeInv, WaitReturnsCurrent, visitVars, quietVars
<1>4. HistoryTypes'
  BY <1>0, ReportTypes DEF IInv, TypeInv, WaitReturnsCurrent, visitVars, quietVars
<1>5. PlaceInv'
  BY ThreadIds, EventNumbers DEF IInv, TypeInv, DataTypes, PlaceInv, Sleeping, Over, Visits,
     WaitReturnsCurrent, Report, At, dataVars, Asked, Requests
<1>6. KernelInv'
  BY DEF IInv, KernelInv, WaitReturnsCurrent, Served, Report, At, kernelVars, dataVars,
     visitVars, quietVars, Asked, Requests, Reads
<1>7. QueueInv'
  BY DEF IInv, QueueInv, Sleeping, Visits, WaitReturnsCurrent, Served, Report, At, kernelVars,
     dataVars, visitVars, quietVars, Reads
<1>8. PausedInv'
  BY DEF IInv, PausedInv, EventIsFound, WaitReturnsCurrent, Served, Report, At, kernelVars,
     dataVars, visitVars, quietVars, Reads
<1>9. KnownInv'
  BY DEF IInv, KnownInv, Known, Over, WaitReturnsCurrent, Served, Report, At, kernelVars,
     dataVars, visitVars, quietVars, Reads
<1>10. HeldInv'
  BY DEF IInv, HeldInv, Held, Over, Visits, WaitReturnsCurrent, Served, Report, At, kernelVars,
     dataVars, visitVars, quietVars, Reads
<1>11. OnceInv'
  BY DEF IInv, OnceInv, Over, Visits, WaitReturnsCurrent, Served, Report, At, kernelVars,
     dataVars, visitVars, quietVars, Asked, Requests, Reads
<1> QED
  BY <1>1, <1>2, <1>3, <1>4, <1>5, <1>6, <1>7, <1>8, <1>9, <1>10, <1>11 DEF IInv, TypeInv

LEMMA WaitReturnsStopStep ==
  ASSUME IInv, NEW t \in Threads, WaitReturnsStop(t)
  PROVE  IInv'
<1> DEFINE e == [tid |-> t, sig |-> stop[t]]
<1>0. e \in Event /\ e.tid = t /\ e.sig = stop[t] /\ e.sig > 0 /\ stop[t] > 0
  BY EventNumbers, SignalNumbers DEF IInv, TypeInv, KernelTypes, WaitReturnsStop, Consume,
     Waitable
<1>a. /\ current' = e /\ Report(e)
      /\ consumed' = [consumed EXCEPT ![t] = TRUE] /\ ~consumed[t] /\ attached[t]
      /\ isPaused' = [NothingPaused EXCEPT ![t] = TRUE]
      /\ UNCHANGED <<attached, stop, pending, queue, suspendCount, suspendedDevent, holders,
                     mode, breaks, stray, wiped, refused, nullEvent, commands>>
  BY DEF WaitReturnsStop, Consume, Waitable, visitVars, quietVars
<1>b. Asked("wait") /\ tracer.pc = "select" /\ current.tid = 0 /\ queue = <<>>
  BY DEF WaitReturnsStop, Served, Reads, Asked
<1> HIDE DEF e
<1>1. KernelTypes'
  BY <1>0, <1>a, <1>b DEF IInv, TypeInv, KernelTypes, NothingPaused
<1>2. DataTypes'
  BY <1>0, <1>a, <1>b DEF IInv, TypeInv, DataTypes, NothingPaused
<1>3. PlaceTypes'
  BY <1>0, <1>a, ReportTypes DEF IInv, TypeInv
<1>4. HistoryTypes'
  BY <1>0, <1>a, ReportTypes DEF IInv, TypeInv
<1>5. PlaceInv'
  BY <1>0, <1>a, <1>b DEF IInv, PlaceInv, Sleeping, Over, Visits, NothingPaused, Report, At,
     Asked, Requests
<1>6. KernelInv'
  BY <1>0, <1>a, <1>b DEF IInv, KernelInv, NothingPaused, Report, At, Asked, Requests
<1>7. QueueInv'
  BY <1>0, <1>a, <1>b DEF IInv, QueueInv, Sleeping, Visits, NothingPaused, Report, At
<1>8. PausedInv'
  BY <1>0, <1>a, EventNumbers DEF IInv, PausedInv, EventIsFound, NothingPaused
<1>9. KnownInv'
  BY <1>0, <1>a, <1>b, ThreadIds, SignalNumbers DEF IInv, TypeInv, KernelTypes, Over, KnownInv,
     Known
<1>10. HeldInv'
  BY <1>0, <1>a, <1>b DEF IInv, HeldInv, Held, Over, Visits, NothingPaused, Report, At
<1>11. OnceInv'
  BY <1>0, <1>a, <1>b DEF IInv, TypeInv, KernelTypes, DataTypes, HistoryTypes, PlaceInv,
     OnceInv, Over,
     Visits, NothingPaused, Report, At, Asked, Requests
<1> QED
  BY <1>1, <1>2, <1>3, <1>4, <1>5, <1>6, <1>7, <1>8, <1>9, <1>10, <1>11 DEF IInv, TypeInv

LEMMA WaitSleepsStep ==
  ASSUME IInv, WaitSleeps
  PROVE  IInv'
<1>1. KernelTypes'
  BY DEF IInv, TypeInv, KernelTypes, WaitSleeps, Served, At, NothingPaused, kernelVars,
     visitVars, quietVars, historyVars, Reads, Answered
<1>2. DataTypes'
  BY DEF IInv, TypeInv, DataTypes, WaitSleeps, Served, At, NothingPaused, kernelVars, visitVars,
     quietVars, historyVars, Reads, Answered
<1>3. PlaceTypes'
  <2>1. tracer' = At("sleep") /\ holders' = holders /\ mode' = mode
    BY DEF WaitSleeps, quietVars
  <2>2. client' \in [pc : {"start", "wait", "waiting", "got", "close", "gone"},
                     event : Event, events : 0 .. MaxEvents, left : Requests \cup {"none"}]
    BY EventNumbers DEF IInv, TypeInv, PlaceTypes, WaitSleeps, Answered, Requests
  <2> QED
    BY <2>1, <2>2, AtTypes DEF IInv, TypeInv, PlaceTypes
<1>4. HistoryTypes'
  BY DEF IInv, TypeInv, HistoryTypes, WaitSleeps, Served, At, NothingPaused, kernelVars,
     visitVars, quietVars, historyVars, Reads, Answered
<1>5. PlaceInv'
  BY DEF IInv, PlaceInv, Sleeping, Over, Visits, WaitSleeps, Served, At, NothingPaused,
     kernelVars, visitVars, quietVars, historyVars, Asked, Requests, Reads, Answered
<1>6. KernelInv'
  BY DEF IInv, KernelInv, WaitSleeps, Served, At, NothingPaused, kernelVars, visitVars,
     quietVars, historyVars, Asked, Requests, Reads, Answered
<1>7. QueueInv'
  BY DEF IInv, QueueInv, Sleeping, Visits, WaitSleeps, Served, At, NothingPaused, kernelVars,
     visitVars, quietVars, historyVars, Reads, Answered
<1>8. PausedInv'
  BY DEF IInv, PausedInv, EventIsFound, WaitSleeps, Served, At, NothingPaused, kernelVars,
     visitVars, quietVars, historyVars, Reads, Answered
<1>9. KnownInv'
  BY DEF IInv, KnownInv, Known, Over, WaitSleeps, Served, At, NothingPaused, kernelVars,
     visitVars, quietVars, historyVars, Reads, Answered
<1>10. HeldInv'
  BY DEF IInv, HeldInv, Held, Over, Visits, WaitSleeps, Served, At, NothingPaused, kernelVars,
     visitVars, quietVars, historyVars, Reads, Answered
<1>11. OnceInv'
  BY DEF IInv, OnceInv, Over, Visits, WaitSleeps, Served, At, NothingPaused, kernelVars,
     visitVars, quietVars, historyVars, Asked, Requests, Reads, Answered
<1> QED
  BY <1>1, <1>2, <1>3, <1>4, <1>5, <1>6, <1>7, <1>8, <1>9, <1>10, <1>11 DEF IInv, TypeInv

LEMMA WakeForStopStep ==
  ASSUME IInv, NEW t \in Threads, WakeForStop(t)
  PROVE  IInv'
<1> DEFINE e == [tid |-> t, sig |-> stop[t]]
<1>0. e \in Event /\ e.tid = t /\ e.sig = stop[t] /\ e.sig > 0 /\ stop[t] > 0
  BY EventNumbers, SignalNumbers DEF IInv, TypeInv, KernelTypes, WakeForStop, Consume, Waitable
<1>a. /\ current' = e /\ Report(e)
      /\ consumed' = [consumed EXCEPT ![t] = TRUE] /\ ~consumed[t] /\ attached[t]
      /\ isPaused' = [isPaused EXCEPT ![t] = TRUE]
      /\ UNCHANGED <<attached, stop, pending, queue, suspendCount, suspendedDevent, holders,
                     mode, breaks, stray, wiped, refused, nullEvent, commands>>
  BY DEF WakeForStop, Consume, Waitable, visitVars, quietVars
<1>b. tracer.pc = "sleep" /\ queue = <<>>
  BY DEF WakeForStop, Served, Reads
<1> HIDE DEF e
<1>1. KernelTypes'
  BY <1>0, <1>a, <1>b DEF IInv, TypeInv, KernelTypes
<1>2. DataTypes'
  BY <1>0, <1>a, <1>b DEF IInv, TypeInv, DataTypes
<1>3. PlaceTypes'
  BY <1>0, <1>a, ReportTypes DEF IInv, TypeInv
<1>4. HistoryTypes'
  BY <1>0, <1>a, ReportTypes DEF IInv, TypeInv
<1>5. PlaceInv'
  BY <1>0, <1>a, <1>b DEF IInv, PlaceInv, Sleeping, Over, Visits, Report, At, Asked, Requests
<1>6. KernelInv'
  BY <1>0, <1>a, <1>b DEF IInv, KernelInv, Report, At, Asked, Requests
<1>7. QueueInv'
  BY <1>0, <1>a, <1>b DEF IInv, QueueInv, Sleeping, Visits, Report, At
<1>8. PausedInv'
  BY <1>0, <1>a, <1>b, ThreadIds, EventNumbers DEF IInv, PlaceInv, Sleeping, PausedInv,
     EventIsFound, Asked, Requests
<1>9. KnownInv'
  BY <1>0, <1>a, <1>b, ThreadIds, SignalNumbers DEF IInv, TypeInv, KernelTypes, PlaceInv,
     Sleeping, Over, KnownInv, Known, Asked, Requests
<1>10. HeldInv'
  BY <1>0, <1>a, <1>b DEF IInv, HeldInv, Held, Over, Visits, Report, At
<1>11. OnceInv'
  BY <1>0, <1>a, <1>b DEF IInv, TypeInv, KernelTypes, PlaceInv, OnceInv, Over, Visits, Report,
     At, Asked, Requests
<1> QED
  BY <1>1, <1>2, <1>3, <1>4, <1>5, <1>6, <1>7, <1>8, <1>9, <1>10, <1>11 DEF IInv, TypeInv

LEMMA WaitTimesOutStep ==
  ASSUME IInv, WaitTimesOut
  PROVE  IInv'
<1>1. KernelTypes'
  BY DEF IInv, TypeInv, KernelTypes, WaitTimesOut, At, kernelVars, dataVars, visitVars,
     quietVars, historyVars
<1>2. DataTypes'
  BY DEF IInv, TypeInv, DataTypes, WaitTimesOut, At, kernelVars, dataVars, visitVars, quietVars,
     historyVars
<1>3. PlaceTypes'
  BY AtTypes DEF IInv, TypeInv, PlaceTypes, WaitTimesOut, At, kernelVars, dataVars, visitVars,
     quietVars, historyVars, Requests
<1>4. HistoryTypes'
  BY DEF IInv, TypeInv, HistoryTypes, WaitTimesOut, At, kernelVars, dataVars, visitVars,
     quietVars, historyVars
<1>5. PlaceInv'
  BY DEF IInv, PlaceInv, Sleeping, Over, Visits, WaitTimesOut, At, kernelVars, dataVars,
     visitVars, quietVars, historyVars, Asked, Requests
<1>6. KernelInv'
  BY DEF IInv, KernelInv, WaitTimesOut, At, kernelVars, dataVars, visitVars, quietVars,
     historyVars, Asked, Requests
<1>7. QueueInv'
  BY DEF IInv, QueueInv, Sleeping, Visits, WaitTimesOut, At, kernelVars, dataVars, visitVars,
     quietVars, historyVars
<1>8. PausedInv'
  BY DEF IInv, PausedInv, EventIsFound, WaitTimesOut, At, kernelVars, dataVars, visitVars,
     quietVars, historyVars
<1>9. KnownInv'
  BY DEF IInv, KnownInv, Known, Over, WaitTimesOut, At, kernelVars, dataVars, visitVars,
     quietVars, historyVars
<1>10. HeldInv'
  BY DEF IInv, HeldInv, Held, Over, Visits, WaitTimesOut, At, kernelVars, dataVars, visitVars,
     quietVars, historyVars
<1>11. OnceInv'
  BY DEF IInv, OnceInv, Over, Visits, WaitTimesOut, At, kernelVars, dataVars, visitVars,
     quietVars, historyVars, Asked, Requests
<1> QED
  BY <1>1, <1>2, <1>3, <1>4, <1>5, <1>6, <1>7, <1>8, <1>9, <1>10, <1>11 DEF IInv, TypeInv

LEMMA WaitReturnsQueuedStep ==
  ASSUME IInv, WaitReturnsQueued
  PROVE  IInv'
<1>0. queue \in Seq(Event) /\ queue # <<>>
  BY DEF IInv, TypeInv, DataTypes, WaitReturnsQueued
<1> DEFINE h == Head(queue)
           q == Tail(queue)
<1>a. /\ q \in Seq(Event) /\ h \in Event /\ Within(q, queue)
      /\ \E j \in DOMAIN queue : h = queue[j]
      /\ \A u : Has(queue, u) => Has(q, u) \/ h.tid = u
      /\ \A u : HasReal(queue, u) => HasReal(q, u) \/ (h.tid = u /\ h.sig >= 0)
  BY <1>0, TailQueue
<1>b. /\ current' = h /\ Report(h) /\ queue' = q /\ isPaused' = NothingPaused
      /\ Asked("wait") /\ tracer.pc = "select" /\ current.tid = 0
      /\ UNCHANGED <<attached, stop, consumed, pending, suspendCount, suspendedDevent, holders,
                     mode, breaks, stray, wiped, refused, nullEvent, commands>>
  BY DEF WaitReturnsQueued, Served, kernelVars, visitVars, quietVars, Reads, Asked
<1>c. h.tid \in Threads /\ h.sig \in Int /\ (commands = 0 => h.sig < 0)
  BY <1>a, EventNumbers DEF IInv, QueueInv, OnceInv, Asked, Requests
<1> HIDE DEF h, q
<1>1. KernelTypes'
  BY <1>a, <1>b, <1>c DEF IInv, TypeInv, KernelTypes, NothingPaused, Report, At
<1>2. DataTypes'
  BY <1>a, <1>b, <1>c DEF IInv, TypeInv, DataTypes, NothingPaused, Report, At
<1>3. PlaceTypes'
  BY <1>a, <1>b, ReportTypes DEF IInv, TypeInv
<1>4. HistoryTypes'
  BY <1>a, <1>b, ReportTypes DEF IInv, TypeInv
<1>5. PlaceInv'
  BY <1>a, <1>b, <1>c DEF IInv, PlaceInv, Sleeping, Over, Visits, NothingPaused, Report, At,
     Asked, Requests
<1>6. KernelInv'
  BY <1>a, <1>b, <1>c DEF IInv, KernelInv, NothingPaused, Report, At, Asked, Requests
<1>7. QueueInv'
  BY <1>a, <1>b, <1>c DEF IInv, QueueInv, Sleeping, Visits, NothingPaused, Report, At, Within
<1>8. PausedInv'
  BY <1>a, <1>b, <1>c DEF IInv, PausedInv, EventIsFound, NothingPaused, Report, At
<1>9. KnownInv'
  BY <1>a, <1>b, ThreadIds DEF IInv, Over, KnownInv, Known
<1>10. HeldInv'
  BY <1>a, <1>b, <1>c DEF IInv, HeldInv, Held, Over, Visits, NothingPaused, Report, At
<1>11. OnceInv'
  BY <1>a, <1>b, <1>c DEF IInv, PlaceInv, OnceInv, Over, Visits, NothingPaused, Report, At,
     Within, Asked, Requests
<1> QED
  BY <1>1, <1>2, <1>3, <1>4, <1>5, <1>6, <1>7, <1>8, <1>9, <1>10, <1>11 DEF IInv, TypeInv

LEMMA WakeForQueuedStep ==
  ASSUME IInv, WakeForQueued
  PROVE  IInv'
<1>0. queue \in Seq(Event) /\ queue # <<>>
  BY DEF IInv, TypeInv, DataTypes, WakeForQueued
<1> DEFINE h == Head(queue)
           q == Tail(queue)
           e == [tid |-> h.tid, sig |-> StopSignal(h.tid)]
<1>a. /\ q \in Seq(Event) /\ h \in Event /\ Within(q, queue)
      /\ \E j \in DOMAIN queue : h = queue[j]
      /\ \A u : Has(queue, u) => Has(q, u) \/ h.tid = u
      /\ \A u : HasReal(queue, u) => HasReal(q, u) \/ (h.tid = u /\ h.sig >= 0)
  BY <1>0, TailQueue
<1>b. /\ current' = e /\ Report(e) /\ queue' = q /\ isPaused' = [isPaused EXCEPT ![h.tid] = TRUE]
      /\ tracer.pc = "sleep"
      /\ UNCHANGED <<attached, stop, consumed, pending, suspendCount, suspendedDevent, holders,
                     mode, breaks, stray, wiped, refused, nullEvent, commands>>
  BY DEF WakeForQueued, kernelVars, visitVars, quietVars
<1>c. h.tid \in Threads /\ stop[h.tid] # 0 /\ commands # 0
  BY <1>0, <1>a, <1>b DEF IInv, QueueInv, OnceInv, Sleeping, Asked, Requests
<1>d. e \in Event /\ e.tid = h.tid /\ e.sig = stop[h.tid] /\ e.sig > 0
  BY <1>c, StopSignals DEF IInv, TypeInv
<1> HIDE DEF h, q, e
<1>1. KernelTypes'
  BY <1>a, <1>b, <1>c, <1>d DEF IInv, TypeInv, KernelTypes, Report, At
<1>2. DataTypes'
  BY <1>a, <1>b, <1>c, <1>d DEF IInv, TypeInv, DataTypes, Report, At
<1>3. PlaceTypes'
  BY <1>b, <1>d, ReportTypes DEF IInv, TypeInv
<1>4. HistoryTypes'
  BY <1>b, <1>d, ReportTypes DEF IInv, TypeInv
<1>5. PlaceInv'
  BY <1>a, <1>b, <1>c, <1>d DEF IInv, PlaceInv, Sleeping, Over, Visits, Report, At, Asked,
     Requests
<1>6. KernelInv'
  BY <1>a, <1>b, <1>c, <1>d DEF IInv, KernelInv, Report, At, Asked, Requests
<1>7. QueueInv'
  BY <1>a, <1>b, <1>c, <1>d DEF IInv, QueueInv, Sleeping, Visits, Report, At, Within
<1>8. PausedInv'
  <2>1. SUFFICES ASSUME NEW u \in Threads, isPaused'[u], suspendCount'[u] = 0
                 PROVE  Has(queue', u) \/ (current'.tid = u /\ current'.sig >= 0)
    BY <1>b DEF IInv, PausedInv, EventIsFound
  <2>2. CASE u = h.tid
    BY <1>b, <1>d, <2>2, EventNumbers
  <2>3. CASE u # h.tid
    <3>1. isPaused[u] /\ suspendCount[u] = 0 /\ current.tid # u
      BY <1>b, <2>1, <2>3, ThreadIds DEF IInv, TypeInv, DataTypes, PlaceInv, Sleeping, Asked,
         Requests
    <3> QED
      BY <1>a, <1>b, <2>3, <3>1 DEF IInv, PausedInv
  <2> QED
    BY <2>2, <2>3
<1>9. KnownInv'
  BY <1>a, <1>b, <1>d, ThreadIds, SignalNumbers DEF IInv, TypeInv, KernelTypes, PlaceInv,
     Sleeping, Over, KnownInv, Known, Asked, Requests
<1>10. HeldInv'
  BY <1>a, <1>b, <1>c, <1>d DEF IInv, HeldInv, Held, Over, Visits, Report, At
<1>11. OnceInv'
  BY <1>a, <1>b, <1>c, <1>d DEF IInv, OnceInv, Over, Visits, Report, At, Asked, Requests
<1> QED
  BY <1>1, <1>2, <1>3, <1>4, <1>5, <1>6, <1>7, <1>8, <1>9, <1>10, <1>11 DEF IInv, TypeInv

-----------------------------------------------------------------------------
(* ContinueFromDebugEvent                                                   *)

LEMMA ContinueVirtualStep ==
  ASSUME IInv, ContinueVirtual
  PROVE  IInv'
<1>1. KernelTypes'
  BY DEF IInv, TypeInv, KernelTypes, ContinueVirtual, Continues, Proceed, NoEvent, kernelVars,
     visitVars, quietVars, historyVars, Reads, Answered
<1>2. DataTypes'
  BY EventNumbers DEF IInv, TypeInv, DataTypes, ContinueVirtual
<1>3. PlaceTypes'
  BY EventNumbers DEF IInv, TypeInv, PlaceTypes, ContinueVirtual, Proceed, quietVars, Requests,
     Answered
<1>4. HistoryTypes'
  BY DEF IInv, TypeInv, HistoryTypes, ContinueVirtual, Continues, Proceed, NoEvent, kernelVars,
     visitVars, quietVars, historyVars, Reads, Answered
<1>5. PlaceInv'
  BY DEF IInv, PlaceInv, Sleeping, Over, Visits, ContinueVirtual, Continues, Proceed, NoEvent,
     kernelVars, visitVars, quietVars, historyVars, Asked, Requests, Reads, Answered
<1>6. KernelInv'
  BY DEF IInv, KernelInv, ContinueVirtual, Continues, Proceed, NoEvent, kernelVars, visitVars,
     quietVars, historyVars, Asked, Requests, Reads, Answered
<1>7. QueueInv'
  BY DEF IInv, QueueInv, Sleeping, Visits, ContinueVirtual, Continues, Proceed, NoEvent,
     kernelVars, visitVars, quietVars, historyVars, Reads, Answered
<1>8. PausedInv'
  BY EventNumbers DEF IInv, TypeInv, DataTypes, PausedInv, EventIsFound, ContinueVirtual,
     historyVars
<1>9. KnownInv'
  <2>1. /\ current \in Event /\ current.sig < 0
        /\ UNCHANGED <<consumed, queue, suspendCount, suspendedDevent, wiped, tracer>>
    BY DEF ContinueVirtual, IInv, TypeInv, DataTypes, kernelVars, visitVars, quietVars
  <2>2. ~(current.sig >= 0)
    BY <2>1, EventNumbers
  <2> QED
    BY <2>1, <2>2 DEF IInv, KnownInv, Known, Over
<1>10. HeldInv'
  BY DEF IInv, HeldInv, Held, Over, Visits, ContinueVirtual, Continues, Proceed, NoEvent,
     kernelVars, visitVars, quietVars, historyVars, Reads, Answered
<1>11. OnceInv'
  BY DEF IInv, PlaceInv, OnceInv, Over, Visits, ContinueVirtual, Continues, Proceed, NoEvent,
     kernelVars,
     visitVars, quietVars, historyVars, Asked, Requests, Reads, Answered
<1> QED
  BY <1>1, <1>2, <1>3, <1>4, <1>5, <1>6, <1>7, <1>8, <1>9, <1>10, <1>11 DEF IInv, TypeInv

LEMMA ContinueSuspendedStep ==
  ASSUME IInv, ContinueSuspended
  PROVE  IInv'
<1>1. KernelTypes'
  BY DEF IInv, TypeInv, KernelTypes, ContinueSuspended, Continues, Proceed, NoEvent, kernelVars,
     dataVars, visitVars, quietVars, historyVars, Reads, Answered
<1>2. DataTypes'
  BY DEF IInv, TypeInv, DataTypes, ContinueSuspended, Continues, Proceed, NoEvent, kernelVars,
     dataVars, visitVars, quietVars, historyVars, Reads, Answered
<1>3. PlaceTypes'
  BY EventNumbers DEF IInv, TypeInv, PlaceTypes, ContinueSuspended, Proceed, quietVars,
     Requests, Answered
<1>4. HistoryTypes'
  BY DEF IInv, TypeInv, HistoryTypes, ContinueSuspended, Continues, Proceed, NoEvent,
     kernelVars, dataVars, visitVars, quietVars, historyVars, Reads, Answered
<1>5. PlaceInv'
  BY DEF IInv, PlaceInv, Sleeping, Over, Visits, ContinueSuspended, Continues, Proceed, NoEvent,
     kernelVars, dataVars, visitVars, quietVars, historyVars, Asked, Requests, Reads, Answered
<1>6. KernelInv'
  BY DEF IInv, KernelInv, ContinueSuspended, Continues, Proceed, NoEvent, kernelVars, dataVars,
     visitVars, quietVars, historyVars, Asked, Requests, Reads, Answered
<1>7. QueueInv'
  BY DEF IInv, QueueInv, Sleeping, Visits, ContinueSuspended, Continues, Proceed, NoEvent,
     kernelVars, dataVars, visitVars, quietVars, historyVars, Reads, Answered
<1>8. PausedInv'
  BY DEF IInv, PausedInv, EventIsFound, ContinueSuspended, Continues, Proceed, NoEvent,
     kernelVars, dataVars, visitVars, quietVars, historyVars, Reads, Answered
<1>9. KnownInv'
  BY DEF IInv, KnownInv, Known, Over, ContinueSuspended, Continues, Proceed, NoEvent,
     kernelVars, dataVars, visitVars, quietVars, historyVars, Reads, Answered
<1>10. HeldInv'
  BY DEF IInv, HeldInv, Held, Over, Visits, ContinueSuspended, Continues, Proceed, NoEvent,
     kernelVars, dataVars, visitVars, quietVars, historyVars, Reads, Answered
<1>11. OnceInv'
  BY DEF IInv, PlaceInv, OnceInv, ContinueSuspended, Continues, historyVars, Asked, Requests,
     Reads
<1> QED
  BY <1>1, <1>2, <1>3, <1>4, <1>5, <1>6, <1>7, <1>8, <1>9, <1>10, <1>11 DEF IInv, TypeInv

LEMMA ContinueThreadStep ==
  ASSUME IInv, ContinueThread
  PROVE  IInv'
<1>1. KernelTypes'
  BY SignalNumbers DEF IInv, TypeInv, KernelTypes, ContinueThread, ContinueStopped, Run
<1>2. DataTypes'
  <2>1. [current EXCEPT !.tid = 0] \in Event
    BY ContinuedEvent DEF IInv, TypeInv, DataTypes
  <2> QED
    BY <2>1 DEF IInv, TypeInv, DataTypes, ContinueThread, ContinueStopped
<1>3. PlaceTypes'
  BY EventNumbers DEF IInv, TypeInv, PlaceTypes, ContinueThread, ContinueStopped, Proceed,
     quietVars, Requests, Answered
<1>4. HistoryTypes'
  BY DEF IInv, TypeInv, HistoryTypes, ContinueThread, Continues, ContinueStopped, Run, Proceed,
     NoEvent, visitVars, quietVars, Reads, Answered
<1>5. PlaceInv'
  BY DEF IInv, PlaceInv, Sleeping, Over, Visits, ContinueThread, Continues, ContinueStopped,
     Run, Proceed, NoEvent, visitVars, quietVars, Asked, Requests, Reads, Answered
<1>6. KernelInv'
  BY DEF IInv, TypeInv, KernelTypes, DataTypes, KernelInv, ContinueThread, Continues,
     ContinueStopped, Run, Proceed, NoEvent, visitVars, quietVars,
     Asked, Requests, Reads, Answered
<1>7. QueueInv'
  BY DEF IInv, QueueInv, Sleeping, Visits, ContinueThread, Continues, ContinueStopped, Run,
     Proceed, NoEvent, visitVars, quietVars, Reads, Answered
<1>8. PausedInv'
  BY DEF IInv, TypeInv, DataTypes, PlaceInv, PausedInv, EventIsFound, ContinueThread, Continues,
     ContinueStopped, Asked, Requests, Reads
<1>9. KnownInv'
  BY DEF IInv, TypeInv, KernelTypes, PlaceInv, KnownInv, Known, ContinueThread, Continues,
     ContinueStopped, Run, visitVars, quietVars, Asked, Requests, Reads
<1>10. HeldInv'
  BY DEF IInv, TypeInv, KernelTypes, DataTypes, PlaceTypes, HeldInv, Held, Over, Visits,
     ContinueThread, Continues, ContinueStopped, Run, Proceed, NoEvent, visitVars, quietVars,
     Requests, Reads, Answered
<1>11. OnceInv'
  BY DEF IInv, TypeInv, KernelTypes, DataTypes, HistoryTypes, PlaceInv, OnceInv, Over, Visits,
     ContinueThread, Continues, ContinueStopped, Run, Proceed, NoEvent, visitVars, quietVars,
     Asked, Requests, Reads, Answered
<1> QED
  BY <1>1, <1>2, <1>3, <1>4, <1>5, <1>6, <1>7, <1>8, <1>9, <1>10, <1>11 DEF IInv, TypeInv

LEMMA ContinueRefusedStep ==
  ASSUME IInv, ContinueRefused
  PROVE  IInv'
<1>1. KernelTypes'
  BY DEF IInv, TypeInv, KernelTypes, ContinueRefused, Continues, NoEvent, kernelVars, dataVars,
     visitVars, quietVars, Reads, Answered
<1>2. DataTypes'
  BY DEF IInv, TypeInv, DataTypes, ContinueRefused, Continues, NoEvent, kernelVars, dataVars,
     visitVars, quietVars, Reads, Answered
<1>3. PlaceTypes'
  BY EventNumbers DEF IInv, TypeInv, PlaceTypes, ContinueRefused, quietVars, Requests, Answered
<1>4. HistoryTypes'
  BY DEF IInv, TypeInv, HistoryTypes, ContinueRefused, Continues, NoEvent, kernelVars, dataVars,
     visitVars, quietVars, Reads, Answered
<1>5. PlaceInv'
  BY DEF IInv, PlaceInv, Sleeping, Over, Visits, ContinueRefused, Continues, NoEvent,
     kernelVars, dataVars, visitVars, quietVars, Asked, Requests, Reads, Answered
<1>6. KernelInv'
  BY DEF IInv, KernelInv, ContinueRefused, Continues, NoEvent, kernelVars, dataVars, visitVars,
     quietVars, Asked, Requests, Reads, Answered
<1>7. QueueInv'
  BY DEF IInv, QueueInv, Sleeping, Visits, ContinueRefused, Continues, NoEvent, kernelVars,
     dataVars, visitVars, quietVars, Reads, Answered
<1>8. PausedInv'
  BY DEF IInv, PausedInv, EventIsFound, ContinueRefused, Continues, NoEvent, kernelVars,
     dataVars, visitVars, quietVars, Reads, Answered
<1>9. KnownInv'
  BY DEF IInv, KnownInv, Known, Over, ContinueRefused, Continues, NoEvent, kernelVars, dataVars,
     visitVars, quietVars, Reads, Answered
<1>10. HeldInv'
  BY DEF IInv, HeldInv, Held, Over, Visits, ContinueRefused, Continues, NoEvent, kernelVars,
     dataVars, visitVars, quietVars, Reads, Answered
<1>11. OnceInv'
  BY DEF IInv, PlaceInv, OnceInv, ContinueRefused, Continues, Asked, Requests, Reads, Answered
<1> QED
  BY <1>1, <1>2, <1>3, <1>4, <1>5, <1>6, <1>7, <1>8, <1>9, <1>10, <1>11 DEF IInv, TypeInv

-----------------------------------------------------------------------------
(* SuspendThread and ResumeThread                                           *)

(* What a first or further suspension of a paused thread leaves behind: the *)
(* events of the other threads, and every stop of its own.                  *)
SuspendPausedFacts(t) ==
  /\ ~nullEvent' /\ nullEvent' \in BOOLEAN
  /\ queue' \in Seq(Event) /\ Within(queue', queue)
  /\ \A u : u # t /\ Has(queue, u) => Has(queue', u)
  /\ \A u : u # t /\ HasReal(queue, u) => HasReal(queue', u)
  /\ suspendedDevent' \in [Threads -> Event] /\ suspendedDevent'[t].tid = t
  /\ \A u \in Threads \ {t} : suspendedDevent'[u] = suspendedDevent[u]
  /\ Known(t) => Known(t)'

LEMMA SuspendPausedStep ==
  ASSUME IInv, NEW t \in Threads, SuspendPaused(t)
  PROVE  IInv'
<1> DEFINE k == FirstQueued(t)
<1>0. /\ queue \in Seq(Event) /\ isPaused[t] /\ tracer.pc \in {"select", "sleep"}
      /\ commands' = commands + 1 /\ commands' # 0
      /\ suspendCount' = [suspendCount EXCEPT ![t] = @ + 1]
      /\ UNCHANGED <<attached, stop, consumed, pending, current, isPaused, holders, tracer,
                     mode, client, shown, refused, breaks, stray, wiped>>
  BY DEF IInv, TypeInv, DataTypes, HistoryTypes, SuspendPaused, Passed, kernelVars,
         visitVars, quietVars
<1>a. ASSUME suspendCount[t] > 0 \/ current.tid = t PROVE SuspendPausedFacts(t)
  <2>1. /\ queue' = queue /\ nullEvent' = nullEvent /\ ~nullEvent /\ nullEvent \in BOOLEAN
        /\ suspendedDevent' = IF suspendCount[t] > 0 THEN suspendedDevent
                              ELSE [suspendedDevent EXCEPT ![t] = current]
    BY <1>a DEF SuspendPaused, IInv, TypeInv, DataTypes, HistoryTypes,
       PausedInv, EventIsFound
  <2>2. /\ current \in Event /\ suspendedDevent \in [Threads -> Event]
        /\ suspendCount[t] \in Nat /\ suspendCount'[t] = suspendCount[t] + 1
        /\ suspendCount[t] > 0 => suspendedDevent[t].tid = t
    BY <1>0 DEF IInv, TypeInv, DataTypes, QueueInv
  <2>3. /\ suspendedDevent' \in [Threads -> Event] /\ suspendedDevent'[t].tid = t
        /\ \A u \in Threads \ {t} : suspendedDevent'[u] = suspendedDevent[u]
    BY <1>a, <2>1, <2>2
  <2>4. Known(t) => Known(t)'
    BY <1>0, <1>a, <2>1, <2>2 DEF Known
  <2> QED
    <3>1. Within(queue', queue) /\ queue' \in Seq(Event) /\ ~nullEvent' /\ nullEvent' \in BOOLEAN
      BY <1>0, <2>1 DEF Within
    <3>2. \A u : (Has(queue, u) => Has(queue', u)) /\ (HasReal(queue, u) => HasReal(queue', u))
      BY <2>1
    <3> QED
      BY <2>3, <2>4, <3>1, <3>2, Zenon DEF SuspendPausedFacts
<1>b. ASSUME suspendCount[t] = 0, current.tid # t PROVE SuspendPausedFacts(t)
  <2>1. Queued(t) # {}
    BY <1>b, <1>0 DEF IInv, PausedInv, Has, Queued
  <2>a. /\ nullEvent' = (Queued(t) = {}) /\ queue' = Dequeued(t)
        /\ suspendedDevent' = IF nullEvent' THEN suspendedDevent
                              ELSE [suspendedDevent EXCEPT ![t] = queue[k]]
    BY <1>b DEF SuspendPaused
  <2>2. /\ ~nullEvent' /\ nullEvent' \in BOOLEAN /\ queue' = Dequeued(t)
        /\ suspendedDevent' = [suspendedDevent EXCEPT ![t] = queue[k]]
    BY <2>1, <2>a
  <2>3. k \in DOMAIN queue /\ queue[k].tid = t /\ queue[k] \in Event
    BY <1>0, <2>1, FirstOfQueue, LenProperties
  <2> HIDE DEF k
  <2>4. /\ suspendedDevent' \in [Threads -> Event] /\ suspendedDevent'[t] = queue[k]
        /\ suspendedDevent'[t].tid = t
        /\ \A u \in Threads \ {t} : suspendedDevent'[u] = suspendedDevent[u]
    BY <2>2, <2>3 DEF IInv, TypeInv, DataTypes
  <2>5. suspendCount'[t] > 0
    BY <1>0, <1>b DEF IInv, TypeInv, DataTypes
  <2>6. /\ queue' \in Seq(Event) /\ Within(queue', queue)
        /\ \A u : u # t /\ Has(queue, u) => Has(queue', u)
        /\ \A u : u # t /\ HasReal(queue, u) => HasReal(queue', u)
        /\ HasReal(queue, t) => HasReal(queue', t) \/ queue[k].sig >= 0
    BY <1>0, <2>2, DequeuedQueue DEF k
  <2>7. Known(t) => Known(t)'
    BY <1>0, <1>b, <2>4, <2>5, <2>6 DEF Known
  <2> QED
    BY <2>2, <2>4, <2>6, <2>7, Zenon DEF SuspendPausedFacts
<1>c. SuspendPausedFacts(t)
  <2>1. suspendCount[t] > 0 \/ suspendCount[t] = 0
    BY DEF IInv, TypeInv, DataTypes
  <2> QED
    BY <1>a, <1>b, <2>1
<1>1. KernelTypes'
  BY <1>0, <1>c DEF IInv, TypeInv, KernelTypes, SuspendPausedFacts
<1>2. DataTypes'
  <2>1. queue' \in Seq(Event) /\ suspendedDevent' \in [Threads -> Event]
    BY <1>c DEF SuspendPausedFacts
  <2>2. suspendCount' \in [Threads -> Nat]
    BY <1>0 DEF IInv, TypeInv, DataTypes
  <2>3. current' \in Event /\ isPaused' \in [Threads -> BOOLEAN]
    BY <1>0 DEF IInv, TypeInv, DataTypes
  <2> QED
    BY <2>1, <2>2, <2>3 DEF DataTypes
<1>3. PlaceTypes'
  BY <1>0, <1>c DEF IInv, TypeInv, PlaceTypes, SuspendPausedFacts, Requests
<1>4. HistoryTypes'
  BY <1>0, <1>c DEF IInv, TypeInv, HistoryTypes, SuspendPausedFacts
<1>5. PlaceInv'
  BY <1>0, <1>c DEF IInv, PlaceInv, Sleeping, Over, Visits, SuspendPausedFacts, Asked, Requests
<1>6. KernelInv'
  BY <1>0, <1>c DEF IInv, KernelInv, SuspendPausedFacts, Asked, Requests
<1>7. QueueInv'
  BY <1>0, <1>c DEF IInv, TypeInv, KernelTypes, DataTypes, PlaceTypes, QueueInv, Sleeping,
     Visits, SuspendPausedFacts, Within, Requests
<1>8. PausedInv'
  BY <1>0, <1>c DEF IInv, TypeInv, DataTypes, PausedInv, EventIsFound, SuspendPausedFacts
<1>9. KnownInv'
  BY <1>0, <1>c DEF IInv, KnownInv, Known, Over, SuspendPausedFacts
<1>10. HeldInv'
  BY <1>0, <1>c DEF IInv, HeldInv, Held, Over, Visits, SuspendPausedFacts
<1>11. OnceInv'
  BY <1>0, <1>c DEF IInv, OnceInv, Over, Visits, SuspendPausedFacts, Asked, Requests
<1> QED
  BY <1>1, <1>2, <1>3, <1>4, <1>5, <1>6, <1>7, <1>8, <1>9, <1>10, <1>11 DEF IInv, TypeInv

LEMMA SuspendRunningStep ==
  ASSUME IInv, NEW t \in Threads, SuspendRunning(t)
  PROVE  IInv'
<1>1. KernelTypes'
  BY SignalNumbers DEF IInv, TypeInv, KernelTypes, SuspendRunning, Tkill
<1>2. DataTypes'
  BY DEF IInv, TypeInv, DataTypes, SuspendRunning, Passed, Tkill, dataVars, visitVars, quietVars
<1>3. PlaceTypes'
  BY ThreadIds DEF IInv, TypeInv, PlaceTypes, SuspendRunning, Passed, quietVars, Requests
<1>4. HistoryTypes'
  BY DEF IInv, TypeInv, HistoryTypes, SuspendRunning, Passed, Tkill, dataVars, visitVars,
     quietVars
<1>5. PlaceInv'
  BY DEF IInv, PlaceInv, KernelInv, Sleeping, Over, SuspendRunning, Passed, dataVars,
     IsDebuggerThread, Asked, Requests
<1>6. KernelInv'
  BY DEF IInv, KernelInv, SuspendRunning, Passed, Tkill, dataVars, visitVars, quietVars,
     Asked, Requests
<1>7. QueueInv'
  BY DEF IInv, QueueInv, Sleeping, Visits, SuspendRunning, Passed, Tkill, dataVars, visitVars,
     quietVars
<1>8. PausedInv'
  BY DEF IInv, PausedInv, EventIsFound, SuspendRunning, Passed, Tkill, dataVars, visitVars,
     quietVars
<1>9. KnownInv'
  BY DEF IInv, KnownInv, Known, Over, SuspendRunning, Passed, Tkill, dataVars, visitVars,
     quietVars
<1>10. HeldInv'
  BY DEF IInv, TypeInv, KernelTypes, DataTypes, PlaceTypes, HeldInv, Held, Over, Visits,
     SuspendRunning, Passed, Tkill, dataVars, visitVars, quietVars, Requests
<1>11. OnceInv'
  BY DEF IInv, TypeInv, KernelTypes, DataTypes, HistoryTypes, OnceInv, Over, Visits,
     SuspendRunning, Passed, Tkill, dataVars, visitVars, quietVars, Asked, Requests
<1> QED
  BY <1>1, <1>2, <1>3, <1>4, <1>5, <1>6, <1>7, <1>8, <1>9, <1>10, <1>11 DEF IInv, TypeInv

(* SuspendThread has found the thread stopped: the end of both its ways.    *)
LEMMA SuspendStoppedStep ==
  ASSUME IInv, NEW t \in Threads, SuspendStopped(t)
  PROVE  IInv'
<1>0. /\ tracer.pc = "suspend" /\ tracer.tid = t /\ tracer' = At(tracer.back) /\ commands # 0
      /\ suspendedDevent' = [suspendedDevent EXCEPT ![t] = [tid |-> t, sig |-> StopSignal(t)]]
      /\ isPaused' = [isPaused EXCEPT ![t] = TRUE]
      /\ suspendCount' = [suspendCount EXCEPT ![t] = @ + 1]
      /\ UNCHANGED <<attached, stop, pending, current, holders, mode, client, shown, refused,
                     nullEvent, breaks, stray, wiped, commands>>
  BY DEF SuspendStopped, Consume, Suspended, kernelVars, visitVars, quietVars,
         historyVars, IInv, OnceInv, Asked, Requests
<1>a. /\ [tid |-> t, sig |-> StopSignal(t)] \in Event
      /\ stop[t] # 0 => StopSignal(t) = stop[t] /\ stop[t] > 0
  BY StopSignals DEF IInv, TypeInv
<1>b. consumed' = [consumed EXCEPT ![t] = TRUE] /\ stop[t] # 0 /\ queue' = queue
  BY DEF SuspendStopped, Consume, Waitable
<1>1. KernelTypes'
  BY <1>0, <1>a, <1>b DEF IInv, TypeInv, KernelTypes
<1>2. DataTypes'
  BY <1>0, <1>a, <1>b DEF IInv, TypeInv, DataTypes
<1>3. PlaceTypes'
  BY <1>0, AtTypes DEF IInv, TypeInv, PlaceTypes, Requests
<1>4. HistoryTypes'
  BY <1>0, <1>a, <1>b DEF IInv, TypeInv, HistoryTypes
<1>5. PlaceInv'
  BY <1>0, <1>a, <1>b DEF IInv, TypeInv, DataTypes, PlaceTypes, PlaceInv, Sleeping, Over,
     Visits, At, Asked, Requests
<1>6. KernelInv'
  BY <1>0, <1>a, <1>b DEF IInv, TypeInv, KernelTypes, DataTypes, KernelInv, At, PlaceTypes,
     Asked, Requests
<1>7. QueueInv'
  BY <1>0, <1>a, <1>b DEF IInv, TypeInv, KernelTypes, DataTypes, PlaceTypes, QueueInv, Sleeping,
     Visits, At, Requests
<1>8. PausedInv'
  BY <1>0, <1>a, <1>b DEF IInv, TypeInv, DataTypes, PausedInv, EventIsFound
<1>9. KnownInv'
  BY <1>0, <1>a, <1>b, SignalNumbers DEF IInv, TypeInv, KernelTypes, DataTypes, Over, KnownInv,
     Known
<1>10. HeldInv'
  BY <1>0, <1>a, <1>b DEF IInv, TypeInv, KernelTypes, DataTypes, PlaceTypes, HeldInv, Held,
     Over, Visits, At, Requests
<1>11. OnceInv'
  BY <1>0, <1>a, <1>b DEF IInv, OnceInv, Over, Visits, At, Asked, Requests
<1> QED
  BY <1>1, <1>2, <1>3, <1>4, <1>5, <1>6, <1>7, <1>8, <1>9, <1>10, <1>11 DEF IInv, TypeInv

LEMMA SuspendQueuedStep ==
  ASSUME IInv, NEW t \in Threads, SuspendQueued(t)
  PROVE  IInv'
<1>0. /\ tracer.pc = "suspend" /\ tracer.tid = t /\ tracer' = At(tracer.back) /\ commands # 0
      /\ suspendedDevent' = [suspendedDevent EXCEPT ![t] = [tid |-> t, sig |-> StopSignal(t)]]
      /\ isPaused' = [isPaused EXCEPT ![t] = TRUE]
      /\ suspendCount' = [suspendCount EXCEPT ![t] = @ + 1]
      /\ UNCHANGED <<attached, stop, pending, current, holders, mode, client, shown, refused,
                     nullEvent, breaks, stray, wiped, commands>>
  BY DEF SuspendQueued, Consume, Suspended, kernelVars, visitVars, quietVars,
         historyVars, IInv, OnceInv, Asked, Requests
<1>a. /\ [tid |-> t, sig |-> StopSignal(t)] \in Event
      /\ stop[t] # 0 => StopSignal(t) = stop[t] /\ stop[t] > 0
  BY StopSignals DEF IInv, TypeInv
<1>b. consumed' = consumed /\ queue # <<>> /\ tracer.back = "select"
  BY <1>0 DEF SuspendQueued, kernelVars, Queued, IInv, TypeInv, PlaceTypes, QueueInv, Sleeping,
     Requests
<1>c. /\ queue' \in Seq(Event) /\ Within(queue', queue)
      /\ \A u : u # t /\ Has(queue, u) => Has(queue', u)
      /\ \A u : u # t /\ HasReal(queue, u) => HasReal(queue', u)
  BY DequeuedQueue DEF SuspendQueued, IInv, TypeInv, DataTypes
<1>1. KernelTypes'
  BY <1>0, <1>a, <1>b, <1>c DEF IInv, TypeInv, KernelTypes
<1>2. DataTypes'
  BY <1>0, <1>a, <1>b, <1>c DEF IInv, TypeInv, DataTypes
<1>3. PlaceTypes'
  BY <1>0, AtTypes DEF IInv, TypeInv, PlaceTypes, Requests
<1>4. HistoryTypes'
  BY <1>0, <1>a, <1>b, <1>c DEF IInv, TypeInv, HistoryTypes
<1>5. PlaceInv'
  BY <1>0, <1>a, <1>b, <1>c DEF IInv, PlaceInv, Sleeping, Over, Visits, At, Asked, Requests
<1>6. KernelInv'
  BY <1>0, <1>b DEF IInv, PlaceInv, KernelInv, At, Asked, Requests
<1>7. QueueInv'
  BY <1>0, <1>a, <1>b, <1>c DEF IInv, TypeInv, KernelTypes, DataTypes, PlaceTypes, QueueInv,
     Sleeping, Visits, At, Within, Requests
<1>8. PausedInv'
  BY <1>0, <1>a, <1>b, <1>c DEF IInv, TypeInv, DataTypes, PausedInv, EventIsFound
<1>9. KnownInv'
  BY <1>0, <1>a, <1>b, <1>c, SignalNumbers DEF IInv, TypeInv, KernelTypes, DataTypes, KernelInv,
     Over, KnownInv, Known, Asked, Requests
<1>10. HeldInv'
  BY <1>0, <1>a, <1>b, <1>c DEF IInv, HeldInv, Held, Over, Visits, At
<1>11. OnceInv'
  BY <1>0, <1>a, <1>b, <1>c DEF IInv, OnceInv, Over, Visits, At, Asked, Requests
<1> QED
  BY <1>1, <1>2, <1>3, <1>4, <1>5, <1>6, <1>7, <1>8, <1>9, <1>10, <1>11 DEF IInv, TypeInv

(* ResumeThread: the thread stays suspended ...                             *)
LEMMA ResumeCounts ==
  ASSUME IInv, NEW t \in Threads, ResumeThread(t), suspendCount[t] > 1
  PROVE  IInv'
<1>0. /\ isPaused[t] /\ tracer.pc \in {"select", "sleep"} /\ (tracer.pc = "sleep" => queue = <<>>)
      /\ commands' = commands + 1 /\ commands' # 0 /\ suspendCount[t] > 0
      /\ suspendCount' = [suspendCount EXCEPT ![t] = @ - 1]
      /\ UNCHANGED <<current, suspendedDevent, holders, tracer, mode, client, refused,
                     nullEvent, breaks, stray, wiped>>
  BY DEF ResumeThread, Passed, visitVars, quietVars, IInv, TypeInv, HistoryTypes
<1>b. suspendCount[t] > 1 /\ UNCHANGED <<queue, isPaused, attached, stop, consumed, pending, shown>>
  BY DEF ResumeThread, kernelVars, IInv, TypeInv, DataTypes
<1>1. KernelTypes'
  BY <1>0, <1>b DEF IInv, TypeInv, KernelTypes
<1>2. DataTypes'
  BY <1>0, <1>b DEF IInv, TypeInv, DataTypes
<1>3. PlaceTypes'
  BY <1>0, <1>b DEF IInv, TypeInv, PlaceTypes, Requests
<1>4. HistoryTypes'
  BY <1>0, <1>b DEF IInv, TypeInv, HistoryTypes
<1>5. PlaceInv'
  BY <1>0, <1>b DEF IInv, PlaceInv, Sleeping, Over, Visits, Asked, Requests
<1>6. KernelInv'
  BY <1>0, <1>b DEF IInv, KernelInv, Asked, Requests
<1>7. QueueInv'
  BY <1>0, <1>b DEF IInv, QueueInv, Sleeping, Visits
<1>8. PausedInv'
  BY <1>0, <1>b DEF IInv, PausedInv, EventIsFound
<1>9. KnownInv'
  BY <1>0, <1>b DEF IInv, TypeInv, KernelTypes, DataTypes, KnownInv, Known, Over
<1>10. HeldInv'
  BY <1>0, <1>b DEF IInv, HeldInv, Held, Over, Visits
<1>11. OnceInv'
  BY <1>0, <1>b DEF IInv, OnceInv, Over, Visits, Asked, Requests
<1> QED
  BY <1>1, <1>2, <1>3, <1>4, <1>5, <1>6, <1>7, <1>8, <1>9, <1>10, <1>11 DEF IInv, TypeInv

(* ... or it runs ...                                                       *)
LEMMA ResumeRuns ==
  ASSUME IInv, NEW t \in Threads, ResumeThread(t), suspendCount[t] = 1,
         suspendedDevent[t].sig = SIGSTOP
  PROVE  IInv'
<1>0. /\ isPaused[t] /\ tracer.pc \in {"select", "sleep"} /\ (tracer.pc = "sleep" => queue = <<>>)
      /\ commands' = commands + 1 /\ commands' # 0 /\ suspendCount[t] > 0
      /\ suspendCount' = [suspendCount EXCEPT ![t] = @ - 1]
      /\ UNCHANGED <<current, suspendedDevent, holders, tracer, mode, client, refused,
                     nullEvent, breaks, stray, wiped>>
  BY DEF ResumeThread, Passed, visitVars, quietVars, IInv, TypeInv, HistoryTypes
<1>b. /\ suspendCount[t] = 1 /\ UNCHANGED <<queue, attached>>
      /\ isPaused' = [isPaused EXCEPT ![t] = FALSE]
      /\ stop' = [stop EXCEPT ![t] = 0] /\ consumed' = [consumed EXCEPT ![t] = FALSE]
      /\ pending' = pending /\ shown' = [shown EXCEPT ![t] = 0]
  BY DEF ResumeThread, Run, IInv, TypeInv, KernelTypes
<1>1. KernelTypes'
  BY <1>0, <1>b DEF IInv, TypeInv, KernelTypes
<1>2. DataTypes'
  BY <1>0, <1>b DEF IInv, TypeInv, DataTypes
<1>3. PlaceTypes'
  BY <1>0, <1>b DEF IInv, TypeInv, PlaceTypes, Requests
<1>4. HistoryTypes'
  BY <1>0, <1>b DEF IInv, TypeInv, HistoryTypes
<1>5. PlaceInv'
  BY <1>0, <1>b DEF IInv, PlaceInv, Sleeping, Over, Visits, Asked, Requests
<1>6. KernelInv'
  BY <1>0, <1>b DEF IInv, TypeInv, KernelTypes, DataTypes, KernelInv, Asked, Requests
<1>7. QueueInv'
  BY <1>0, <1>b DEF IInv, TypeInv, KernelTypes, DataTypes, PlaceTypes, QueueInv, Sleeping,
     Visits, Requests
<1>8. PausedInv'
  BY <1>0, <1>b DEF IInv, TypeInv, DataTypes, PausedInv, EventIsFound
<1>9. KnownInv'
  BY <1>0, <1>b DEF IInv, TypeInv, KernelTypes, DataTypes, KnownInv, Known, Over
<1>10. HeldInv'
  BY <1>0, <1>b DEF IInv, TypeInv, KernelTypes, DataTypes, PlaceTypes, HeldInv, Held, Over,
     Visits, Requests
<1>11. OnceInv'
  BY <1>0, <1>b DEF IInv, OnceInv, Over, Visits, Asked, Requests
<1> QED
  BY <1>1, <1>2, <1>3, <1>4, <1>5, <1>6, <1>7, <1>8, <1>9, <1>10, <1>11 DEF IInv, TypeInv

(* ... or its event is queued.                                              *)
LEMMA ResumeQueues ==
  ASSUME IInv, NEW t \in Threads, ResumeThread(t), suspendCount[t] = 1,
         suspendedDevent[t].sig # SIGSTOP
  PROVE  IInv'
<1>0. /\ isPaused[t] /\ tracer.pc \in {"select", "sleep"} /\ (tracer.pc = "sleep" => queue = <<>>)
      /\ commands' = commands + 1 /\ commands' # 0 /\ suspendCount[t] > 0
      /\ suspendCount' = [suspendCount EXCEPT ![t] = @ - 1]
      /\ UNCHANGED <<current, suspendedDevent, holders, tracer, mode, client, refused,
                     nullEvent, breaks, stray, wiped>>
  BY DEF ResumeThread, Passed, visitVars, quietVars, IInv, TypeInv, HistoryTypes
<1>b. /\ suspendCount[t] = 1 /\ queue' = Append(queue, suspendedDevent[t])
      /\ UNCHANGED <<isPaused, attached, stop, consumed, pending, shown>>
  BY DEF ResumeThread, kernelVars
<1> DEFINE e == suspendedDevent[t]
<1>c. /\ queue' \in Seq(Event) /\ e.tid = t
      /\ \A i \in DOMAIN queue' : queue'[i] = e \/ \E j \in DOMAIN queue : queue'[i] = queue[j]
      /\ \A u : Has(queue', u) <=> Has(queue, u) \/ e.tid = u
      /\ \A u : HasReal(queue', u) <=> HasReal(queue, u) \/ (e.tid = u /\ e.sig >= 0)
  BY <1>0, <1>b, AppendQueue DEF IInv, TypeInv, DataTypes, QueueInv
<1>1. KernelTypes'
  BY <1>0, <1>b, <1>c DEF IInv, TypeInv, KernelTypes
<1>2. DataTypes'
  BY <1>0, <1>b, <1>c DEF IInv, TypeInv, DataTypes
<1>3. PlaceTypes'
  BY <1>0, <1>b, <1>c DEF IInv, TypeInv, PlaceTypes, Requests
<1>4. HistoryTypes'
  BY <1>0, <1>b, <1>c DEF IInv, TypeInv, HistoryTypes
<1>5. PlaceInv'
  BY <1>0, <1>b, <1>c DEF IInv, PlaceInv, Sleeping, Over, Visits, Asked, Requests
<1>6. KernelInv'
  BY <1>0, <1>b, <1>c DEF IInv, KernelInv, Asked, Requests
<1>7. QueueInv'
  BY <1>0, <1>b, <1>c DEF IInv, QueueInv, Sleeping, Visits
<1>8. PausedInv'
  BY <1>0, <1>b, <1>c DEF IInv, PausedInv, EventIsFound
<1>9. KnownInv'
  BY <1>0, <1>b, <1>c DEF IInv, KnownInv, Known, Over
<1>10. HeldInv'
  BY <1>0, <1>b, <1>c DEF IInv, HeldInv, Held, Over, Visits
<1>11. OnceInv'
  BY <1>0, <1>b, <1>c DEF IInv, OnceInv, Over, Visits, Asked, Requests
<1> QED
  BY <1>1, <1>2, <1>3, <1>4, <1>5, <1>6, <1>7, <1>8, <1>9, <1>10, <1>11 DEF IInv, TypeInv

LEMMA ResumeThreadStep ==
  ASSUME IInv, NEW t \in Threads, ResumeThread(t)
  PROVE  IInv'
<1>1. suspendCount[t] \in Nat /\ suspendCount[t] > 0
  BY DEF ResumeThread, IInv, TypeInv, DataTypes
<1> QED
  BY <1>1, ResumeCounts, ResumeRuns, ResumeQueues

-----------------------------------------------------------------------------
(* The visits and the second start                                          *)

LEMMA VisitPausedStep ==
  ASSUME IInv, NEW op \in Visits, NEW t \in Threads, VisitPaused(op, t)
  PROVE  IInv'
<1>1. Quiet
  BY DEF Quiet, VisitPaused, Passed, kernelVars, dataVars, IInv, TypeInv, PlaceTypes, Requests
<1> QED
  BY <1>1, QuietStep

LEMMA VisitRunningStep ==
  ASSUME IInv, NEW op \in Visits, NEW t \in Threads, VisitRunning(op, t)
  PROVE  IInv'
<1>1. KernelTypes'
  BY SignalNumbers DEF IInv, TypeInv, KernelTypes, VisitRunning, Tkill
<1>2. DataTypes'
  BY DEF IInv, TypeInv, DataTypes, VisitRunning, Passed, Tkill, dataVars
<1>3. PlaceTypes'
  BY ThreadIds DEF IInv, TypeInv, PlaceTypes, VisitRunning, Passed, Requests
<1>4. HistoryTypes'
  BY DEF IInv, TypeInv, HistoryTypes, VisitRunning, Passed, Tkill, dataVars
<1>5. PlaceInv'
  BY DEF IInv, PlaceInv, KernelInv, Sleeping, Over, Visits, VisitRunning, Passed, dataVars,
     IsDebuggerThread, Asked, Requests
<1>6. KernelInv'
  BY DEF IInv, KernelInv, Visits, VisitRunning, dataVars, Asked, Requests
<1>7. QueueInv'
  BY DEF IInv, QueueInv, Sleeping, Visits, VisitRunning, Passed, Tkill, dataVars
<1>8. PausedInv'
  BY DEF IInv, PausedInv, EventIsFound, VisitRunning, Passed, Tkill, dataVars
<1>9. KnownInv'
  BY DEF IInv, KnownInv, Known, Over, VisitRunning, Passed, Tkill, dataVars
<1>10. HeldInv'
  <2>1. /\ tracer.pc \in {"select", "sleep"} /\ tracer'.pc = op /\ tracer'.tid = t
        /\ pending' = [pending EXCEPT ![t] = @ \cup {SIGSTOP}]
        /\ (~stray' => ~stray /\ ~(suspendCount[t] > 0))
        /\ UNCHANGED <<stop, suspendCount, isPaused>>
    BY DEF VisitRunning, Passed, Tkill, dataVars
  <2>2. \A u \in Threads : Held(u) => Held(u)'
    BY <2>1 DEF Held, IInv, TypeInv, KernelTypes
  <2>3. Held(t)'
    BY <2>1 DEF Held, IInv, TypeInv, KernelTypes
  <2>4. ~stray' => suspendCount[t] = 0
    BY <2>1 DEF IInv, TypeInv, DataTypes
  <2> QED
    BY <2>1, <2>2, <2>3, <2>4 DEF IInv, HeldInv, Over, Visits
<1>11. OnceInv'
  BY DEF IInv, TypeInv, KernelTypes, DataTypes, HistoryTypes, OnceInv, Over, Visits,
     VisitRunning, Passed, Tkill, dataVars, Asked, Requests
<1> QED
  BY <1>1, <1>2, <1>3, <1>4, <1>5, <1>6, <1>7, <1>8, <1>9, <1>10, <1>11 DEF IInv, TypeInv

(* The queue q a visit of t starts its end from.                            *)
VisitLeaves(t, q) ==
  /\ q \in Seq(Event) /\ Within(q, queue)
  /\ \A u : u # t /\ Has(queue, u) => Has(q, u)
  /\ \A u : u # t /\ HasReal(queue, u) => HasReal(q, u)
  /\ stop[t] # 0 \/ queue # <<>>

(* The thread had stopped for SIGSTOP and runs again ...                    *)
LEMMA VisitRuns ==
  ASSUME IInv, NEW t \in Threads, tracer.pc \in Visits, tracer.tid = t, NEW q, VisitLeaves(t, q),
         NEW taken \in BOOLEAN, taken => stop[t] # 0, VisitEnds(t, q, taken), stop[t] = SIGSTOP
  PROVE  IInv'
<1>0. /\ tracer' = At(tracer.back) /\ commands # 0 /\ queue \in Seq(Event)
      /\ UNCHANGED <<current, suspendCount, suspendedDevent, holders, mode, client, refused,
                     nullEvent, stray, wiped, commands>>
  BY DEF VisitEnds, IInv, OnceInv, TypeInv, DataTypes, Asked, Requests
<1>b. /\ queue' = q /\ attached' = attached
      /\ isPaused' = [isPaused EXCEPT ![t] = FALSE]
      /\ stop' = [stop EXCEPT ![t] = 0] /\ consumed' = [consumed EXCEPT ![t] = FALSE]
      /\ pending' = pending /\ shown' = [shown EXCEPT ![t] = 0]
  BY DEF VisitEnds, Run, IInv, TypeInv, KernelTypes
<1>1. KernelTypes'
  BY <1>0, <1>b DEF IInv, TypeInv, KernelTypes
<1>2. DataTypes'
  BY <1>0, <1>b DEF IInv, TypeInv, DataTypes, VisitLeaves
<1>3. PlaceTypes'
  BY <1>0, AtTypes DEF IInv, TypeInv, PlaceTypes, Requests
<1>4. HistoryTypes'
  BY <1>0, <1>b DEF IInv, TypeInv, HistoryTypes
<1>5. PlaceInv'
  BY <1>0, <1>b DEF IInv, TypeInv, DataTypes, PlaceTypes, PlaceInv, Sleeping, Over, Visits, At,
     Asked, Requests
<1>6. KernelInv'
  BY <1>0, <1>b DEF IInv, TypeInv, KernelTypes, DataTypes, KernelInv, At, PlaceTypes, Asked,
     Requests
<1>7. QueueInv'
  BY <1>0, <1>b DEF IInv, TypeInv, KernelTypes, DataTypes, PlaceTypes, QueueInv, Sleeping,
     Visits, At, VisitLeaves, Within, Requests
<1>8. PausedInv'
  BY <1>0, <1>b DEF IInv, TypeInv, DataTypes, PausedInv, EventIsFound, VisitLeaves
<1>9. KnownInv'
  BY <1>0, <1>b DEF IInv, TypeInv, KernelTypes, Over, Visits, KnownInv, Known, VisitLeaves
<1>10. HeldInv'
  BY <1>0, <1>b DEF IInv, TypeInv, KernelTypes, DataTypes, PlaceTypes, HeldInv, Held, Over,
     Visits, At, Requests
<1>11. OnceInv'
  BY <1>0, <1>b DEF IInv, OnceInv, Over, Visits, At, Asked, Requests
<1> QED
  BY <1>1, <1>2, <1>3, <1>4, <1>5, <1>6, <1>7, <1>8, <1>9, <1>10, <1>11 DEF IInv, TypeInv

(* ... or it stays stopped, and its event is queued.                        *)
LEMMA VisitQueues ==
  ASSUME IInv, NEW t \in Threads, tracer.pc \in Visits, tracer.tid = t, NEW q, VisitLeaves(t, q),
         NEW taken \in BOOLEAN, taken => stop[t] # 0, VisitEnds(t, q, taken), stop[t] # SIGSTOP
  PROVE  IInv'
<1>0. /\ tracer' = At(tracer.back) /\ commands # 0 /\ queue \in Seq(Event)
      /\ UNCHANGED <<current, suspendCount, suspendedDevent, holders, mode, client, refused,
                     nullEvent, stray, wiped, commands>>
  BY DEF VisitEnds, IInv, OnceInv, TypeInv, DataTypes, Asked, Requests
<1>b. /\ queue' = Append(q, [tid |-> t, sig |-> StopSignal(t)])
      /\ UNCHANGED <<attached, stop, pending, shown>>
      /\ isPaused' = [isPaused EXCEPT ![t] = TRUE]
      /\ consumed' = [consumed EXCEPT ![t] = IF taken THEN TRUE ELSE @]
  BY DEF VisitEnds
<1> DEFINE e == [tid |-> t, sig |-> StopSignal(t)]
<1>c. /\ e \in Event /\ e.tid = t
      /\ stop[t] # 0 => e.sig = stop[t] /\ stop[t] > 0
  BY StopSignals DEF IInv, TypeInv
<1>d. /\ queue' \in Seq(Event)
      /\ \A i \in DOMAIN queue' : queue'[i] = e \/ \E j \in DOMAIN q : queue'[i] = q[j]
      /\ \A u : Has(queue', u) <=> Has(q, u) \/ e.tid = u
      /\ \A u : HasReal(queue', u) <=> HasReal(q, u) \/ (e.tid = u /\ e.sig >= 0)
  BY <1>b, <1>c, AppendQueue DEF VisitLeaves
<1> HIDE DEF e
<1>1. KernelTypes'
  BY <1>0, <1>b, <1>c, <1>d DEF IInv, TypeInv, KernelTypes
<1>2. DataTypes'
  BY <1>0, <1>b, <1>c, <1>d DEF IInv, TypeInv, DataTypes, VisitLeaves
<1>3. PlaceTypes'
  BY <1>0, AtTypes DEF IInv, TypeInv, PlaceTypes, Requests
<1>4. HistoryTypes'
  BY <1>0, <1>b, <1>c, <1>d DEF IInv, TypeInv, HistoryTypes
<1>5. PlaceInv'
  BY <1>0, <1>b, <1>c, <1>d DEF IInv, TypeInv, DataTypes, PlaceTypes, PlaceInv, Sleeping, Over,
     Visits, At, Asked, Requests
<1>6. KernelInv'
  BY <1>0, <1>b DEF IInv, TypeInv, KernelTypes, PlaceInv, KernelInv, Visits, At, PlaceTypes,
     Asked, Requests
<1>7. QueueInv'
  BY <1>0, <1>b, <1>c, <1>d DEF IInv, QueueInv, Sleeping, Visits, At, VisitLeaves, Within
<1>8. PausedInv'
  BY <1>0, <1>b, <1>c, <1>d DEF IInv, PausedInv, EventIsFound, VisitLeaves
<1>9. KnownInv'
  BY <1>0, <1>b, <1>c, <1>d, SignalNumbers DEF IInv, TypeInv, KernelTypes, KernelInv, Over,
     Visits, KnownInv, Known, VisitLeaves, Asked, Requests
<1>10. HeldInv'
  BY <1>0, <1>b, <1>c, <1>d DEF IInv, TypeInv, KernelTypes, DataTypes, PlaceTypes, HeldInv,
     Held, Over, Visits, At, Requests
<1>11. OnceInv'
  BY <1>0, <1>b, <1>c, <1>d DEF IInv, OnceInv, Over, Visits, At, Asked, Requests
<1> QED
  BY <1>1, <1>2, <1>3, <1>4, <1>5, <1>6, <1>7, <1>8, <1>9, <1>10, <1>11 DEF IInv, TypeInv

LEMMA VisitingStep ==
  ASSUME IInv, NEW t \in Threads, VisitStopped(t) \/ VisitQueued(t)
  PROVE  IInv'
<1>1. tracer.pc \in Visits /\ tracer.tid = t /\ Poke(tracer.pc, t)
  BY DEF VisitStopped, VisitQueued
<1>2. CASE VisitStopped(t)
  <2>1. VisitEnds(t, queue, TRUE) /\ stop[t] # 0
    BY <1>2 DEF VisitStopped, Waitable
  <2>2. VisitLeaves(t, queue)
    BY <2>1 DEF VisitLeaves, Within, IInv, TypeInv, DataTypes
  <2> QED
    BY <1>1, <2>1, <2>2, VisitRuns, VisitQueues
<1>3. CASE VisitQueued(t)
  <2>1. VisitEnds(t, Dequeued(t), FALSE)
    BY <1>3, Zenon DEF VisitQueued
  <2>2. queue # <<>>
    BY <1>3 DEF VisitQueued, Queued
  <2>3. VisitLeaves(t, Dequeued(t))
    BY <2>2, DequeuedQueue DEF VisitLeaves, IInv, TypeInv, DataTypes
  <2> QED
    BY <1>1, <2>1, <2>3, VisitRuns, VisitQueues
<1> QED
  BY <1>2, <1>3

LEMMA RestartDebugStep ==
  ASSUME IInv, RestartDebug
  PROVE  IInv'
<1>1. KernelTypes'
  BY DEF IInv, TypeInv, KernelTypes, RestartDebug, kernelVars
<1>2. DataTypes'
  BY EventNumbers DEF IInv, TypeInv, DataTypes, RestartDebug
<1>3. PlaceTypes'
  BY DEF IInv, TypeInv, PlaceTypes, RestartDebug, kernelVars, Requests
<1>4. HistoryTypes'
  BY DEF IInv, TypeInv, HistoryTypes, RestartDebug, kernelVars
<1>5. PlaceInv'
  BY DEF IInv, PlaceInv, Sleeping, Over, Visits, RestartDebug, kernelVars, Asked, Requests
<1>6. KernelInv'
  BY DEF IInv, KernelInv, RestartDebug, kernelVars, Asked, Requests
<1>7. QueueInv'
  BY DEF IInv, QueueInv, Sleeping, Visits, RestartDebug, kernelVars
<1>8. PausedInv'
  BY DEF IInv, PausedInv, EventIsFound, RestartDebug, kernelVars
<1>9. KnownInv'
  BY DEF IInv, KnownInv, Known, Over, RestartDebug, kernelVars
<1>10. HeldInv'
  BY DEF IInv, PlaceInv, HeldInv, Held, RestartDebug, kernelVars, Asked, Requests
<1>11. OnceInv'
  BY DEF IInv, TypeInv, KernelTypes, DataTypes, HistoryTypes, OnceInv, Over, Visits,
     RestartDebug, kernelVars, Asked, Requests
<1> QED
  BY <1>1, <1>2, <1>3, <1>4, <1>5, <1>6, <1>7, <1>8, <1>9, <1>10, <1>11 DEF IInv, TypeInv

-----------------------------------------------------------------------------
(* The end of the session                                                   *)

LEMMA DisconnectedStep ==
  ASSUME IInv, Disconnected
  PROVE  IInv'
<1>1. KernelTypes'
  BY DEF IInv, TypeInv, KernelTypes, Disconnected, At, ReleaseAll, dataVars, visitVars,
     quietVars, historyVars
<1>2. DataTypes'
  BY DEF IInv, TypeInv, DataTypes, Disconnected, At, ReleaseAll, dataVars, visitVars, quietVars,
     historyVars
<1>3. PlaceTypes'
  BY BoundsAssumption DEF IInv, TypeInv, PlaceTypes, Disconnected, At, quietVars, Requests
<1>4. HistoryTypes'
  BY DEF IInv, TypeInv, HistoryTypes, Disconnected, At, ReleaseAll, dataVars, visitVars,
     quietVars, historyVars
<1>5. PlaceInv'
  BY DEF IInv, PlaceInv, Sleeping, Over, Visits, Disconnected, At, ReleaseAll, dataVars,
     visitVars, quietVars, historyVars, Asked, Requests
<1>6. KernelInv'
  BY DEF IInv, KernelInv, Disconnected, At, ReleaseAll, dataVars, visitVars, quietVars,
     historyVars, Asked, Requests
<1>7. QueueInv'
  BY DEF IInv, QueueInv, Sleeping, Visits, Disconnected, At, ReleaseAll, dataVars, visitVars,
     quietVars, historyVars
<1>8. PausedInv'
  BY DEF IInv, PausedInv, EventIsFound, Disconnected, At, ReleaseAll, dataVars, visitVars,
     quietVars, historyVars
<1>9. KnownInv'
  BY DEF IInv, KnownInv, Known, Over, Disconnected, At, ReleaseAll, dataVars, visitVars,
     quietVars, historyVars
<1>10. HeldInv'
  BY DEF IInv, HeldInv, Held, Over, Visits, Disconnected, At, ReleaseAll, dataVars, visitVars,
     quietVars, historyVars
<1>11. OnceInv'
  BY DEF IInv, OnceInv, Over, Visits, Disconnected, At, ReleaseAll, dataVars, visitVars,
     quietVars, historyVars, Asked, Requests
<1> QED
  BY <1>1, <1>2, <1>3, <1>4, <1>5, <1>6, <1>7, <1>8, <1>9, <1>10, <1>11 DEF IInv, TypeInv

LEMMA StopDebugStep ==
  ASSUME IInv, StopDebug
  PROVE  IInv'
<1>1. KernelTypes'
  BY SignalNumbers DEF IInv, TypeInv, KernelTypes, StopDebug, Tkill
<1>2. DataTypes'
  BY DEF IInv, TypeInv, DataTypes, StopDebug, At, Tkill, dataVars, visitVars, quietVars,
     historyVars
<1>3. PlaceTypes'
  BY ThreadIds DEF IInv, TypeInv, PlaceTypes, StopDebug, At, quietVars, Requests
<1>4. HistoryTypes'
  BY DEF IInv, TypeInv, HistoryTypes, StopDebug, At, Tkill, dataVars, visitVars, quietVars,
     historyVars
<1>5. PlaceInv'
  BY ThreadIds DEF IInv, PlaceInv, Sleeping, StopDebug, At, Asked, Requests
<1>6. KernelInv'
  BY DEF IInv, KernelInv, StopDebug, At, Tkill, dataVars, visitVars, quietVars, historyVars,
     Asked, Requests
<1>7. QueueInv'
  BY DEF IInv, QueueInv, Sleeping, Visits, StopDebug, At, Tkill, dataVars, visitVars, quietVars,
     historyVars
<1>8. PausedInv'
  BY DEF IInv, PausedInv, EventIsFound, StopDebug, At, Tkill, dataVars, visitVars, quietVars,
     historyVars
<1>9. KnownInv'
  BY DEF IInv, KnownInv, Known, Over, StopDebug, At, Tkill, dataVars, visitVars, quietVars,
     historyVars
<1>10. HeldInv'
  BY DEF IInv, HeldInv, Held, Over, Visits, StopDebug, At, Tkill, dataVars, visitVars,
     quietVars, historyVars
<1>11. OnceInv'
  BY DEF IInv, OnceInv, Over, Visits, StopDebug, At, Tkill, dataVars, visitVars, quietVars,
     historyVars, Asked, Requests
<1> QED
  BY <1>1, <1>2, <1>3, <1>4, <1>5, <1>6, <1>7, <1>8, <1>9, <1>10, <1>11 DEF IInv, TypeInv

LEMMA StopOtherSignalStep ==
  ASSUME IInv, StopOtherSignal
  PROVE  IInv'
<1>1. KernelTypes'
  BY SignalNumbers DEF IInv, TypeInv, KernelTypes, StopOtherSignal, Tkill
<1>2. DataTypes'
  BY DEF IInv, TypeInv, DataTypes, StopOtherSignal, Tkill, Waitable, dataVars, visitVars,
     quietVars, historyVars
<1>3. PlaceTypes'
  BY DEF IInv, TypeInv, PlaceTypes, StopOtherSignal, Tkill, Waitable, dataVars, visitVars,
     quietVars, historyVars, Requests
<1>4. HistoryTypes'
  BY DEF IInv, TypeInv, HistoryTypes, StopOtherSignal, Tkill, Waitable, dataVars, visitVars,
     quietVars, historyVars
<1>5. PlaceInv'
  BY DEF IInv, PlaceInv, Sleeping, Over, Visits, StopOtherSignal, Tkill, Waitable, dataVars,
     visitVars, quietVars, historyVars, Asked, Requests
<1>6. KernelInv'
  BY DEF IInv, KernelInv, StopOtherSignal, Tkill, Waitable, dataVars, visitVars, quietVars,
     historyVars, Asked, Requests
<1>7. QueueInv'
  BY DEF IInv, QueueInv, Sleeping, Visits, StopOtherSignal, Tkill, Waitable, dataVars,
     visitVars, quietVars, historyVars
<1>8. PausedInv'
  BY DEF IInv, PausedInv, EventIsFound, StopOtherSignal, Tkill, Waitable, dataVars, visitVars,
     quietVars, historyVars
<1>9. KnownInv'
  BY DEF IInv, KnownInv, Known, Over, StopOtherSignal, Tkill, Waitable, dataVars, visitVars,
     quietVars, historyVars
<1>10. HeldInv'
  BY DEF IInv, HeldInv, Held, Over, Visits, StopOtherSignal, Tkill, Waitable, dataVars,
     visitVars, quietVars, historyVars
<1>11. OnceInv'
  BY DEF IInv, PlaceInv, OnceInv, Over, StopOtherSignal, dataVars, historyVars, Asked, Requests
<1> QED
  BY <1>1, <1>2, <1>3, <1>4, <1>5, <1>6, <1>7, <1>8, <1>9, <1>10, <1>11 DEF IInv, TypeInv

(* StopDebug detaches a thread and turns to the next one ...                *)
LEMMA DetachNext ==
  ASSUME IInv, DetachThread, tracer.tid < NumThreads
  PROVE  IInv'
<1> DEFINE t == tracer.tid
<1>0. /\ t \in Threads /\ ~consumed[t] /\ tracer.pc = "stop"
      /\ UNCHANGED <<queue, current, isPaused, suspendCount, suspendedDevent, holders, mode,
                     client, shown, refused, nullEvent, commands, breaks, stray, wiped>>
  BY DEF DetachThread, Waitable, dataVars, visitVars, quietVars, historyVars
<1>a. /\ attached' = [attached EXCEPT ![t] = FALSE] /\ stop' = [stop EXCEPT ![t] = 0]
      /\ consumed' = consumed /\ tracer' = [tracer EXCEPT !.tid = t + 1]
      /\ pending' = [pending EXCEPT ![t] = {}, ![t + 1] = pending[t + 1] \cup {SIGSTOP}]
  BY BoundsAssumption DEF DetachThread
<1>b. t + 1 \in Threads /\ t + 1 \in 0 .. NumThreads
  BY <1>0, ThreadIds
<1> HIDE DEF t
<1>1. KernelTypes'
  <2>1. pending[t + 1] \cup {SIGSTOP} \in SUBSET Signals
    BY <1>b, SignalNumbers DEF IInv, TypeInv, KernelTypes
  <2>2. pending' \in [Threads -> SUBSET Signals]
    BY <1>a, <2>1 DEF IInv, TypeInv, KernelTypes
  <2> QED
    BY <1>a, <2>2 DEF IInv, TypeInv, KernelTypes
<1>2. DataTypes'
  BY <1>0, <1>a, <1>b DEF IInv, TypeInv, DataTypes
<1>3. PlaceTypes'
  BY <1>0, <1>a, <1>b DEF IInv, TypeInv, PlaceTypes, Requests
<1>4. HistoryTypes'
  BY <1>0, <1>a, <1>b DEF IInv, TypeInv, HistoryTypes
<1>5. PlaceInv'
  BY <1>0, <1>a, <1>b DEF IInv, PlaceInv, Sleeping, Over, Visits, Asked, Requests
<1>6. KernelInv'
  BY <1>0, <1>a, <1>b DEF IInv, KernelInv, Asked, Requests
<1>7. QueueInv'
  BY <1>0, <1>a, <1>b DEF IInv, QueueInv, Sleeping, Visits
<1>8. PausedInv'
  BY <1>0, <1>a, <1>b DEF IInv, PausedInv, EventIsFound
<1>9. KnownInv'
  BY <1>0, <1>a, <1>b DEF IInv, KnownInv, Known, Over
<1>10. HeldInv'
  BY <1>0, <1>a, <1>b DEF IInv, HeldInv, Held, Over, Visits
<1>11. OnceInv'
  BY <1>0, <1>a DEF IInv, PlaceInv, OnceInv, Over, Asked, Requests
<1> QED
  BY <1>1, <1>2, <1>3, <1>4, <1>5, <1>6, <1>7, <1>8, <1>9, <1>10, <1>11 DEF IInv, TypeInv

(* ... or it was the last one, and the tracer's thread ends.                *)
LEMMA DetachLast ==
  ASSUME IInv, DetachThread, ~(tracer.tid < NumThreads)
  PROVE  IInv'
<1> DEFINE t == tracer.tid
<1>0. /\ t \in Threads /\ ~consumed[t] /\ tracer.pc = "stop"
      /\ UNCHANGED <<queue, current, isPaused, suspendCount, suspendedDevent, holders, mode,
                     client, shown, refused, nullEvent, commands, breaks, stray, wiped>>
  BY DEF DetachThread, Waitable, dataVars, visitVars, quietVars, historyVars
<1>a. ReleaseAll /\ tracer' = At("exited")
  BY <1>0, ThreadIds DEF DetachThread
<1> HIDE DEF t
<1>1. KernelTypes'
  BY <1>0, <1>a DEF IInv, TypeInv, KernelTypes, ReleaseAll, At
<1>2. DataTypes'
  BY <1>0, <1>a DEF IInv, TypeInv, DataTypes, ReleaseAll, At
<1>3. PlaceTypes'
  BY <1>0, <1>a, AtTypes DEF IInv, TypeInv, PlaceTypes, Requests
<1>4. HistoryTypes'
  BY <1>0, <1>a DEF IInv, TypeInv, HistoryTypes, ReleaseAll, At
<1>5. PlaceInv'
  BY <1>0, <1>a DEF IInv, PlaceInv, Sleeping, Over, Visits, ReleaseAll, At, Asked, Requests
<1>6. KernelInv'
  BY <1>0, <1>a DEF IInv, KernelInv, ReleaseAll, At, Asked, Requests
<1>7. QueueInv'
  BY <1>0, <1>a DEF IInv, QueueInv, Sleeping, Visits, ReleaseAll, At
<1>8. PausedInv'
  BY <1>0, <1>a DEF IInv, PausedInv, EventIsFound, ReleaseAll, At
<1>9. KnownInv'
  BY <1>0, <1>a DEF IInv, KnownInv, Known, Over, ReleaseAll, At
<1>10. HeldInv'
  BY <1>0, <1>a DEF IInv, HeldInv, Held, Over, Visits, ReleaseAll, At
<1>11. OnceInv'
  BY <1>0, <1>a DEF IInv, PlaceInv, OnceInv, Over, Visits, At, Asked, Requests
<1> QED
  BY <1>1, <1>2, <1>3, <1>4, <1>5, <1>6, <1>7, <1>8, <1>9, <1>10, <1>11 DEF IInv, TypeInv
-----------------------------------------------------------------------------
(* The specification                                                        *)

LEMMA InitIInv == Init => IInv
<1> SUFFICES ASSUME Init PROVE IInv
  OBVIOUS
<1>1. KernelTypes
  BY DEF Init, KernelTypes
<1>2. DataTypes
  BY EventNumbers, EmptySeq DEF Init, DataTypes
<1>3. PlaceTypes
  <2>1. mode \in Modes
    BY ChoicesAssumption DEF Init, Modes
  <2>2. client \in [pc : {"start", "wait", "waiting", "got", "close", "gone"},
                    event : Event, events : 0 .. MaxEvents, left : Requests \cup {"none"}]
    BY EventNumbers, BoundsAssumption DEF Init
  <2> QED
    BY <2>1, <2>2, AtTypes DEF Init, PlaceTypes, Requests
<1>4. HistoryTypes
  BY DEF Init, HistoryTypes
<1>5. PlaceInv
  BY BoundsAssumption DEF Init, PlaceInv, Sleeping, Over, Visits, At, Asked, Requests
<1>6. KernelInv
  BY DEF Init, KernelInv, At, Asked, Requests
<1>7. QueueInv
  BY DEF Init, QueueInv, Sleeping, Visits, At
<1>8. PausedInv /\ KnownInv
  BY DEF Init, PausedInv, EventIsFound, KnownInv
<1>9. HeldInv
  BY DEF Init, HeldInv, Visits, At
<1>10. OnceInv
  BY DEF Init, OnceInv, Visits, At, NoEvent, Asked, Requests
<1> QED
  BY <1>1, <1>2, <1>3, <1>4, <1>5, <1>6, <1>7, <1>8, <1>9, <1>10 DEF IInv, TypeInv

LEMMA NextIInv == IInv /\ [Next]_vars => IInv'
<1> SUFFICES ASSUME IInv, [Next]_vars PROVE IInv'
  OBVIOUS
<1>1. CASE UNCHANGED vars
  <2>1. Quiet
    BY <1>1 DEF Quiet, IInv, TypeInv, PlaceTypes, vars, kernelVars, dataVars,
       historyVars, visitVars, Requests
  <2> QED
    BY <2>1, QuietStep
<1>2. CASE StartDebug \/ StartFails
  BY <1>2, StartDebugStep, QuietSteps
<1>3. CASE WaitForDebugEvent
  BY <1>3, WaitReturnsCurrentStep, WaitReturnsQueuedStep, WaitReturnsStopStep, WaitSleepsStep,
     WakeForStopStep, WakeForQueuedStep, WaitTimesOutStep DEF WaitForDebugEvent
<1>4. CASE ContinueFromDebugEvent
  BY <1>4, ContinueVirtualStep, ContinueSuspendedStep, ContinueThreadStep, ContinueRefusedStep
     DEF ContinueFromDebugEvent
<1>5. CASE Interrupt \/ Deadline \/ Die
  BY <1>5, QuietSteps
<1>6. CASE Others
  BY <1>6, QuietSteps, RestartDebugStep, SuspendPausedStep, SuspendRunningStep,
     ResumeThreadStep,
     VisitPausedStep, VisitRunningStep DEF Others
<1>7. CASE Suspending
  BY <1>7, SuspendStoppedStep, SuspendQueuedStep DEF Suspending
<1>8. CASE Visiting
  BY <1>8, QuietSteps, VisitingStep DEF Visiting
<1>9. CASE Ending
  BY <1>9, QuietSteps, DisconnectedStep, StopDebugStep, StopOtherSignalStep, DetachNext,
     DetachLast
     DEF Ending
<1>10. CASE Kernel
  BY <1>10, StopStep DEF Kernel
<1>11. CASE \E t \in Threads, s \in Raised : Raise(t, s)
  BY <1>11, RaiseStep
<1> QED
  BY <1>1, <1>2, <1>3, <1>4, <1>5, <1>6, <1>7, <1>8, <1>9, <1>10, <1>11 DEF Next

(* The inductive invariant holds of every behaviour of a debug session.     *)
THEOREM Invariance == Spec => []IInv
BY InitIInv, NextIInv, PTL DEF Spec

(* The variables keep their types: an event never names a thread that does  *)
(* not exist, and a trace never shows more events than --events.            *)
THEOREM TypeCorrect == Spec => []TypeOK
<1>1. IInv => TypeOK
  BY DEF IInv, TypeInv, KernelTypes, DataTypes, PlaceTypes, HistoryTypes, TypeOK, Requests
<1> QED
  BY <1>1, Invariance, PTL

(* A stop that waitpid has returned is the current event, a queued one or   *)
(* the event of a suspended thread, until StopDebug or a second StartDebug: *)
(* ceserver never loses a thread it has stopped.                            *)
THEOREM NoStopIsLost == Spec => []StopsAreKnown
<1>1. IInv => StopsAreKnown
  BY DEF IInv, KnownInv, Known, HasReal, Over, StopsAreKnown, Queued
<1> QED
  BY <1>1, Invariance, PTL

(* A thread SuspendThread has counted is stopped or about to stop, whatever *)
(* the trace continues, unless a visit took it for one that runs.           *)
THEOREM SuspensionsHold == Spec => []SuspendedStaysStopped
<1>1. IInv => SuspendedStaysStopped
  BY DEF IInv, HeldInv, Held, KernelInv, Over, SuspendedStaysStopped, Asked, Requests
<1> QED
  BY <1>1, Invariance, PTL

(* SuspendThread never copies through the NULL of a search in vain          *)
(* (FindThreadDebugEventInQueue): a paused thread that is not suspended has *)
(* an event where it looks.                                                 *)
THEOREM SearchSucceeds == Spec => []EventIsFound
<1>1. IInv => EventIsFound
  BY DEF IInv, PausedInv
<1> QED
  BY <1>1, Invariance, PTL

(* Without commands of other connections, WaitForDebugEvent sends each stop *)
(* once and ContinueFromDebugEvent never refuses.                           *)
THEOREM StopsAreSentOnce == Spec => []StopsAreShownOnce
<1>1. IInv => StopsAreShownOnce
  BY DEF IInv, OnceInv, StopsAreShownOnce
<1> QED
  BY <1>1, Invariance, PTL
=============================================================================
