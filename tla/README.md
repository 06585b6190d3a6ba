# A TLA+ verification project for cheat-engine-cli

`cecli` is a command-line client for the Cheat Engine network protocol. It talks
either to `ceserver`, the C server bundled from upstream (`Cheat Engine/ceserver`),
or to `cebridge` / `--native`, a Go server in `internal/localbridge`. The repository
also bundles the upstream Cheat Engine, with its hypervisor dbvm. This directory models
the parts of the three programs, and the memory manager of dbvm, that keep state, share
it between threads or CPUs, or can be interrupted half way; checks them with TLC; and
proves properties of the Go bridge, of the handle list, of the debugger session, of both
scanners, of the store and of the lock and the memory of dbvm with TLAPS.

## 1. Inventory

| Component | State | Operations | Talks to |
|---|---|---|---|
| Loopback bridge `internal/localbridge/server.go` | `waitGroup`; per connection `handles`, `nextHandle` | `Serve`, `ServeConnection`, `handleCommand`, `addHandle`, `closeHandle`, `closeHandles` | peers over TCP or a pipe; one shared `Backend` |
| ceserver handle list `porthelp.c`, `OpenProcess`/`OpenPipe`/`CloseHandle` in `api.c` | `HandleList`, `HandleList_max`, reference counts of the objects, `connections` | create, look up, search, remove; open (shared), snapshot, walk, pipe, close; close all pipes | every connection thread of ceserver, without a lock |
| Debugger session `api.c`, `ceserver.c`, `internal/ceserver/debug.go` | `debugEventQueue`, `debuggedThreadEvent`, per thread `isPaused`, `suspendCount`, `suspendedDevent` | `StartDebug`, `WaitForDebugEvent`, `ContinueFromDebugEvent`, `SuspendThread`, `ResumeThread`, `StopDebug`; `TraceDebugEvents` | ptrace; the trace's connection; other connections over a socket pair |
| Breakpoints and contexts `api.c`, `context.c` | the debug registers of each thread | `SetBreakpoint`, `RemoveBreakpoint`, `GetThreadContext`, `SetThreadContext` | the debugger session, whose threads they stop and let go |
| dbvm memory manager `dbvm/vmm/mm.c` and its lock `csEnter`, `csLeave` in `common.c` | `AllocationInfoList`, `AllocList`, `AllocCS` | `malloc`, `free`, `realloc`, `malloc2`, `free2`, `realloc2`, `addPhysicalPagesToDBVM` | every CPU |
| Portable scanner `internal/ceserver/client.go` | the position in a region, the tail carried over, the matches, the unread stream | `ScanMemory`, `scanBuffer`, `readMemoryWithHandle` | the server, under a deadline per message |
| Server-side scanner `native-api.c` | cursor, address, hits | `AOBScan` over `VirtualQueryEx` and `ReadProcessMemory` | `/proc/<pid>` |
| Feedback store `internal/feedback/store.go` | one JSON file per issue and its `.tmp` | `Create`, `List`, `Show`, `Transition`, `write` | other invocations, through the directory |
| Other client operations `internal/ceserver/*.go` | none beyond an open handle | one request and its answer each | server |
| CLI `internal/cli` | none | validation, dry run, confirmation, dial, operation, verification, rendering | client library |
| Value codec `internal/memory/value.go` | none | encode and decode | CLI |
| Native backends `internal/localbridge/backend_*.go` | the system's handles | Mach and Windows calls | bridge |
| ceserver symbols, options, extension | settings, an injected library | as named | clients |
| Upstream GUI, Lua, compiler, kernel driver, the rest of dbvm | | | not part of these programs |

What is hard here:

* **Concurrency.** The bridge runs a goroutine per connection and waits for them only
  on one of its two ways out. ceserver runs a thread per connection over one global
  handle list with no lock. Its debugger thread serves commands of other connections
  nested inside a timed wait. dbvm's CPUs share an allocator whose lists live in the
  memory it hands out, under a lock whose owner is a field of its own.
* **Failure.** Peers disappear inside a request. A trace may die between an event and
  its continuation. The store is written by processes that can be killed.
* **Ordering and timeouts.** A read that misses its deadline leaves its answer in the
  stream. Handles are freed before they are removed from the list.
* **Edges.** Handle numbers wrap. The handle list has an end. Scans meet chunk ends,
  region ends and the top of the address space. dbvm's bit masks meet page ends.

`PROJECT.json` lists each hazard at its line, with the properties that cover it.

What makes each component correct:

* bridge: nothing opened is lost, nothing closed is used, no two handles share an
  object, a hang-up releases everything, a clean return leaves nothing behind;
* handle list: a handle denotes what it was opened for, reference counts cover the
  holders, no freed memory is touched, nothing stays open that nobody holds;
* debugger: no stop is forgotten or shown twice, a suspended thread does not run, the
  target is let go at the end, a continuation does what its mode says;
* breakpoints: a thread stopped for one is let go, or its own stop is kept; that the registers
  written are those of the thread that was asked for is not so (section 3, `api.c:741`);
* dbvm memory: allocations share nothing, no block is lost, `free` and `realloc` find
  what a caller owns, one CPU at a time is inside and somebody always gets in;
* scanners: exactly the matches of what could be read, and an end;
* store: an issue is what the last successful command made it.

## 2. Modules

| Module | Models | Kind |
|---|---|---|
| `LocalBridge` | the bridge | state machine |
| `LocalBridgeProofs` | | theorems about `LocalBridge` |
| `HandleList` | handle list, connections, sharing and freeing | state machine, one step per shared access |
| `HandleListProofs` | | theorems about `HandleList` |
| `DebugSession` | trace client, debugger thread, other connections, kernel | state machine |
| `DebugSessionProofs` | | theorems about `DebugSession` |
| `CriticalSection` | `csEnter`, `csLeave`, `spinlock` | state machine, one step per access to a field |
| `DbvmMemory` | the memory manager of dbvm | state machine, implements `CriticalSection` |
| `DbvmProofs` | | theorems about `CriticalSection` and `DbvmMemory` |
| `ScanReference` | requests, regions, matches | operators |
| `ScanReferenceProofs` | | lemmas about the operators of `ScanReference` and about addresses |
| `ExactScan` | what a scan promises | abstract specification |
| `ScanMemory` | the portable scanner | state machine, implements `ExactScan` |
| `ScanMemoryProofs` | | theorems about `ScanMemory` |
| `AobScan` | the scanner inside ceserver | state machine, implements `ExactScan` |
| `AobScanProofs` | | theorems about `AobScan` |
| `FeedbackStore` | the issue store | state machine |
| `FeedbackProofs` | | theorems about `FeedbackStore` |
| `MC*` | | instances for TLC |

Names of definitions follow the source. A definition that models code has its lines in
the `map` of `PROJECT.json`; a definition whose comment begins with *Mutant* is a
faulty variant that a property is tested against and belongs to no specification.

### LocalBridge

`conn[c]` is where the goroutine of a connection is: `none`, `pending` (in the
listener's backlog), `serving`, `returning` (the deferred calls are due), `done`
(`closeHandles` has run), `closed` (`waitGroup.Done` has run). A connection's table is
its goroutine's own, and a command is answered before the next one is read, so a whole
command is one step: `OpenProcess`, `CreateSnapshot`, `Process32`,
`CloseHandleCommand`, `Query` (all commands that change no table, and all refusals) and
`Leave`. `HangUp` may come at any time; after it, reads fail and writes may. `addHandle`
is modelled with its wrap and with its overwriting of a number in use; a wrapped
counter can lose an object, so `NoLeak` speaks of connections that have not wrapped,
while `NoUseAfterClose` and `HandleOwnsObject` hold past the wrap. `AcceptFails` is the
error path on which `Serve` returns without waiting.

### HandleList

Each action is one access to the list or to an object, with the thread's local
variables in `reg`. `Search`, `AddRef`, `Alloc`, `Find`, `StorePointer`, `StoreType`,
`Grow` and `FirstModule` are `OpenProcess` in its order; `Unref`, `Free` and `Remove`
are `CloseHandle`. A pointer to freed memory or NULL sets `fault` and stops the model.
`Grow` copies nothing, as the `memcpy` of `sizeof(size_t)` bytes does.

Nothing in the code keeps the commands of two connections apart. `overlapped` is a history
variable: it notes a *clash*, an open or close that starts while another command is under
way, or, once the list was enlarged and handles may lead elsewhere, any use of a handle that
does. Uses of handles, walks and ends of connections otherwise come between any two steps of
another connection's open or close, also between its free and its `RemoveHandle`. The
constant `Overlap` lets TLC leave clashes out; the proofs are for either value and speak of
the behaviours up to the first clash.

The snapshot that `OpenProcess` takes of the first module is one step. A snapshot of modules
itself opens the process and closes it again (`ModuleProcess`, one step too): that leaves
the list as it was unless a place is missing, and then empties it. Where a snapshot or a pipe
cannot be made the command ends (`AllocFails`). Closing a snapshot of threads frees the
threads in it and leaks the record that held them, which nobody can reach any more; the
model frees the object. Clients close only
handles they hold. `Walk` is Process32First, Process32Next and their like for modules
and threads: the server keeps the position (`iterator`), the client knows what it was
sent (`seen`). A pipe (`OpenPipe`, `UsePipe`) has no reference count and is freed by its
close. `up` is the set of connections that `connections` counts: `Connect` is
`threadStartedEvent`, `Disconnect` is the end of `newconnection`, which closes no handle
but, when it was the last connection, all pipes. That loop is one step, because it runs
under `connectionsCS`, without which no connection starts. What the entries of a
snapshot are is left out.

### DebugSession

The kernel part (`attached`, `stop`, `consumed`, `pending`) is external: a traced
thread with a pending signal stops, `waitpid` returns a stop once, a continued thread
runs, a single step traps, and the end of the tracer's thread releases all it traces.
`tracer` is ceserver's thread for the trace's connection: in `select` between commands,
asleep in the timed wait, in the loop of `SuspendThread`, in `StopDebug`, or ended.
A request that was sent stays in the socket when the client gives up (`Deadline`) or dies
(`Die`): it is `client.left`, the tracer still carries it out, and only then sees the
`CloseHandle` or the end of the connection.
Commands of other connections (`Passed`) run on that thread in `select` and nested in
the timed wait. The sender waits for the answer under a mutex, so such a command is one
step unless it has to wait for a stop. Threads of the target neither start nor exit, so
`StartDebug` attaches to all of them or, in `StartFails`, to none: the code also goes on
after an attach to some of them only, when a thread exits meanwhile. The code of the x86
build is modelled.

`SetBreakpoint`, `RemoveBreakpoint` and `GetThreadContext` are *visits*. On a paused
thread they act at once (`VisitPaused`); a running one they stop with SIGSTOP, wait for,
write to, and let go again (`VisitRunning`, `VisitStopped`), or, when it stopped with
something else, leave stopped with its event in the queue (`VisitQueued`). `Target` is
the thread they really write to. A breakpoint is membership in `breaks`. After ten tries the code goes on with an event it never
filled in (`VisitTimesOut`); the model ends there (`garbled`). `RestartDebug` is a second
`StartDebug` on the same process: it attaches nothing and builds the thread list anew.
It is one step, although the code rebuilds the list entry by entry, and it leaves out that
the second connection's thread then counts as a debugger thread (`ceserver.c:347`) and
competes with the tracer for the commands that are passed to it. It is all that `SetThreadContext` of another client does: the client starts the debugger
first, and the server then refuses a thread that is not the debugger's.

### CriticalSection, DbvmMemory

`CriticalSection` has the three fields of a `criticalSection` and a step for each access
that another CPU can see: the test of the owner, `lock bts`, the two stores after it,
and on the way out the count, the owner and the bit. `at[c]` is where a CPU is in them;
`depth[c]` is a history variable, the entries it has not left. `csLeave` by a CPU that is
not inside stays in an endless loop, as in the code (`hung`). `CSSpec` lets callers enter
and leave as they please.

`DbvmMemory` extends it with what is done under the lock. `todo[c]` is the rest of the
call a CPU is in, as a sequence of steps: `malloc` is `malloc2` in one critical section
and the entry into `AllocList` in another, `realloc` nests `malloc` and `free` in a third,
and a list that is full adds a `malloc2`, a copy and a `free2` of the list itself. Memory
is counted in blocks of 64 bytes. `malloc` rounds bytes up to blocks, and its two searches
look at bytes again, so a size is a number of blocks and whether the last one is whole
(`Whole`); `FullPages` are the pages a size fills in bytes, and `LastPart` the rest, which
has the blocks of a whole page when 4033 to 4095 bytes are left. `Marked` are the bits that
are set then: none for such a part, because the mask is `(1ULL << 64) - 1`. C leaves that
shift undefined; dbvm is built with `-O0` (`dbvm/vmm/Makefile:5`), so it is the processor's
shift by 64, which is one by 0. `damaged` is a history variable: `malloc2` gave out a last
part that was in use (finding 3) or did not mark one (`mm.c:1064`). Calls that change nothing
(`free` of NULL, sizes of 0) are left out, `realloc` of NULL is the call of `malloc`, and
pages that are added as already in use are left out too. When `AllocationInfoList` has to
move it is full, and the search for a run of empty pages may go on behind its end
(`Overrun`), which is a fault. `used` are the bits of `AllocationInfoList`, and
`copied` is its copy while it moves, during which `free2` still works on the old one.
`Fits` has both searches of `malloc2` with their limits, `Cleared` the bits `free2`
reaches, `findClosestAllocRegion` the binary search. Steps under the lock are not split
further, which `Exclusion` justifies. A fault, be it a NULL pointer that is followed, ends the
model. Page tables, and what the memory holds, are left out.

### ScanReference, ExactScan, ScanMemory, AobScan

`ExactScan` says what an exact scan is: it only ever adds matches of wanted regions, at
most as many as the limit, and when it ends it has every match of the regions it could
read whole, unless the limit stopped it. Both scanners implement it. In `ScanMemory` a
region was read whole when `reached` is at its end; in `AobScan` when no byte of the
mapping is unreadable and the target has not exited. So both find the same addresses
in the same memory, although one carries a tail from chunk to chunk and the other reads
overlapping pieces. The memory does not change during a scan. A portable scan that is
cancelled, or that cannot open the process or list its regions, returns an error and no
matches, and is not followed; nor is a server-side scan that cannot allocate its buffer, which
returns 0 at once. The server reads with `process_vm_readv`, as it does by default; the ways
through the debugger and through `/proc/<pid>/mem` are left out. In `ScanMemory` the
unread answers are `stream`; a deadline passes before the first byte of an answer, or
the connection breaks. `late` remembers that an answer was left behind; from
then on an answer may be taken for another one's, or refused for its length, after which
`link` is `garbled` and the next reads return anything. `ExactScan` promises nothing in
that case (`disturbed`). In `AobScan` addresses wrap as `uint64_t` does. Both scanners are
given regions in the order of their addresses, without overlaps, and in `AobScan` of whole
pages: that is how the kernel lists the mappings of a process, and the server passes the
list on in that order (`RegionOrderAssumption`, `MappingsAssumption`).

### FeedbackStore

Files are numbered objects and the two names of an issue point at them, so a file that
one invocation has open can be renamed by another. `OpenFile`, `WriteFile` and `Rename`
are the three system calls of `write`; an invocation can be killed between any two, and
a write can fail half way. Reading an issue is one step.

## 3. Runs

| Run | Bounds | Shows |
|---|---|---|
| `bridge` | 2 connections, 1 process, 2 handle numbers, 3 handles on one connection and 1 on the other | the safety invariants, the clean return, that hang-ups release and that `Serve` returns, over all interleavings and past a wrap of the counter |
| `handles` | 2 connections that come and go, 2 processes, 3 objects, a list of 3 that grows once, 2 handles each, snapshots of 1 entry; opens and closes one at a time, uses and ends of connections between any of their steps | sharing, counting, walking and release are right until the list grows; no freed memory is touched after it either; pipes end with the last connection |
| `handles_race` | 4 objects, overlapping commands and a list of 6 | finding 1 |
| `debug` | 2 threads, 5 events, 1 signal, `--continue deliver`, a client that may die, 2 commands of other connections: suspend, resume, set a breakpoint, start the debugger again | no stop is forgotten, suspended threads stay stopped and suspensions end, each but for the named cases; undisturbed, a trace shows each stop once |
| `debug_detach` | 1 thread, 3 events, no commands of others, a client that may die | finding 5 |
| `debug_mode` | 1 thread, 4 events, 1 signal, all modes | finding 2 |
| `dbvm` | 2 CPUs, 4 calls, pages of 4 blocks, sizes 2, 4 and 5 blocks, whole and not, 3 to 5 pages, both lists small enough to move | allocations are disjoint, bits exact, entries found, one CPU at a time, nobody hangs, somebody always gets in |
| `dbvm_overlap` | the same, sizes 2 and 5, 3 calls | finding 3 |
| `scan` | all memories of 6 bytes over 2 values, chunks of 2, late answers and lost connections | the portable scanner is an exact scan as long as no answer was late, stays in bounds when one was, and ends |
| `scan_wrong` | the same | finding 4 |
| `aobscan` | all memories of 9 bytes over 2 values, chunks and pages of 2 | the server's scanner is an exact scan, reports nothing twice and ends |
| `feedback` | 3 invocations, 2 issues, 2 statuses, 4 files, 2 kills | an issue is what was last acknowledged |

Why the bounds are enough. Handle properties relate two handles, on one connection or
on two, and one step of a third party (the accept loop, the system). Three handles over
two numbers wrap the counter while numbers are in use; what a wrap does is local to one
connection, so the other one stays short. The handle list needs two holders of one
process and one more object beside it; its two places are full with those, so `Grow` is
reached from `OpenProcess`, from `OpenPipe` and from the module snapshot, and after the
last of these a place is given anew while a client still holds its number. One
entry is enough to tell a walk that has not begun from one at its end. A trace of
two threads has two stops at once with one of them queued; five events see the three
virtual events and two stops. Two commands are a suspension and its end,
two suspended threads, or a visit to a thread and a suspension of it; a wait in vain takes
two as well. A set and a removed breakpoint stop a thread in the same way, so `debug` has one
of them and the second start. More commands and the other modes are beyond what TLC can do
for `SuspendEnds` in a few minutes; the invariants are proved for any number of commands and
all modes, and the suspension that `SuspendEnds` is about waits for the kernel, not for what
the trace continues with. In `dbvm`,
2 blocks are a small allocation that may go on into the next page, 5 a large one that
ends in a part of a page, and 4 one that ends with the page, or a few bytes before that; the first allocation makes `AllocList`, the second fills it,
so that it moves, and a page added to the three moves the list of bits. The scans have
patterns of one to three bytes around chunks of two, so a pattern is shorter than, as long as and longer than a chunk, with
wildcards, alignment, a limit, a start inside a page and a region that saturates. The
server's cursor wraps at the last page; that a chunk wraps (`native-api.c:90`) takes a region
that ends at the last address and is not reached by TLC, only by the proofs. Two
kills leave a temporary file behind and meet it again.

`CHECK_DEADLOCK FALSE` is set where the system may stop: peers, clients and invocations
owe nothing, and bounded counters run out. The scanners are checked for deadlock; their
end is a step that changes nothing.

### Fairness

* `LocalBridge`: a goroutine that can return does (the Go scheduler runs it), and
  `Serve` goes on from a closed listener and from `Wait`. After `Serve` failed the
  program exits, so nothing is assumed. Peers and processes owe nothing.
* `DebugSession`: client and tracer go on with what they began, a timed wait ends, a
  network deadline passes, another connection eventually closes its handle, and the
  kernel stops a running thread that has a signal pending. Nobody owes a signal, a
  suspension or an interrupt.
* `DbvmMemory`: each CPU goes on with the call it is in. Nobody owes a call, and no CPU
  is promised the lock: `spinlock` is not fair, so `SomeoneEnters` is about some CPU.
* `ScanMemory`, `AobScan`: the scan goes on; every read is answered or times out.

### Findings

1. `porthelp.c:40`: two threads can take one place of the handle list (`handles_race`).
2. `debug.go:15`: the numbers of the continuation modes are one off from the server's
   (`debug_mode`).
3. `mm.c:1032`: `malloc2` looks at the wrong page for the last part of a large
   allocation, and gives out blocks that are in use (`dbvm_overlap`).
4. `client.go:406`: a late answer is attributed to another address (`scan_wrong`).
5. `api.c:2606`: when `cecli` dies between an event and its continuation, `StopDebug` waits
   for a stop that was already taken, and the target stays attached (`debug_detach`).

Each is stated, with the line it contradicts, in `PROJECT.json`. They, and more behaviours of
the code, show as conditions of properties that hold, so these properties say nothing of
what comes after:

* Finding 3 is `damaged` in `ChunksAreDisjoint`, `BitsAreExact`, `OwnedIsFound` and
  `NoCPUHangs`. So is `mm.c:1064`: of an allocation that ends less than a block before the
  end of a page, that page is not marked, and can be handed out again.
* `mm.c:1130`: of a small allocation that goes on into the next page, `free2` clears only the
  bits of the first. The blocks it loses are `severed`, and `BitsAreExact` counts them as
  marked. `mm.c:1313`: without memory for a longer list all entries are forgotten
  (`forgotten` in `OwnedIsFound` and `NoCPUHangs`).
* `api.c:2242`: when no event is current, `WaitForDebugEvent` clears `isPaused` of suspended
  threads too. Such a thread is refused a resume (`ResumeRefused`), a second suspension of it
  waits for a stop that was already taken (`api.c:1774`; `WaitsInVain` in `SuspendEnds`), and
  a visit lets it run (`stray` in `SuspendedStaysStopped`).
* `api.c:741`: with two threads stopped, a breakpoint asked for on one may be written to the
  other (`Target`). No property speaks of `breaks`.
* `porthelp.c:53`: enlarging the handle list loses all handles in use, so
  `HandleKeepsItsObject`, `RefCountCoversHolders` and `WalkIsUndisturbed` speak of a
  list that has not grown. A pipe's handle then may lead to a process
  (`api.c:3988`), which `NoFault` excludes before the list grows.
* `ceserver.c:1843`: the handles of a connection that ends are never closed, so
  `OnlyLostHandlesStay` speaks of connections that closed theirs, and of pipes.
* `api.c:733`: after ten tries an event that was never filled in is used (`garbled`).
  `api.c:493`: a second `StartDebug` forgets suspensions (`wiped` in `StopsAreKnown`).

## 4. Proofs

`LocalBridgeProofs` proves, for any finite sets of connections and processes, any
handle width `MaxHandle >= 1` and any bounds `MaxIssued` on the handles each connection
is ever given:

| Theorem | Statement |
|---|---|
| `TypeCorrect` | `Spec => []TypeOK` (so `waitGroup` is never negative) |
| `NothingLeaks` | `Spec => []NoLeak` |
| `HandlesAreLive` | `Spec => []NoUseAfterClose` |
| `HandlesAreOwners` | `Spec => []HandleOwnsObject` |
| `ReturnIsClean` | `Spec => []CleanReturn` |
| `Invariance` | `Spec => []IInv`, from which the others follow |

`IInv` is `TypeOK /\ ServeInv /\ IdleInv /\ TableInv`. The properties are not inductive
by themselves:

* `CleanReturn` needs that `waitGroup` is the number of goroutines (`ServeInv`), so that
  zero means none is left, that a closed listener has no backlog, and that a goroutine
  past its clean-up has an empty table (`IdleInv`).
* `TypeOK` needs the same count: `Done` decrements `waitGroup`, which stays a natural
  number because the goroutine that calls it is one of those counted.
* `HandleOwnsObject` and `NoUseAfterClose` need each other and `FreshInv`: a new object
  is not in any table because tables hold open objects, and those are older.
* `NoLeak` needs `CounterInv`: before the wrap every number above the counter is
  unused, so `addHandle` overwrites nothing; and `HandleOwnsObject`, so that deleting an
  entry takes the last reference to the object it closes and no other.

The constants are assumed as the named `ASSUME`s of `LocalBridge` say: finite sets,
`MaxHandle` a positive natural, `None` no table entry. TLC evaluates them in every run.

`HandleListProofs` proves, for any finite set of connections, any processes, any first list,
any bounds on growth, objects, held handles, entries and lost connections, and whether or not
commands may clash (either value of `Overlap`):

| Theorem | Statement |
|---|---|
| `TypeCorrect` | `Spec => [](~overlapped => TypeOK)` (so no `ReferenceCount` is negative) |
| `HandlesKeepTheirObjects` | `Spec => [](~overlapped => HandleKeepsItsObject)` |
| `CountsAreRight` | `Spec => [](~overlapped => RefCountCoversHolders)` |
| `ProcessesAreShared` | `Spec => [](~overlapped => OneHandlePerProcess)` |
| `WalksAreUndisturbed` | `Spec => [](~overlapped => WalkIsUndisturbed)` |
| `NothingFreedIsUsed` | `Spec => [](~overlapped => NoFault)`, also after the list was enlarged |
| `NothingStays` | `Spec => [](~overlapped => OnlyLostHandlesStay)` |
| `Invariance` | `Spec => []Inv`, where `Inv` is `~overlapped => IInv /\ GoneInv`, from which the others follow |

The theorems are about the whole server, and say that nothing goes wrong before two commands
clash: finding 1 begins with an open that starts while another one is under way. They also
say which lock would be enough, one around each open and each close; uses of handles need it
only once the list has been enlarged. None of the properties is inductive:

* What keeps an object from being freed under a client is its count, so `HandleKeepsItsObject`
  needs `CountInv`: the references to an object are the holds on its place (`HoldsIn`) plus
  the one a running command owes (`Owed`, between a read of the handle and its return or
  `ReferenceCount--`). "At least" holds until the list grows, which loses places and not
  holds; "at most" until a connection is lost, which loses holds and not references; each
  property uses one half.
* `ListInv` and `UniqueInv` say that places in use lead to different objects that are not
  freed, except while a command is between the free and `RemoveHandle` (`Removing`).
  `NoFault` follows from these two and not from the counts, and so survives growth.
* `RegInv` carries a command from step to step: that a process the search did not find is
  still not in the list when its object is entered, that the new object is not yet listed,
  and that the place being closed still leads to the object read first.
* `HeldInv` has the iterator of a snapshot in it, and a walk keeps it for the other clients
  because a snapshot has one reference and so, by `CountInv`, one hold (lemma `OneHold`).
* `PipeInv` says that an open pipe is in the list or in the hands of a command, so that
  `CloseAllPipes` misses none; `GoneInv` that ended connections hold nothing, so that
  emptying the list of pipes leaves no client with a dead handle.

The lemmas `Appended`, `Removed` and `Dropped` count holds when a handle is given, closed or
lost. Closing the k-th handle moves the later ones down, and `Removed` counts them through a
bijection between the holds before, without that one, and those after.

`DebugSessionProofs` proves, for any number of threads, any signals and bounds, any commands
of other connections at any moment, any continuation modes and with or without the death of
`cecli`:

| Theorem | Statement |
|---|---|
| `TypeCorrect` | `Spec => []TypeOK` |
| `NoStopIsLost` | `Spec => []StopsAreKnown` |
| `SuspensionsHold` | `Spec => []SuspendedStaysStopped` |
| `SearchSucceeds` | `Spec => []EventIsFound` |
| `StopsAreSentOnce` | `Spec => []StopsAreShownOnce` |
| `Invariance` | `Spec => []IInv`, from which the others follow |

The assumptions are that there is a thread and at least one event, and that the bounds are
natural numbers. `IInv` has the types and seven parts, because the properties relate what ceserver has written down in several places
to what the kernel does, and commands run nested in the timed wait:

* `PlaceInv` ties the client to the tracer: in the timed wait no event is current, and an
  event the client has is the current one. `KernelInv` says that only a stopped thread has a
  stop that was taken, and that nothing is attached before the start and after the end.
* `EventIsFound` needs `PausedInv`: a paused thread that is not suspended has an event in the
  queue or as the current one, and the latter must not be a *virtual* event (those of the
  attach), because to continue one leaves `isPaused` alone.
* That in turn needs `QueueInv`: in the timed wait events are queued only for threads that
  are really stopped. A command that was passed there and waits for a stop has an empty
  queue behind it, so that the end of the wait never makes a virtual event current.
* `StopsAreKnown` counts any event of the thread as a trace of the stop. `KnownInv` asks for
  one that is not virtual, in one of the three places it can be moved between (`Known`);
  otherwise the virtual event of a thread could be continued and its real stop forgotten.
* `SuspendedStaysStopped` needs `HeldInv`: also threads that are only paused or visited are
  stopped or have a SIGSTOP pending, since a suspension starts from either.
* `StopsAreShownOnce` needs `OnceInv`: while no other connection has interfered, the queue
  has virtual events only and a stop that was shown has not been continued.

The queue is a sequence that is appended to, taken from at the head and searched for the
first event of a thread. The lemmas `TailQueue`, `AppendQueue`, `FirstOfQueue` and
`DequeuedQueue` say what each leaves in it; that there is a first event comes from the
well-foundedness of the order on the positions. There is one lemma per action
(for the three commands that stop a thread, one per way they end), and one, `QuietStep`, for
all steps that leave what the debugger has written down alone.

`DbvmProofs` proves, for any set of CPUs, any calls and sizes, and any depth of nesting:

| Theorem | Statement |
|---|---|
| `Refinement` | `Spec => CSSpec`: the memory manager uses `AllocCS` only as a caller may |
| `LockInvariance` | `CSSpec => []LockInv` |
| `Excludes` | `Spec => []Exclusion` |
| `NestingInvariance` | `Spec => [](LockInv /\ LevelInv)` |
| `SectionsAreLeft` | `Spec => []LeavesWhatItEntered`: no CPU stays in the endless loop of `csLeave`, and between two calls it holds nothing |
| `WorkIsLocked` | `Spec => [][Guards]_vars`: the bits, the lists and the heap are changed only inside the section |
| `TypeCorrect` | `Spec => []TypeOK` |
| `AllocationsAreDisjoint` | `Spec => []ChunksAreDisjoint` |
| `BitsMatchAllocations` | `Spec => []BitsAreExact` |
| `SearchRight` | `findClosestAllocRegion` is right on every sorted list |
| `MemoryInvariance` | `Spec => []MemoryInv`, from which the three before follow |

`Exclusion` speaks of CPUs that are inside, but a CPU may enter by finding its own id in
`apicid`, without the bit. So `LockInv` is `CSTypeOK /\ HolderInv /\ OwnerInv /\ CountInv`:
at most one CPU is between `lock bts` and the clearing of the bit, and the bit is set then;
the owner's id is there only while that CPU is inside or about to remove it; and
`lockcount` is its depth, so that it is given up by the last `csLeave` and no earlier. The
lemma `UsesLock` shows that every step of the memory manager is a step of the lock or
leaves it alone. The only assumption is that the invalid APIC id is no CPU's.

The next three theorems are about how the memory manager uses the lock. Its calls nest
(`realloc` in a section calls `malloc`, whose list may have to move, and `free`), and a call
is made longer while it runs, so they rest on an invariant of `todo`. `LevelInv` says that
the levels a CPU passes through in the steps it has still to do, each entry counted up and
each exit down, start at the level it is at, never fall below zero, end at zero, and are
above zero at every step that works on the lists or the bits. The lemmas `LeadsTail`,
`LeadsConcat` and `LeadsSection` let a call be taken apart and put together, and `WorkLevels`
says that what a step adds to the call keeps its balance. `SectionsAreLeft` is the first half
of `NoCPUHangs` without its condition: also when the lists are damaged, no CPU hangs in
`csLeave`.

The others are about the memory. `MemoryInv` is `LockInv /\ LevelInv /\ ShapeInv /\ TInv /\
OInv`. `malloc2` may be asked by `malloc`, by `addToAllocList` for a longer `AllocList`, or by
the addition of a page for a longer `AllocationInfoList`, each inside the other, and what it
gives is in nobody's list until the caller has gone on. So:

* `ShapeInv` says what the steps that remain look like: a `malloc2` is followed by the one
  step that uses its answer, a `free2` by the one that ends the change it belongs to (but
  for the second `free2` of the old `AllocationInfoList`), and only the CPU in the section
  has such steps. The lemma `WorkViews` reduces each action to the set of steps it takes
  away and adds (`View`); these theorems need no more of the order of `todo`.
* `TInv` gives the types of the steps, the answers, the lists, the bits and the heap. It
  has to say that a list that moves keeps room for the entry that made it move, and that the
  capacity of `AllocationInfoList` is what a doubling of its first one can be.
* `OInv`, until `malloc2` hands out a last part that is in use or not marked (`damaged`), gives every
  allocation an owner. Owners are the two lists, the entries of `AllocList`, and CPUs (the
  arguments of a pending step, the answer of `malloc2` a pending step uses, what is to be
  freed). `Owned` and `Unique` say that what has an owner is allocated and has no other
  owner; so what `free2` gives back is nobody else's. `Apart` says that allocations share no block, `Bits` that the bits are
  theirs, and `Moving` what the copy of `AllocationInfoList` holds between the copying and
  the change to it: the first `free2` clears the bits of the old list in the old list, and
  only the second, which looks like a mistake, clears them in the new one.

There is a lemma of each kind for each action (`...T` for the types, `...O` for the
ownership). Of the constants they need what `SizesAssumption` says: sizes and pages are not
empty, the lists have at least two entries and fill whole blocks, and the first
`AllocationInfoList` lies in the first pages. How many pages there are is not bounded: with
many (`InitializeMM` adds all of the boot memory) the search of `malloc2` for a longer
`AllocationInfoList` may look behind the end of the present one, and `Overrun` is that step.

`SearchRight` is about a recursive definition for lists of any length. The library's
induction theorems cannot be used (they take an operator), but a least counterexample can:
`Least` is the well-foundedness of the natural numbers, `ProbeExists` applies it to the
length of the range up to which the recursion defines a function, and `SearchRight` to the
length of the range on which the function is wrong.

The last part of `DbvmProofs` is about `AllocList` and who has what is in it:

| Theorem | Statement |
|---|---|
| `ClaimInvariance` | `Spec => []FullInv`, from which the others follow |
| `AllocationsAreFound` | `Spec => []OwnedIsFound`: `free` and `realloc` find what a caller owns, with its size |
| `NobodyHangs` | `Spec => []NoCPUHangs`: no CPU ends in the loop of `realloc` or of `csLeave` |

`OwnedIsFound` speaks of what callers own, but an allocation comes to its caller, and leaves
it, by way of the steps of calls that other CPUs interleave with. `FullInv` is
`MemoryInv /\ OrderInv /\ AgreeInv /\ ClaimInv`:

* `OrderInv` says which step of a call may come after which, also inside `realloc`, whose
  `malloc` and `free` are steps of the same call: the entry is made before `malloc` has its
  result, and that is copied to before the old allocation is unlinked.
* `AgreeInv` says that the steps of a call speak of one size, and that the entry and the
  result of `malloc` speak of one address. So what the caller is given is what was entered.
* `ClaimInv`, as long as nothing is `damaged` or `forgotten`, says
  that the list is sorted and that each of its holders' claims is an entry and has one holder
  only. Holders are the callers (`live`), a `malloc` between its entry and its return, the
  return to come, and a `free` or `realloc` from its call to the clearing of the entry. An
  entry passes from one to the next (`HeldPassed`). So `Clear` takes nobody else's entry,
  and `realloc` finds what it was given, which is the second half of `NoCPUHangs`.

That a new entry has an address of its own (`FreshEntry`) comes from the ownership in `OInv`:
two chunks of the heap do not begin at one address. With `SearchRight`, `EntryAdded` and
`EntryCleared` say what a new and a cleared entry do to a sorted list of any length, shifted or
taken over. There is one lemma per action (`...C`).

`ScanMemoryProofs` proves, for every memory, request, list of regions and chunk size, and
for every pattern of answers, failures, late answers and lost connections:

| Theorem | Statement |
|---|---|
| `TypeCorrect` | `Spec => []TypeOK` |
| `InBounds` | `Spec => []MatchesInBounds`, also after late answers |
| `NothingIsMissed` | `Spec => []NothingMissed` |
| `RealUntilLate` | `Spec => [](~late => MatchesAreReal)` |
| `Refinement` | `Spec => IsExactScan`: the portable scanner is an exact scan |
| `Invariance` | `Spec => []IInv`, from which the others follow |

`NothingMissed` is about whole regions, and the scanner works in chunks. `FrontInv` is what
holds between two chunks: the bytes carried over are as many as the pattern has but one, or
fewer at the start of a region, and they reach back exactly to `nextCandidate`, below which
all matches lie. So a match is found once, in the chunk that brings its last byte.
`ToComeInv` (nothing was read of later regions) and `PlaceInv` (matches lie in regions
taken up) carry this from region to region, and here the order of the regions is needed:
the limit keeps the lowest of the new matches, and nothing already found may lie among them.
`TrueInv` says that until an answer is late the stream is empty, so that each read gets its
own answer and the bytes carried over are those of the memory. `LimitInv` says that the scan
ends when the limit is reached.

`AobScanProofs` proves, for every memory, request, list of mappings and set of unreadable
addresses, and all chunk and page sizes that fit the address space:

| Theorem | Statement |
|---|---|
| `TypeCorrect` | `Spec => []TypeOK` |
| `CountIsExact` | `Spec => []ReportedOnce` |
| `Refinement` | `Spec => IsExactScan`: the server's scanner is an exact scan |
| `Invariance` | `Spec => []IInv`, from which the others follow |

`CompleteInv` says that behind `Place`, where the scan has come to, no match of a readable
mapping is missing, and `RealInv` that all that was found lies there, so a piece read again
with an overlap adds nothing twice and `resultCount` is exact. To go from one region to the
next the proof needs what a region of `VirtualQueryEx` is (`Covers`: the rest of a mapping,
or nothing mapped) and that it always reaches past the cursor; both rest on the page
alignment of mappings, because the query starts at the page of the address it is given.

Both rest on `ScanReferenceProofs`, whose subject is `Lowest`: of a finite set it keeps at
most `n` elements, and exactly the `n` lowest when one is left out. `Lowest` is defined by
ranks, and the proofs show that the ranks of a finite set are an initial part of the natural
numbers by counting (a bijection), without induction over the set.

`FeedbackProofs` proves, for any invocations, statuses, non-empty set of issues, and any
bounds on files and kills:

| Theorem | Statement |
|---|---|
| `TypeCorrect` | `Spec => []TypeOK` |
| `AckedIsStored` | `Spec => []StoredIsAcked` |
| `Invariance` | `Spec => []IInv`, from which the others follow |

What an issue's path leads to can be changed through any name of the same file, so `NamesInv`
says that no file has two names; `OwnInv` that the file an invocation has open is under a
name of its own issue, if under any; and `AloneInv` that, without two invocations on one
issue, it is the temporary file and holds what the step the invocation is at has put there.

Only model-checked: all liveness properties (`HangUpReleases`, `ServeReturns`, `SuspendEnds`, `SomeoneEnters`, `ScanEnds`), which the prover cannot do. Every invariant of a
passing run is also a theorem.

## 5. Not modelled

* CLI parsing and rendering, packet layouts, strings, logging.
* Threads that start or exit under the debugger, and a command passed to a debugger
  thread that has ended.
* Layouts of debug registers and contexts, ARM single steps, symbols, the extension,
  options.
* Memory that changes during a scan; a deadline in the middle of an answer.
* Native backends: the bridge's model has their interface.
* dbvm: page tables and the mapping of physical memory, contiguous memory, pages added as
  already in use; the exit handlers, EPT and the instruction emulator, which need a model
  of the processor.
* The upstream GUI, Lua scripts and kernel driver.

Most lines of C in the repository belong to what is listed here as bundled: the vendored
TCC compiler and its two copies of the Windows API headers, Lua, the Windows driver and
dbvm's handlers. They are not built into `cecli`, `cebridge` or `ceserver`, and for headers,
a code generator and processor emulation there is no state machine to check that would say
something about these programs. So the share of all lines that the modules stand for is
small, while of the three programs they cover what keeps state.

## 6. Plan

Done, in this order: `LocalBridge` with its proofs, `HandleList`, `DebugSession`,
`ScanReference`, `ExactScan`, `ScanMemory`, `AobScan`, `FeedbackStore`; then breakpoints,
contexts and a second start in `DebugSession`, pipes and the life of connections in
`HandleList`, `CriticalSection` and `DbvmMemory` with the proofs about the lock; then the
proofs about `FeedbackStore`, `ScanReference`, `ScanMemory`, `AobScan`, `HandleList` and
`DebugSession`, and about how `DbvmMemory` uses its lock, its memory and its list.

Next modules:

1. `DebugSession`: threads that start and exit under the debugger, and commands passed to
   a debugger thread that has gone.
2. `CliGate`: the order of validation, dry run, confirmation, dial, operation and
   verification for every guarded command, with a target that changes meanwhile.
3. `BridgeSession`: one invocation of the client (open, operate, close) composed with
   `LocalBridge`, with deadlines on either side and answers that never come; its
   abstract specification is an operation that happens at most once.
4. `VirtualQueryExFull`: the merging of mappings into regions, against a reference.
5. The value codec as operators, checked against a reference over small widths.

Extensions of a component extend its runs above, so that each run goes on asking one
question.
