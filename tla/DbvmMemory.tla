------------------------------ MODULE DbvmMemory ------------------------------
(***************************************************************************)
(* The memory manager of dbvm (dbvm/vmm/mm.c): a bit per block of 64 bytes *)
(* (AllocationInfoList), and a list of the allocations and their sizes,    *)
(* sorted by address (AllocList).  Both lists live in memory that malloc2  *)
(* itself hands out, and grow.                                             *)
(*                                                                         *)
(* All CPUs call malloc, free, realloc and the rest at once; AllocCS is    *)
(* taken, nested, inside them.  What a CPU has still to do is the sequence *)
(* todo[c]; a step is one access to the lock or one piece of work done     *)
(* under it.  Memory is counted in blocks, from BASE_VIRTUAL_ADDRESS.      *)
(***************************************************************************)
EXTENDS CriticalSection, Sequences, SequencesExt

CONSTANTS
  PageBlocks,    \* blocks in a page: 64, the bits of a BitMask
  ByteBlocks,    \* blocks in a byte of a BitMask: 8
  InfoPerBlock,  \* entries of AllocationInfoList in a block: 8
  ItemsPerBlock, \* entries of AllocList in a block: 4
  InitInfoMax,   \* PhysicalPageListMaxSize at the start: 64
  InitItems,     \* AllocListMax at the start: 64
  InitPages,     \* pages the boot code adds
  MaxPages,      \* bound on the pages
  Sizes,         \* sizes asked for, in blocks
  MaxCalls       \* bound on the calls

ASSUME SizesAssumption ==
  /\ {PageBlocks, ByteBlocks, InfoPerBlock, ItemsPerBlock, InitInfoMax, InitItems} \subseteq Nat \ {0}
  /\ Sizes \subseteq Nat \ {0}
  /\ ByteBlocks <= PageBlocks
  /\ InitInfoMax % InfoPerBlock = 0 /\ InitItems % ItemsPerBlock = 0 /\ InitItems > 1
  /\ InitPages \in Nat /\ InitPages < InitInfoMax
  /\ InitInfoMax \div InfoPerBlock <= InitPages * PageBlocks
  /\ MaxPages \in Nat /\ InitPages <= MaxPages
  /\ MaxCalls \in Nat

VARIABLES
  used,       \* AllocationInfoList: the blocks whose bit is set
  pages,      \* PhysicalPageListSize
  infoMax,    \* PhysicalPageListMaxSize
  infoBase,   \* AllocationInfoList, as an address
  copied,     \* what realloc2 has copied of it to its next place
  list,       \* AllocList: its address, AllocListMax and its entries
  todo, ret,  \* per CPU: what it has still to do, what malloc2 or malloc returned
  \* history
  heap,       \* what malloc2 gave and free2 has not got back
  live,       \* what callers of malloc own
  severed,    \* blocks free2 cannot reach any more
  damaged,    \* malloc2 gave out a last part that was in use, or did not mark one
  forgotten,  \* AllocList was replaced by NULL
  fault,      \* a CPU went through a NULL pointer, or wrote behind AllocationInfoList
  calls

mmVars == <<used, pages, infoMax, infoBase, copied, list>>
historyVars == <<heap, live, severed, damaged, forgotten>>
vars == <<csVars, mmVars, todo, ret, historyVars, fault, calls>>

NULL == -1
Blocks(base, n) == base .. base + n - 1
PageOf(p) == Blocks(p * PageBlocks, PageBlocks)
Memory == Blocks(0, pages * PageBlocks)
ChunkBlocks(x) == Blocks(x.base, x.size)

InfoBlocks(n) == n \div InfoPerBlock
ItemBlocks(n) == n \div ItemsPerBlock

Init ==
  /\ CSInit
  /\ infoMax = InitInfoMax
  /\ infoBase = 0
  /\ pages = InitPages
  /\ used = Blocks(0, InfoBlocks(InitInfoMax))
            \cup Blocks(InitPages * PageBlocks, (InitInfoMax - InitPages) * PageBlocks)
  /\ copied = {}
  /\ list = [base |-> NULL, max |-> 0, items |-> <<>>]
  /\ todo = [c \in CPUs |-> <<>>]
  /\ ret = [c \in CPUs |-> NULL]
  /\ heap = {[base |-> 0, size |-> InfoBlocks(InitInfoMax)]}
  /\ live = {}
  /\ severed = {}
  /\ damaged = FALSE /\ forgotten = FALSE /\ fault = FALSE
  /\ calls = 0

-----------------------------------------------------------------------------
(* What a call has to do                                                    *)

Step(op, base, size) == [op |-> op, base |-> base, size |-> size]
Enter == Step("enter", NULL, 0)
Exit == Step("leave", NULL, 0)

(* A step under the lock.                                                   *)
Section(s) == <<Enter, s, Exit>>

malloc2(n) == Section(Step("malloc2", NULL, n))
free2(b, n) == Section(Step("free2", b, n))
malloc(n) == malloc2(n) \o <<Step("record", NULL, n)>>
free(b) == Section(Step("unlink", b, 0))

(* The first step of c is done; `more` comes before the rest.               *)
Done(c, more) == todo' = [todo EXCEPT ![c] = more \o Tail(@)]

Doing(c, op) ==
  /\ todo[c] # <<>>
  /\ Head(todo[c]).op = op
  /\ at[c] = "out"

-----------------------------------------------------------------------------
(* malloc2 and free2                                                        *)

(* Fewer than 56 blocks: the mask is shifted over the list, and begins in   *)
(* any page but the last.                                                   *)
SmallFits(b, n) ==
  /\ b < (pages - 1) * PageBlocks
  /\ Blocks(b, n) \cap used = {}

IsSmall(n) == n < PageBlocks - ByteBlocks

(* The size of a list is a number of whole blocks.  A caller of malloc asks *)
(* for bytes, and n blocks may stand for fewer than 64 bytes in the last.   *)
Whole(c) == IF Len(todo[c]) > 2 /\ todo[c][3].op = "record" THEN BOOLEAN ELSE {TRUE}

(* size / 4096, the pages that are filled.  When the last block is not      *)
(* whole, the last page is only a last part, even if of 64 blocks.          *)
FullPages(n, whole) == (IF whole THEN n ELSE n - 1) \div PageBlocks

(* 56 and more begin with an empty page.  The pages that are filled must be *)
(* empty too; for the last, of which only a part is needed, the code looks  *)
(* at the mask of the first, which is empty.                                *)
EmptyFrom(p, full) ==
  /\ p < pages
  /\ PageOf(p) \cap used = {}
  /\ \A q \in p .. p + full - 1 : PageOf(q) \cap used = {}

Inside(p, n) == p * PageBlocks + n <= infoMax * PageBlocks

(* Mutant: one block too few is looked at.                                  *)
FitsShort(n, full) ==
  IF IsSmall(n) THEN {b \in Memory : SmallFits(b, n - 1)}
  ELSE {b \in Memory : b % PageBlocks = 0 /\ EmptyFrom(b \div PageBlocks, full) /\ Inside(b \div PageBlocks, n)}

Fits(n, full) ==
  IF IsSmall(n) THEN {b \in Memory : SmallFits(b, n)}
  ELSE {b \in Memory : b % PageBlocks = 0 /\ EmptyFrom(b \div PageBlocks, full) /\ Inside(b \div PageBlocks, n)}

(* Where the search goes on behind the end of AllocationInfoList, which is  *)
(* full when it moves: the memory there decides if the pages look empty.    *)
Overruns(n, full) ==
  IF IsSmall(n) THEN {} ELSE {p \in 0 .. pages - 1 : EmptyFrom(p, full) /\ ~Inside(p, n)}

(* What is needed of the last page, when that is not all of it.             *)
LastPart(b, n, full) == Blocks(b + full * PageBlocks, n - full * PageBlocks)

(* The bits malloc2 sets.  For a last part of 64 blocks, which are not      *)
(* whole, the mask (1ULL << 64) - 1 is 0: a shift by 64 is one by 0.        *)
Marked(b, n, full) ==
  Blocks(b, full * PageBlocks)
  \cup (IF n - full * PageBlocks = PageBlocks THEN {} ELSE LastPart(b, n, full))

DoMalloc2(c) ==
  LET n == Head(todo[c]).size IN
  /\ Doing(c, "malloc2")
  /\ \E whole \in Whole(c) :
       LET full == FullPages(n, whole)
           b == Min(Fits(n, full))
           last == LastPart(b, n, full)
       IN
       \/ /\ Fits(n, full) = {}
          /\ \A p \in Overruns(n, full) : p + full > infoMax
          /\ ret' = [ret EXCEPT ![c] = NULL]
          /\ UNCHANGED <<used, heap, damaged>>
       \/ /\ Fits(n, full) # {}
          /\ ret' = [ret EXCEPT ![c] = b]
          /\ used' = used \cup Marked(b, n, full)
          /\ heap' = heap \cup {[base |-> b, size |-> n]}
          /\ damaged' = (damaged \/ (~IsSmall(n) /\ (last \cap used # {} \/ ~(last \subseteq Marked(b, n, full)))))
  /\ Done(c, <<>>)
  /\ UNCHANGED <<csVars, pages, infoMax, infoBase, copied, list, live, severed, forgotten, fault, calls>>

(* The pages behind the end of the list are taken, and marked there.        *)
Overrun(c) ==
  LET n == Head(todo[c]).size IN
  /\ Doing(c, "malloc2")
  /\ \E whole \in Whole(c) : /\ Fits(n, FullPages(n, whole)) = {}
                             /\ Overruns(n, FullPages(n, whole)) # {}
  /\ fault' = TRUE
  /\ UNCHANGED <<csVars, mmVars, todo, ret, historyVars, calls>>

(* The bits free2 clears: whole pages, then a mask shifted to the offset in *)
(* its page, which pushes the bits of the next page out of the 64.          *)
Cleared(b, n) ==
  LET rest == b + (n \div PageBlocks) * PageBlocks
  IN  Blocks(b, (n \div PageBlocks) * PageBlocks)
      \cup (Blocks(rest, n % PageBlocks) \cap PageOf(rest \div PageBlocks))

DoFree2(c) ==
  LET x == [base |-> Head(todo[c]).base, size |-> Head(todo[c]).size] IN
  /\ Doing(c, "free2")
  /\ used' = used \ Cleared(x.base, x.size)
  /\ heap' = heap \ {x}
  /\ severed' = IF x \in heap THEN severed \cup (ChunkBlocks(x) \ Cleared(x.base, x.size)) ELSE severed
  /\ Done(c, <<>>)
  /\ UNCHANGED <<csVars, pages, infoMax, infoBase, copied, list, ret, live, damaged, forgotten, fault, calls>>

-----------------------------------------------------------------------------
(* AllocList                                                                *)

(* The binary search; places are counted from 1 here.                       *)
findClosestAllocRegion(items, b) ==
  LET probe[r \in (0 .. Len(items)) \X (-1 .. Len(items) - 1)] ==
        LET low == r[1]
            high == r[2]
            mid == low + (high - low) \div 2
        IN
        IF low > high THEN low
        ELSE IF b = items[mid + 1].base THEN mid
        ELSE IF b > items[mid + 1].base THEN probe[<<mid + 1, high>>]
        ELSE probe[<<low, mid - 1>>]
  IN  probe[<<0, Len(items) - 1>>] + 1

Closest(b) == findClosestAllocRegion(list.items, b)

(* The place of an allocation that is in the list.                          *)
Found(b) ==
  /\ Closest(b) <= Len(list.items)
  /\ list.items[Closest(b)].size # 0
  /\ list.items[Closest(b)].base = b

(* A search in a list that is NULL reads from address 0.                    *)
Searchable == list.base # NULL \/ list.items = <<>>

(* malloc2 has returned: without memory malloc returns NULL, otherwise the  *)
(* allocation is entered into the list, in a critical section of its own.   *)
Record(c) ==
  LET n == Head(todo[c]).size IN
  /\ Doing(c, "record")
  /\ Done(c, IF ret[c] = NULL THEN <<>>
             ELSE Section(Step("insert", ret[c], n)) \o <<Step("result", ret[c], n)>>)
  /\ UNCHANGED <<csVars, mmVars, ret, historyVars, fault, calls>>

Result(c) ==
  /\ Doing(c, "result")
  /\ ret' = [ret EXCEPT ![c] = Head(todo[c]).base]
  /\ Done(c, <<>>)
  /\ UNCHANGED <<csVars, mmVars, historyVars, fault, calls>>

(* The first entry of all: there is no list yet.                            *)
InsertFirst(c) ==
  LET s == Head(todo[c]) IN
  /\ Doing(c, "insert")
  /\ list.base = NULL
  /\ Done(c, malloc2(ItemBlocks(InitItems)) \o <<Step("firstlist", s.base, s.size)>>)
  /\ UNCHANGED <<csVars, mmVars, ret, historyVars, fault, calls>>

FirstList(c) ==
  LET s == Head(todo[c]) IN
  /\ Doing(c, "firstlist")
  /\ list' = [base |-> ret[c], max |-> InitItems, items |-> <<[base |-> s.base, size |-> s.size]>>]
  /\ fault' = (ret[c] = NULL)
  /\ Done(c, <<>>)
  /\ UNCHANGED <<csVars, used, pages, infoMax, infoBase, copied, ret, historyVars, calls>>

(* Mutant: any entry at that place is taken over.                           *)
WithEntryOverwriting(items, x) ==
  LET i == findClosestAllocRegion(items, x.base) IN
  IF i <= Len(items) THEN [items EXCEPT ![i] = x] ELSE Append(items, x)

(* The list with a new entry at its place: a freed entry there is taken     *)
(* over, otherwise the entries from there on are shifted.                   *)
WithEntry(items, x) ==
  LET i == findClosestAllocRegion(items, x.base) IN
  IF i <= Len(items) /\ items[i].size = 0 THEN [items EXCEPT ![i] = x]
  ELSE InsertAt(items, i, x)

(* Mutant: one entry too late.                                              *)
IsFullLate(n) == n > list.max

IsFull(n) == n >= list.max

(* A list that is full now is moved to one twice its length.                *)
Insert(c) ==
  LET s == Head(todo[c])
      items == WithEntry(list.items, [base |-> s.base, size |-> s.size])
  IN
  /\ Doing(c, "insert")
  /\ list.base # NULL
  /\ list' = [list EXCEPT !.items = items]
  /\ Done(c, IF Len(items) > Len(list.items) /\ IsFull(Len(items))
             THEN malloc2(ItemBlocks(2 * list.max)) \o <<Step("movelist", NULL, 0)>>
             ELSE <<>>)
  /\ UNCHANGED <<csVars, used, pages, infoMax, infoBase, copied, ret, historyVars, fault, calls>>

(* realloc2 copies the list and frees the old one, or has no memory and     *)
(* returns NULL; the pointer is set to the result either way.               *)
MoveList(c) ==
  /\ Doing(c, "movelist")
  /\ Done(c, (IF ret[c] = NULL THEN <<>> ELSE free2(list.base, ItemBlocks(list.max)))
             \o <<Step("setlist", ret[c], 0)>>)
  /\ UNCHANGED <<csVars, mmVars, ret, historyVars, fault, calls>>

SetList(c) ==
  /\ Doing(c, "setlist")
  /\ list' = [list EXCEPT !.base = Head(todo[c]).base, !.max = 2 * @]
  /\ forgotten' = (forgotten \/ Head(todo[c]).base = NULL)
  /\ Done(c, <<>>)
  /\ UNCHANGED <<csVars, used, pages, infoMax, infoBase, copied, ret, heap, live, severed, damaged, fault, calls>>

(* free: what is not in the list is ignored.                                *)
Unlink(c) ==
  LET b == Head(todo[c]).base IN
  /\ Doing(c, "unlink")
  /\ fault' = ~Searchable
  /\ Done(c, IF Searchable /\ Found(b)
             THEN free2(b, list.items[Closest(b)].size) \o <<Step("clear", b, 0)>>
             ELSE <<>>)
  /\ UNCHANGED <<csVars, mmVars, ret, historyVars, calls>>

Clear(c) ==
  /\ Doing(c, "clear")
  /\ list' = [list EXCEPT !.items[Closest(Head(todo[c]).base)].size = 0]
  /\ Done(c, <<>>)
  /\ UNCHANGED <<csVars, used, pages, infoMax, infoBase, copied, ret, historyVars, fault, calls>>

-----------------------------------------------------------------------------
(* realloc                                                                  *)

(* malloc, the copy and free of the old one, all under the lock.  For an    *)
(* address that is not in the list the CPU stays in an endless loop.        *)
Resize(c) ==
  LET s == Head(todo[c]) IN
  /\ Doing(c, "resize")
  /\ fault' = ~Searchable
  /\ Done(c, IF Searchable /\ Found(s.base)
             THEN malloc(s.size) \o <<Step("copymem", NULL, 0)>> \o free(s.base)
             ELSE <<Step("error", NULL, 0)>>)
  /\ UNCHANGED <<csVars, mmVars, ret, historyVars, calls>>

(* malloc's result is copied to without a test.                             *)
Copymem(c) ==
  /\ Doing(c, "copymem")
  /\ fault' = (ret[c] = NULL)
  /\ Done(c, <<>>)
  /\ UNCHANGED <<csVars, mmVars, ret, historyVars, calls>>

-----------------------------------------------------------------------------
(* addPhysicalPageToDBVM                                                    *)

(* The page is needed for the page tables that will map later ones ...      *)
AddTable(c) ==
  /\ Doing(c, "addpage")
  /\ Done(c, <<>>)
  /\ UNCHANGED <<csVars, mmVars, ret, historyVars, fault, calls>>

(* ... or becomes memory.  A list that is full now is moved to one twice    *)
(* its length.                                                              *)
AddPage(c) ==
  /\ Doing(c, "addpage")
  /\ pages < MaxPages
  /\ used' = used \ PageOf(pages)
  /\ pages' = pages + 1
  /\ Done(c, IF pages' >= infoMax
             THEN malloc2(InfoBlocks(2 * infoMax)) \o <<Step("moveinfo", NULL, 0)>>
             ELSE <<>>)
  /\ UNCHANGED <<csVars, infoMax, infoBase, copied, list, ret, historyVars, fault, calls>>

(* realloc2 copies the list and calls free2, which still works on the old   *)
(* one; then the new one is put to use.                                     *)
MoveInfo(c) ==
  /\ Doing(c, "moveinfo")
  /\ fault' = (ret[c] = NULL)
  /\ copied' = used
  /\ Done(c, free2(infoBase, InfoBlocks(infoMax)) \o <<Step("setinfo", ret[c], 0)>>)
  /\ UNCHANGED <<csVars, used, pages, infoMax, infoBase, list, ret, historyVars, calls>>

(* Mutant: without the second free2.                                        *)
SetInfoOnly(c) ==
  /\ Doing(c, "setinfo")
  /\ infoBase' = Head(todo[c]).base
  /\ infoMax' = 2 * infoMax
  /\ used' = copied \cup Blocks(pages * PageBlocks, (2 * infoMax - pages) * PageBlocks)
  /\ copied' = {}
  /\ Done(c, <<>>)
  /\ UNCHANGED <<csVars, pages, list, ret, historyVars, fault, calls>>

(* The bits of pages still to come are set, and free2 is called once more.  *)
SetInfo(c) ==
  /\ Doing(c, "setinfo")
  /\ infoBase' = Head(todo[c]).base
  /\ infoMax' = 2 * infoMax
  /\ used' = copied \cup Blocks(pages * PageBlocks, (2 * infoMax - pages) * PageBlocks)
  /\ copied' = {}
  /\ Done(c, free2(infoBase, InfoBlocks(infoMax)))
  /\ UNCHANGED <<csVars, pages, list, ret, historyVars, fault, calls>>

-----------------------------------------------------------------------------
(* The calls                                                                *)

Calls(c, steps) ==
  /\ todo[c] = <<>>
  /\ calls < MaxCalls
  /\ calls' = calls + 1
  /\ todo' = [todo EXCEPT ![c] = steps]
  /\ UNCHANGED <<csVars, mmVars, ret, heap, severed, damaged, forgotten, fault>>

(* realloc of NULL is a malloc.  A size of 0 changes nothing, nor does a    *)
(* free of NULL.                                                            *)
CallMalloc(c, n) == Calls(c, malloc(n) \o <<Step("return", NULL, n)>>) /\ UNCHANGED live
CallFree(c, x) == Calls(c, free(x.base)) /\ live' = live \ {x}
CallRealloc(c, x, n) ==
  /\ Calls(c, Section(Step("resize", x.base, n)) \o <<Step("return", NULL, n)>>)
  /\ live' = live \ {x}
CallAddPage(c) == Calls(c, Section(Step("addpage", NULL, 0))) /\ UNCHANGED live

(* The caller has its memory, or NULL.                                      *)
Return(c) ==
  /\ Doing(c, "return")
  /\ live' = IF ret[c] = NULL THEN live
             ELSE live \cup {[base |-> ret[c], size |-> Head(todo[c]).size]}
  /\ ret' = [ret EXCEPT ![c] = NULL]
  /\ Done(c, <<>>)
  /\ UNCHANGED <<csVars, mmVars, heap, severed, damaged, forgotten, fault, calls>>

(* A step of csEnter or csLeave on AllocCS.                                 *)
Lock(c) ==
  /\ todo[c] # <<>>
  /\ \/ Head(todo[c]).op = "enter" /\ Entering(c) /\ UNCHANGED todo
     \/ Head(todo[c]).op = "enter" /\ Entered(c) /\ Done(c, <<>>)
     \/ Head(todo[c]).op = "leave" /\ Leaving(c) /\ UNCHANGED todo
     \/ Head(todo[c]).op = "leave" /\ Left(c) /\ Done(c, <<>>)
  /\ UNCHANGED <<mmVars, ret, historyVars, fault, calls>>

Work(c) ==
  \/ DoMalloc2(c) \/ DoFree2(c)
  \/ Record(c) \/ InsertFirst(c) \/ FirstList(c) \/ Insert(c) \/ MoveList(c) \/ SetList(c)
  \/ Result(c) \/ Return(c)
  \/ Unlink(c) \/ Clear(c)
  \/ Resize(c) \/ Copymem(c)
  \/ AddTable(c) \/ AddPage(c) \/ MoveInfo(c) \/ SetInfo(c)

Call(c) ==
  \/ \E n \in Sizes : CallMalloc(c, n)
  \/ \E x \in live : CallFree(c, x) \/ \E n \in Sizes : CallRealloc(c, x, n)
  \/ CallAddPage(c)

(* A fault ends the model.                                                  *)
Next == ~fault /\ \E c \in CPUs : Lock(c) \/ Work(c) \/ Overrun(c) \/ Call(c)

(* A CPU goes on with what it has begun; nobody owes a call.                *)
Spec == Init /\ [][Next]_vars
FairSpec == Spec /\ \A c \in CPUs : WF_vars(~fault /\ (Lock(c) \/ Work(c) \/ Overrun(c)))

-----------------------------------------------------------------------------
TypeOK ==
  /\ CSTypeOK
  /\ pages \in InitPages .. MaxPages
  /\ infoMax >= pages
  /\ used \subseteq Blocks(0, infoMax * PageBlocks)
  /\ list.base \in Memory \cup {NULL}
  /\ Len(list.items) <= list.max
  /\ \A x \in heap \cup live : x.base \in Memory /\ x.size \in Nat
  /\ \A c \in CPUs : ret[c] \in Memory \cup {NULL}

(* Two allocations never share a block, and lie in memory that exists: with *)
(* lists that move inside the memory they describe, allocations that go on  *)
(* into the next page and CPUs between malloc2 and the list, as long as no  *)
(* large allocation had a last part that was in use or was not marked.      *)
ChunksAreDisjoint ==
  ~damaged => \A x \in heap : /\ ChunkBlocks(x) \subseteq Memory
                             /\ \A y \in heap : ChunkBlocks(x) \cap ChunkBlocks(y) # {} => x = y

(* When no CPU has the lock, the bits that are set are those of the         *)
(* allocations and those free2 could not reach; no block is lost otherwise, *)
(* and none is free while it is owned.                                      *)
BitsAreExact ==
  (~damaged /\ ~locked) => used \cap Memory = (UNION {ChunkBlocks(x) : x \in heap}) \cup severed

(* free and realloc find every allocation a caller owns, with its size: the *)
(* list stays sorted through shifts, reused entries and moves.              *)
OwnedIsFound ==
  ~(damaged \/ forgotten)
    => \A x \in live : Found(x.base) /\ list.items[Closest(x.base)] = x

(* csLeave is only reached by the CPU that is in the section, and realloc   *)
(* finds what it is given: no CPU enters one of the endless loops.          *)
NoCPUHangs ==
  ~(damaged \/ forgotten)
    => \A c \in CPUs : at[c] # "hung" /\ (todo[c] = <<>> \/ Head(todo[c]).op # "error")

(* While a CPU spins for the lock, some CPU always gets it sooner or later, *)
(* however deep the one inside has nested, unless the lists are damaged.    *)
SomeoneEnters ==
  (\E c \in CPUs : at[c] = "spin")
    ~> (fault \/ damaged \/ forgotten \/ \E c \in CPUs : at[c] = "count")

(* mm.c:1032 on a last page of which only a part is needed: "it is usable,  *)
(* the first parts of this page are not used".                              *)
ChunksNeverOverlap ==
  \A x, y \in heap : ChunkBlocks(x) \cap ChunkBlocks(y) # {} => x = y
=============================================================================
