---------------------------- MODULE CriticalSection ----------------------------
(***************************************************************************)
(* The recursive spin lock of dbvm (criticalSection, csEnter and csLeave   *)
(* in dbvm/vmm/common.c, spinlock in commona.asm).  Its three fields are   *)
(* plain memory that all CPUs read and write; only `lock bts` on `locked`  *)
(* is atomic.  Every step is one access to a field that another CPU can    *)
(* see the effect of.                                                      *)
(***************************************************************************)
EXTENDS Integers, FiniteSets

CONSTANTS
  CPUs,    \* by their APIC id
  NoCPU    \* the invalid APIC id of a section nobody owns

ASSUME NoCPUAssumption == NoCPU \notin CPUs

VARIABLES
  locked, apicid, lockcount,   \* the fields of the criticalSection
  at,                          \* per CPU: where it is in csEnter or csLeave
  depth                        \* history, per CPU: the csEnter it has not left

csVars == <<locked, apicid, lockcount, at, depth>>

CSInit ==
  /\ locked = FALSE
  /\ apicid = NoCPU
  /\ lockcount = 0
  /\ at = [c \in CPUs |-> "out"]
  /\ depth = [c \in CPUs |-> 0]

(* `locked && apicid == mine`                                               *)
Mine(c) == locked /\ apicid = c

-----------------------------------------------------------------------------
(* csEnter                                                                  *)

(* Mutant: the count of a nested entry is left alone.                       *)
ReenterUncounted(c) ==
  /\ at[c] = "out"
  /\ Mine(c)
  /\ depth' = [depth EXCEPT ![c] = @ + 1]
  /\ UNCHANGED <<locked, apicid, lockcount, at>>

(* "already locked but the locker is this cpu": only the count goes up.     *)
Reenter(c) ==
  /\ at[c] = "out"
  /\ Mine(c)
  /\ lockcount' = lockcount + 1
  /\ depth' = [depth EXCEPT ![c] = @ + 1]
  /\ UNCHANGED <<locked, apicid, at>>

Wait(c) ==
  /\ at[c] = "out"
  /\ ~Mine(c)
  /\ at' = [at EXCEPT ![c] = "spin"]
  /\ UNCHANGED <<locked, apicid, lockcount, depth>>

(* The bit is tested and set in one step.                                   *)
spinlock(c) ==
  /\ at[c] = "spin"
  /\ ~locked
  /\ locked' = TRUE
  /\ at' = [at EXCEPT ![c] = "count"]
  /\ UNCHANGED <<apicid, lockcount, depth>>

SetCount(c) ==
  /\ at[c] = "count"
  /\ lockcount' = 1
  /\ at' = [at EXCEPT ![c] = "own"]
  /\ UNCHANGED <<locked, apicid, depth>>

SetOwner(c) ==
  /\ at[c] = "own"
  /\ apicid' = c
  /\ at' = [at EXCEPT ![c] = "out"]
  /\ depth' = [depth EXCEPT ![c] = @ + 1]
  /\ UNCHANGED <<locked, lockcount>>

-----------------------------------------------------------------------------
(* csLeave                                                                  *)

(* The count goes down; at zero the lock is to be given up.  A CPU that     *)
(* leaves what it does not own stays in an endless loop.                    *)
Leave(c) ==
  /\ at[c] = "out"
  /\ lockcount' = IF Mine(c) THEN lockcount - 1 ELSE lockcount
  /\ depth' = IF Mine(c) THEN [depth EXCEPT ![c] = @ - 1] ELSE depth
  /\ at' = [at EXCEPT ![c] = IF ~Mine(c) THEN "hung"
                             ELSE IF lockcount' = 0 THEN "disown"
                             ELSE "out"]
  /\ UNCHANGED <<locked, apicid>>

(* Mutant: the owner's APIC id stays behind.                                *)
ClearOwnerMissing(c) ==
  /\ at[c] = "disown"
  /\ at' = [at EXCEPT ![c] = "unlock"]
  /\ UNCHANGED <<locked, apicid, lockcount, depth>>

(* First the owner is removed ...                                           *)
ClearOwner(c) ==
  /\ at[c] = "disown"
  /\ apicid' = NoCPU
  /\ at' = [at EXCEPT ![c] = "unlock"]
  /\ UNCHANGED <<locked, lockcount, depth>>

(* Mutant: the bit stays set.                                               *)
UnlockMissing(c) ==
  /\ at[c] = "unlock"
  /\ at' = [at EXCEPT ![c] = "out"]
  /\ UNCHANGED <<locked, apicid, lockcount, depth>>

(* ... then the bit is cleared.                                             *)
Unlock(c) ==
  /\ at[c] = "unlock"
  /\ locked' = FALSE
  /\ at' = [at EXCEPT ![c] = "out"]
  /\ UNCHANGED <<apicid, lockcount, depth>>

-----------------------------------------------------------------------------
(* The calls, as their callers see them: whether a step is the last of it.  *)
Entering(c) == Wait(c) \/ spinlock(c) \/ SetCount(c)
Entered(c) == Reenter(c) \/ SetOwner(c)
Leaving(c) == (Leave(c) /\ at'[c] # "out") \/ ClearOwner(c)
Left(c) == (Leave(c) /\ at'[c] = "out") \/ Unlock(c)

(* A section whose callers enter and leave as they please.                  *)
CSNext == \E c \in CPUs : Entering(c) \/ Entered(c) \/ Leaving(c) \/ Left(c)
CSSpec == CSInit /\ [][CSNext]_csVars

-----------------------------------------------------------------------------
CSTypeOK ==
  /\ locked \in BOOLEAN
  /\ apicid \in CPUs \cup {NoCPU}
  /\ lockcount \in Nat
  /\ at \in [CPUs -> {"out", "spin", "count", "own", "disown", "unlock", "hung"}]
  /\ depth \in [CPUs -> Nat]

(* No two CPUs are in the section at once.  A CPU gets in without the bit   *)
(* when it finds its own APIC id as the owner, so an id that outlives its   *)
(* owner's stay, or is set before the bit is won, lets two of them in.      *)
Exclusion == \A c, d \in CPUs : depth[c] > 0 /\ depth[d] > 0 => c = d
=============================================================================
