----------------------------- MODULE FeedbackStore -----------------------------
(***************************************************************************)
(* The issue store of internal/feedback/store.go: one file per issue, read *)
(* whole by Show and List, replaced by write through <issue>.json.tmp and  *)
(* a rename.  Invocations of cecli share the directory without a lock and  *)
(* may be killed at any step.                                              *)
(***************************************************************************)
EXTENDS Integers, Sequences

CONSTANTS
  Invocations,  \* cecli processes
  Issues,       \* identifiers newIdentifier may make, each at most once
  Statuses,     \* validStatuses
  Open,         \* the status of a new issue
  MaxFiles,     \* bound on the files ever made in the directory
  MaxCrashes    \* bound on the invocations killed

ASSUME OpenAssumption == Open \in Statuses
ASSUME IssuesAssumption == Issues # {}
ASSUME BoundsAssumption == MaxFiles \in Nat /\ MaxCrashes \in Nat

(* A file is empty, holds an issue, or holds what does not decode.  Of an   *)
(* issue only the status ever changes.                                      *)
Contents == Statuses \cup {"empty", "torn"}

VARIABLES
  files,      \* the files made so far, by number
  published,  \* per issue: the file at its path, 0 for none
  temporary,  \* per issue: the file at its path + ".tmp", 0 for none
  run,        \* per invocation: where it is, its issue, status and open file
  acked,      \* history, per issue: the status last reported as stored
  overlapped, \* history: issues two invocations were writing at a time
  crashes

vars == <<files, published, temporary, run, acked, overlapped, crashes>>

Idle(i, s) == [pc |-> "idle", issue |-> i, status |-> s, file |-> 0]

AnIssue == CHOOSE i \in Issues : TRUE
NoRun == Idle(AnIssue, Open)

Init ==
  /\ files = <<>>
  /\ published = [i \in Issues |-> 0]
  /\ temporary = [i \in Issues |-> 0]
  /\ run = [p \in Invocations |-> NoRun]
  /\ acked = [i \in Issues |-> Open]
  /\ overlapped = {}
  /\ crashes = 0

-----------------------------------------------------------------------------
Writing(i) == {p \in Invocations : run[p].pc # "idle" /\ run[p].issue = i}

(* Invocations that have its temporary file open or are about to rename it. *)
Busy(i) == {p \in Writing(i) : run[p].pc \in {"write", "rename"}}

(* An issue whose file or temporary file exists, or which is being made.    *)
Known(i) == published[i] # 0 \/ temporary[i] # 0 \/ Writing(i) # {}

Begin(p, i, s) ==
  /\ run[p].pc = "idle"
  /\ run' = [run EXCEPT ![p] = [pc |-> "open", issue |-> i, status |-> s, file |-> 0]]
  /\ UNCHANGED <<files, published, temporary, acked, overlapped, crashes>>

(* Mutant: the status of a new issue is left out.                           *)
CreateWithoutStatus(p, i) == ~Known(i) /\ Begin(p, i, "empty")

Create(p, i) == ~Known(i) /\ Begin(p, i, Open)

(* Show, and a new status for what it returned.  An issue that is absent or *)
(* does not decode ends the command.                                        *)
Decodes(i) == published[i] # 0 /\ files[published[i]] \in Statuses

Transition(p, i, s) == Decodes(i) /\ Begin(p, i, s)

-----------------------------------------------------------------------------
(* write                                                                    *)

Set(p, step, file) ==
  run' = [run EXCEPT ![p] = [pc |-> step, issue |-> @.issue, status |-> @.status, file |-> file]]
End(p) == run' = [run EXCEPT ![p] = NoRun]

(* Mutant: the issue's own file is written.                                 *)
OpenFileInPlace(p) ==
  LET i == run[p].issue
      old == published[i]
      f == IF old = 0 THEN Len(files) + 1 ELSE old
  IN
  /\ run[p].pc = "open"
  /\ f <= MaxFiles
  /\ files' = IF old = 0 THEN Append(files, "empty") ELSE [files EXCEPT ![f] = "empty"]
  /\ published' = [published EXCEPT ![i] = f]
  /\ temporary' = [temporary EXCEPT ![i] = f]
  /\ overlapped' = IF Busy(i) # {} THEN overlapped \cup {i} ELSE overlapped
  /\ Set(p, "write", f)
  /\ UNCHANGED <<acked, crashes>>

(* os.WriteFile opens the temporary file, creating or truncating it: one    *)
(* that another invocation is writing, or has left, is the same file.       *)
OpenFile(p) ==
  LET i == run[p].issue
      old == temporary[i]
      f == IF old = 0 THEN Len(files) + 1 ELSE old
  IN
  /\ run[p].pc = "open"
  /\ f <= MaxFiles
  /\ files' = IF old = 0 THEN Append(files, "empty") ELSE [files EXCEPT ![f] = "empty"]
  /\ temporary' = [temporary EXCEPT ![i] = f]
  /\ overlapped' = IF Busy(i) # {} THEN overlapped \cup {i} ELSE overlapped
  /\ Set(p, "write", f)
  /\ UNCHANGED <<published, acked, crashes>>

(* The bytes are written from the file's start.  Over bytes of another      *)
(* invocation the end of the longer text may stay behind.                   *)
WriteFile(p) ==
  LET f == run[p].file IN
  /\ run[p].pc = "write"
  /\ \E c \in {run[p].status} \cup (IF files[f] = "empty" THEN {} ELSE {"torn"}) :
       files' = [files EXCEPT ![f] = c]
  /\ Set(p, "rename", f)
  /\ UNCHANGED <<published, temporary, acked, overlapped, crashes>>

(* The disk is full: a part is written, and the command fails.              *)
WriteFails(p) ==
  /\ run[p].pc = "write"
  /\ files' = [files EXCEPT ![run[p].file] = "torn"]
  /\ End(p)
  /\ UNCHANGED <<published, temporary, acked, overlapped, crashes>>

(* os.Rename moves whatever has the temporary name now.                     *)
Rename(p) ==
  LET i == run[p].issue IN
  /\ run[p].pc = "rename"
  /\ temporary[i] # 0
  /\ published' = [published EXCEPT ![i] = temporary[i]]
  /\ temporary' = [temporary EXCEPT ![i] = 0]
  /\ acked' = [acked EXCEPT ![i] = run[p].status]
  /\ End(p)
  /\ UNCHANGED <<files, overlapped, crashes>>

(* Another invocation has moved it away: the command fails.                 *)
RenameFails(p) ==
  /\ run[p].pc = "rename"
  /\ temporary[run[p].issue] = 0
  /\ End(p)
  /\ UNCHANGED <<files, published, temporary, acked, overlapped, crashes>>

Crash(p) ==
  /\ run[p].pc # "idle"
  /\ crashes < MaxCrashes
  /\ crashes' = crashes + 1
  /\ End(p)
  /\ UNCHANGED <<files, published, temporary, acked, overlapped>>

Next ==
  \E p \in Invocations :
    \/ \E i \in Issues : Create(p, i) \/ \E s \in Statuses : Transition(p, i, s)
    \/ OpenFile(p) \/ WriteFile(p) \/ WriteFails(p) \/ Rename(p) \/ RenameFails(p)
    \/ Crash(p)

Spec == Init /\ [][Next]_vars

-----------------------------------------------------------------------------
TypeOK ==
  /\ files \in Seq(Contents) /\ Len(files) <= MaxFiles
  /\ published \in [Issues -> 0 .. Len(files)]
  /\ temporary \in [Issues -> 0 .. Len(files)]
  /\ run \in [Invocations -> [pc : {"idle", "open", "write", "rename"}, issue : Issues,
                              status : Statuses, file : 0 .. Len(files)]]
  /\ acked \in [Issues -> Statuses]
  /\ overlapped \subseteq Issues
  /\ crashes \in 0 .. MaxCrashes

(* Unless two invocations were writing an issue at the same time, its file  *)
(* holds what the last successful command stored: a command that fails or   *)
(* is killed at any step, and a temporary file it leaves behind, change     *)
(* nothing, and List can decode every issue.                                *)
StoredIsAcked ==
  \A i \in Issues \ overlapped :
    published[i] # 0 => files[published[i]] = acked[i]
=============================================================================
