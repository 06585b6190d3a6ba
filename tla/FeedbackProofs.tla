---------------------------- MODULE FeedbackProofs ----------------------------
(***************************************************************************)
(* Proofs about FeedbackStore, for any number of invocations, issues,      *)
(* statuses, files and crashes.                                            *)
(***************************************************************************)
EXTENDS FeedbackStore, SequenceTheorems, TLAPS

(* The invocation has a file open, or is about to rename one.               *)
Opened(p) == run[p].pc \in {"write", "rename"}

(* No two of the names in the directory lead to one file.                   *)
NamesInv ==
  /\ \A i, j \in Issues : published[i] # 0 => published[i] # temporary[j]
  /\ \A i, j \in Issues : published[i] # 0 /\ published[i] = published[j] => i = j
  /\ \A i, j \in Issues : temporary[i] # 0 /\ temporary[i] = temporary[j] => i = j

(* What an invocation has open is of its own issue, whatever the name it    *)
(* has by now.                                                              *)
OwnInv ==
  \A p \in Invocations : Opened(p) =>
    /\ run[p].file # 0
    /\ \A j \in Issues : run[p].file \in {published[j], temporary[j]} => j = run[p].issue

(* An issue that was never written by two at a time has at most one         *)
(* writer, which has the temporary file open and knows what is in it.       *)
AloneInv ==
  \A p \in Invocations : (Opened(p) /\ run[p].issue \notin overlapped) =>
    /\ \A q \in Invocations : Opened(q) /\ run[q].issue = run[p].issue => q = p
    /\ run[p].file = temporary[run[p].issue]
    /\ files[run[p].file] = IF run[p].pc = "write" THEN "empty" ELSE run[p].status

IInv == TypeOK /\ NamesInv /\ OwnInv /\ AloneInv /\ StoredIsAcked
-----------------------------------------------------------------------------
(* A new store satisfies the invariant.                                     *)
LEMMA InitIInv == Init => IInv
<1> SUFFICES ASSUME Init PROVE IInv
  OBVIOUS
<1> USE DEF Init, Idle, NoRun, AnIssue
<1>1. AnIssue \in Issues
  BY IssuesAssumption
<1>2. TypeOK
  BY <1>1, OpenAssumption, BoundsAssumption DEF TypeOK
<1>3. NamesInv /\ OwnInv /\ AloneInv /\ StoredIsAcked
  BY DEF NamesInv, OwnInv, AloneInv, Opened, StoredIsAcked
<1> QED
  BY <1>2, <1>3 DEF IInv

(* A command that begins has opened nothing yet.                            *)
LEMMA BeginIInv ==
  ASSUME IInv, NEW p \in Invocations, NEW i \in Issues, NEW s \in Statuses, Begin(p, i, s)
  PROVE IInv'
<1> USE DEF IInv, Begin
<1>1. TypeOK'
  BY DEF TypeOK
<1>2. \A q \in Invocations : Opened(q)' => Opened(q) /\ q # p /\ run'[q] = run[q]
  BY DEF TypeOK, Opened
<1>3. NamesInv' /\ StoredIsAcked'
  BY DEF NamesInv, StoredIsAcked
<1>4. OwnInv' /\ AloneInv'
  BY <1>2 DEF OwnInv, AloneInv
<1> QED
  BY <1>1, <1>3, <1>4

(* A command that ends, for whatever reason, and leaves the names alone.    *)
LEMMA EndIInv ==
  ASSUME IInv, NEW p \in Invocations, End(p),
         UNCHANGED <<files, published, temporary, acked, overlapped>>, crashes' \in 0 .. MaxCrashes
  PROVE IInv'
<1> USE DEF IInv, End, NoRun, Idle
<1>1. AnIssue \in Issues
  BY IssuesAssumption DEF AnIssue
<1>2. TypeOK'
  BY <1>1, OpenAssumption DEF TypeOK
<1>3. \A q \in Invocations : Opened(q)' => Opened(q) /\ q # p /\ run'[q] = run[q]
  BY DEF TypeOK, Opened
<1>4. NamesInv' /\ StoredIsAcked'
  BY DEF NamesInv, StoredIsAcked
<1>5. OwnInv' /\ AloneInv'
  BY <1>3 DEF OwnInv, AloneInv
<1> QED
  BY <1>2, <1>4, <1>5

-----------------------------------------------------------------------------
(* write                                                                    *)

(* The temporary file is new, or the one that is there, now empty; it was   *)
(* no other issue's.  Who finds another one busy makes the issue one that   *)
(* was written by two at a time.                                            *)
LEMMA OpenFileIInv ==
  ASSUME IInv, NEW p \in Invocations, OpenFile(p)
  PROVE IInv'
<1> DEFINE i == run[p].issue
           old == temporary[i]
           f == IF old = 0 THEN Len(files) + 1 ELSE old
<1> USE DEF IInv
<1>1. /\ i \in Issues /\ old \in 0 .. Len(files) /\ Len(files) \in Nat
      /\ f \in 1 .. MaxFiles /\ run[p].pc = "open"
      /\ "empty" \in Contents
  BY DEF TypeOK, OpenFile, Contents
<1>2. /\ files' \in Seq(Contents) /\ Len(files') \in Len(files) .. MaxFiles
      /\ f \in 1 .. Len(files')
      /\ files'[f] = "empty"
      /\ \A g \in 1 .. Len(files) : g # f => files'[g] = files[g]
  <2>1. CASE old = 0
    BY <1>1, <2>1, AppendProperties DEF TypeOK, OpenFile
  <2>2. CASE old # 0
    BY <1>1, <2>2 DEF TypeOK, OpenFile
  <2> QED
    BY <2>1, <2>2
<1>3. /\ \A q \in Invocations : q # p => run'[q] = run[q]
      /\ run'[p].pc = "write" /\ run'[p].issue = i /\ run'[p].file = f
  BY DEF TypeOK, OpenFile, Set
<1>4. /\ published' = published /\ acked' = acked /\ crashes' = crashes
      /\ \A j \in Issues : j # i => temporary'[j] = temporary[j]
      /\ temporary'[i] = f
      /\ overlapped' = IF Busy(i) # {} THEN overlapped \cup {i} ELSE overlapped
  BY <1>1 DEF OpenFile, TypeOK
<1>5. TypeOK'
  <2>1. run' \in [Invocations -> [pc : {"idle", "open", "write", "rename"}, issue : Issues,
                                  status : Statuses, file : 0 .. Len(files')]]
    BY <1>1, <1>2 DEF TypeOK, OpenFile, Set
  <2>2. temporary' \in [Issues -> 0 .. Len(files')] /\ published' \in [Issues -> 0 .. Len(files')]
    BY <1>1, <1>2 DEF TypeOK, OpenFile
  <2>3. acked' \in [Issues -> Statuses] /\ overlapped' \subseteq Issues
    BY <1>1, <1>4 DEF TypeOK
  <2>4. files' \in Seq(Contents) /\ Len(files') <= MaxFiles /\ crashes' \in 0 .. MaxCrashes
    BY <1>1, <1>2, <1>4, BoundsAssumption DEF TypeOK
  <2> QED
    BY <2>1, <2>2, <2>3, <2>4 DEF TypeOK
<1>6. \A j \in Issues : f # published[j] /\ (j # i => f # temporary[j])
  BY <1>1 DEF TypeOK, NamesInv
<1>7. NamesInv'
  BY <1>1, <1>4, <1>6 DEF NamesInv
<1>8. OwnInv'
  <2> SUFFICES ASSUME NEW q \in Invocations, Opened(q)'
               PROVE /\ run'[q].file # 0
                     /\ \A j \in Issues : run'[q].file \in {published'[j], temporary'[j]} => j = run'[q].issue
    BY DEF OwnInv
  <2>1. CASE q = p
    BY <1>1, <1>3, <1>4, <1>6, <2>1
  <2>2. CASE q # p
    <3>1. Opened(q) /\ run'[q] = run[q] /\ run[q].file \in 1 .. Len(files)
      BY <1>3, <2>2 DEF Opened, OwnInv, TypeOK
    <3>2. run[q].file = f => old # 0 /\ run[q].issue = i
      BY <1>1, <3>1 DEF OwnInv
    <3> QED
      BY <1>4, <3>1, <3>2 DEF OwnInv
  <2> QED
    BY <2>1, <2>2
<1>9. AloneInv'
  <2> SUFFICES ASSUME NEW q \in Invocations, Opened(q)', run'[q].issue \notin overlapped'
               PROVE /\ \A r \in Invocations : Opened(r)' /\ run'[r].issue = run'[q].issue => r = q
                     /\ run'[q].file = temporary'[run'[q].issue]
                     /\ files'[run'[q].file] = IF run'[q].pc = "write" THEN "empty" ELSE run'[q].status
    BY DEF AloneInv
  <2>1. \A r \in Invocations : r # p /\ Opened(r)' => Opened(r) /\ run'[r] = run[r]
    BY <1>3 DEF Opened
  <2>2. CASE run'[q].issue = i
    <3>1. Busy(i) = {}
      BY <1>1, <1>4, <2>2
    <3>2. \A r \in Invocations : Opened(r) => run[r].issue # i
      BY <3>1 DEF Busy, Writing, Opened
    <3>3. q = p
      BY <2>1, <2>2, <3>2
    <3> QED
      BY <1>2, <1>3, <1>4, <2>1, <3>2, <3>3
  <2>3. CASE run'[q].issue # i
    <3>1. q # p /\ Opened(q) /\ run'[q] = run[q] /\ run[q].issue \notin overlapped
      BY <1>3, <1>4, <2>1, <2>3
    <3>2. run[q].file \in 1 .. Len(files) /\ run[q].issue \in Issues
      BY <3>1 DEF TypeOK, OwnInv
    <3>3. run[q].file = temporary[run[q].issue] /\ run[q].file # f
      BY <1>6, <2>3, <3>1, <3>2 DEF AloneInv
    <3> QED
      BY <1>2, <1>3, <1>4, <2>1, <2>3, <3>1, <3>2, <3>3 DEF AloneInv
  <2> QED
    BY <2>2, <2>3
<1>10. StoredIsAcked'
  <2> SUFFICES ASSUME NEW j \in Issues \ overlapped', published'[j] # 0
               PROVE files'[published'[j]] = acked'[j]
    BY DEF StoredIsAcked
  <2>1. j \in Issues \ overlapped /\ published[j] # 0 /\ published[j] \in 1 .. Len(files)
    BY <1>4 DEF TypeOK
  <2>2. files'[published[j]] = files[published[j]]
    BY <1>2, <1>6, <2>1
  <2> QED
    BY <1>4, <2>1, <2>2 DEF StoredIsAcked
<1> QED
  BY <1>5, <1>7, <1>8, <1>9, <1>10

(* The file that is written is none that another issue's name leads to, and *)
(* of an issue with one writer it is the temporary one.                     *)
LEMMA WrittenFile ==
  ASSUME IInv, NEW p \in Invocations, run[p].pc = "write", NEW c \in Contents,
         files' = [files EXCEPT ![run[p].file] = c]
  PROVE /\ run[p].issue \in Issues /\ run[p].file \in 1 .. Len(files)
        /\ files' \in Seq(Contents) /\ Len(files') = Len(files)
        /\ files'[run[p].file] = c
        /\ \A g \in 1 .. Len(files) : g # run[p].file => files'[g] = files[g]
        /\ \A i \in Issues \ overlapped : published[i] # 0 => files'[published[i]] = files[published[i]]
        /\ \A q \in Invocations :
             q # p /\ Opened(q) /\ run[q].issue \notin overlapped => files'[run[q].file] = files[run[q].file]
<1>1. /\ run[p].issue \in Issues /\ run[p].file \in 1 .. Len(files) /\ Opened(p)
      /\ files' \in Seq(Contents) /\ Len(files') = Len(files)
      /\ files'[run[p].file] = c
      /\ \A g \in 1 .. Len(files) : g # run[p].file => files'[g] = files[g]
  BY DEF IInv, TypeOK, OwnInv, Opened
<1>2. ASSUME NEW i \in Issues \ overlapped, published[i] # 0
      PROVE files'[published[i]] = files[published[i]]
  <2>1. published[i] \in 1 .. Len(files)
    BY <1>2 DEF IInv, TypeOK
  <2>2. published[i] # run[p].file
    BY <1>1, <1>2 DEF IInv, OwnInv, AloneInv, NamesInv
  <2> QED
    BY <1>1, <2>1, <2>2
<1>3. ASSUME NEW q \in Invocations, q # p, Opened(q), run[q].issue \notin overlapped
      PROVE files'[run[q].file] = files[run[q].file]
  <2>1. run[q].file \in 1 .. Len(files) /\ run[q].issue \in Issues
    BY <1>3 DEF IInv, TypeOK, OwnInv
  <2>2. run[q].file # run[p].file
    BY <1>1, <1>3, <2>1 DEF IInv, OwnInv, AloneInv
  <2> QED
    BY <1>1, <2>1, <2>2
<1> QED
  BY <1>1, <1>2, <1>3

LEMMA WriteFileIInv ==
  ASSUME IInv, NEW p \in Invocations, WriteFile(p)
  PROVE IInv'
<1>1. run[p].pc = "write" /\ run[p].status \in Contents /\ "torn" \in Contents
  BY DEF WriteFile, IInv, TypeOK, Contents
<1>2. PICK c \in {run[p].status} \cup (IF files[run[p].file] = "empty" THEN {} ELSE {"torn"}) :
        files' = [files EXCEPT ![run[p].file] = c]
  BY DEF WriteFile
<1>3. c \in Contents
  BY <1>1, <1>2
<1>4. /\ run[p].issue \in Issues /\ run[p].file \in 1 .. Len(files)
      /\ files' \in Seq(Contents) /\ Len(files') = Len(files)
      /\ files'[run[p].file] = c
      /\ \A i \in Issues \ overlapped : published[i] # 0 => files'[published[i]] = files[published[i]]
      /\ \A q \in Invocations :
           q # p /\ Opened(q) /\ run[q].issue \notin overlapped => files'[run[q].file] = files[run[q].file]
  BY <1>1, <1>2, <1>3, WrittenFile
<1>5. /\ \A q \in Invocations : q # p => run'[q] = run[q]
      /\ run'[p].pc = "rename" /\ run'[p].issue = run[p].issue
      /\ run'[p].file = run[p].file /\ run'[p].status = run[p].status
      /\ UNCHANGED <<published, temporary, acked, overlapped, crashes>>
  BY DEF WriteFile, Set, IInv, TypeOK
<1>6. TypeOK'
  <2>1. run' \in [Invocations -> [pc : {"idle", "open", "write", "rename"}, issue : Issues,
                                  status : Statuses, file : 0 .. Len(files')]]
    BY <1>4 DEF WriteFile, Set, IInv, TypeOK
  <2> QED
    BY <1>4, <1>5, <2>1 DEF IInv, TypeOK
<1>7. \A q \in Invocations : Opened(q)' => Opened(q) /\ run'[q].issue = run[q].issue /\ run'[q].file = run[q].file
  BY <1>1, <1>5 DEF Opened
<1>8. NamesInv' /\ OwnInv'
  BY <1>5, <1>7 DEF IInv, NamesInv, OwnInv
<1>9. StoredIsAcked'
  BY <1>4, <1>5 DEF IInv, StoredIsAcked
<1>10. AloneInv'
  <2> SUFFICES ASSUME NEW q \in Invocations, Opened(q)', run'[q].issue \notin overlapped'
               PROVE /\ \A r \in Invocations : Opened(r)' /\ run'[r].issue = run'[q].issue => r = q
                     /\ run'[q].file = temporary'[run'[q].issue]
                     /\ files'[run'[q].file] = IF run'[q].pc = "write" THEN "empty" ELSE run'[q].status
    BY DEF AloneInv
  <2>1. /\ \A r \in Invocations : Opened(r)' /\ run'[r].issue = run'[q].issue => r = q
        /\ run'[q].file = temporary'[run'[q].issue]
    BY <1>5, <1>7 DEF IInv, AloneInv
  <2>2. CASE q = p
    <3>1. files[run[p].file] = "empty"
      BY <1>1, <1>5, <1>7, <2>2 DEF IInv, AloneInv
    <3> QED
      BY <1>2, <1>4, <1>5, <2>1, <2>2, <3>1
  <2>3. CASE q # p
    BY <1>4, <1>5, <1>7, <2>1, <2>3 DEF IInv, AloneInv
  <2> QED
    BY <2>2, <2>3
<1> QED
  BY <1>6, <1>8, <1>9, <1>10 DEF IInv

LEMMA WriteFailsIInv ==
  ASSUME IInv, NEW p \in Invocations, WriteFails(p)
  PROVE IInv'
<1>1. run[p].pc = "write" /\ "torn" \in Contents /\ files' = [files EXCEPT ![run[p].file] = "torn"]
  BY DEF WriteFails, Contents
<1>2. /\ files' \in Seq(Contents) /\ Len(files') = Len(files)
      /\ \A i \in Issues \ overlapped : published[i] # 0 => files'[published[i]] = files[published[i]]
      /\ \A q \in Invocations :
           q # p /\ Opened(q) /\ run[q].issue \notin overlapped => files'[run[q].file] = files[run[q].file]
  BY <1>1, WrittenFile
<1> USE DEF IInv, WriteFails, End, NoRun, Idle
<1>3. AnIssue \in Issues
  BY IssuesAssumption DEF AnIssue
<1>4. TypeOK'
  BY <1>2, <1>3, OpenAssumption DEF TypeOK
<1>5. \A q \in Invocations : Opened(q)' => Opened(q) /\ q # p /\ run'[q] = run[q]
  BY DEF TypeOK, Opened
<1>6. NamesInv' /\ OwnInv'
  BY <1>5 DEF NamesInv, OwnInv
<1>7. AloneInv' /\ StoredIsAcked'
  BY <1>2, <1>5 DEF AloneInv, StoredIsAcked
<1> QED
  BY <1>4, <1>6, <1>7

(* What has the temporary name becomes the issue's file.  If nobody else    *)
(* was writing the issue, that is the file this invocation has written.     *)
LEMMA RenameIInv ==
  ASSUME IInv, NEW p \in Invocations, Rename(p)
  PROVE IInv'
<1> DEFINE i == run[p].issue
<1> USE DEF IInv
<1>1. /\ i \in Issues /\ temporary[i] # 0 /\ run[p].pc = "rename" /\ Opened(p)
      /\ run[p].status \in Statuses
  BY DEF Rename, TypeOK, Opened
<1>2. AnIssue \in Issues
  BY IssuesAssumption DEF AnIssue
<1>3. TypeOK'
  BY <1>1, <1>2, OpenAssumption DEF TypeOK, Rename, End, NoRun, Idle
<1>4. /\ \A j \in Issues : j # i => published'[j] = published[j] /\ temporary'[j] = temporary[j] /\ acked'[j] = acked[j]
      /\ published'[i] = temporary[i] /\ temporary'[i] = 0 /\ acked'[i] = run[p].status
      /\ files' = files /\ overlapped' = overlapped
  BY <1>1 DEF Rename, TypeOK
<1>5. \A q \in Invocations : Opened(q)' => Opened(q) /\ q # p /\ run'[q] = run[q]
  BY DEF TypeOK, Opened, Rename, End, NoRun, Idle
<1>6. NamesInv'
  BY <1>1, <1>4 DEF NamesInv
<1>7. OwnInv'
  BY <1>1, <1>4, <1>5 DEF OwnInv, TypeOK
<1>8. AloneInv'
  <2>1. \A q \in Invocations : (Opened(q)' /\ run'[q].issue \notin overlapped') => run[q].issue # i
    BY <1>1, <1>4, <1>5 DEF AloneInv
  <2> QED
    BY <1>4, <1>5, <2>1 DEF AloneInv, TypeOK
<1>9. StoredIsAcked'
  <2>1. i \notin overlapped => files[temporary[i]] = run[p].status
    BY <1>1 DEF AloneInv
  <2> QED
    BY <1>1, <1>4, <2>1 DEF StoredIsAcked
<1> QED
  BY <1>3, <1>6, <1>7, <1>8, <1>9

-----------------------------------------------------------------------------
LEMMA NextIInv == IInv /\ [Next]_vars => IInv'
<1> SUFFICES ASSUME IInv, [Next]_vars PROVE IInv'
  OBVIOUS
<1>1. ASSUME NEW p \in Invocations, NEW i \in Issues, Create(p, i) PROVE IInv'
  BY <1>1, BeginIInv, OpenAssumption DEF Create
<1>2. ASSUME NEW p \in Invocations, NEW i \in Issues, NEW s \in Statuses, Transition(p, i, s) PROVE IInv'
  BY <1>2, BeginIInv DEF Transition
<1>3. ASSUME NEW p \in Invocations, RenameFails(p) PROVE IInv'
  BY <1>3, EndIInv DEF RenameFails, IInv, TypeOK
<1>4. ASSUME NEW p \in Invocations, Crash(p) PROVE IInv'
  <2>1. crashes' \in 0 .. MaxCrashes
    BY <1>4, BoundsAssumption DEF Crash, IInv, TypeOK
  <2> QED
    BY <1>4, <2>1, EndIInv DEF Crash
<1>5. ASSUME UNCHANGED vars PROVE IInv'
  BY <1>5 DEF vars, IInv, TypeOK, NamesInv, OwnInv, AloneInv, Opened, StoredIsAcked
<1> QED
  BY <1>1, <1>2, <1>3, <1>4, <1>5, OpenFileIInv, WriteFileIInv, WriteFailsIInv, RenameIInv DEF Next

(* The inductive invariant: names lead to different files, an invocation    *)
(* writes only to its issue's, and alone it knows what it renames.          *)
THEOREM Invariance == Spec => []IInv
  BY InitIInv, NextIInv, PTL DEF Spec

(* Files, names and invocations keep their types.                           *)
THEOREM TypeCorrect == Spec => []TypeOK
<1>1. IInv => TypeOK
  BY DEF IInv
<1> QED
  BY <1>1, Invariance, PTL

(* An issue that no two invocations wrote at a time is what the last        *)
(* successful Create or Transition made it, wherever others were killed or  *)
(* failed, and whatever temporary files they left (store.go, write).        *)
THEOREM AckedIsStored == Spec => []StoredIsAcked
<1>1. IInv => StoredIsAcked
  BY DEF IInv
<1> QED
  BY <1>1, Invariance, PTL
=============================================================================
