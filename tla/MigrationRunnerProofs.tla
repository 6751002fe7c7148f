----------------------- MODULE MigrationRunnerProofs -----------------------
(***************************************************************************)
(* Proofs about MigrationRunner, for every set of files, contents,         *)
(* commands and runners, every number of edits and of faults.              *)
(*                                                                         *)
(* That a live runner has the lock (LiveHolds) gives OneWriter; with one   *)
(* writer, nobody changes the rows a runner decided on, nor takes back the *)
(* statements it has executed so far (Ran), and the rest is inductive.     *)
(* The last section has what the lock and an up owe to safety alone: its   *)
(* holder is at work, commands come forward, and an up is not stopped.     *)
(***************************************************************************)
EXTENDS MigrationRunner, WellFoundedInduction, TLAPS

Active == {"read"} \cup WritingPCs

LiveHolds == \A r \in live : holder = r /\ pc[r] \in Active

\* The file in hand is one the runner has selected.
JobFits ==
  \A r \in Runners : pc[r] = "run" =>
    /\ job[r].file \in job[r].todo
    /\ job[r].cmd.kind = "down" => Down[job[r].file][job[r].version] # NoDown

Forward(j) == j.cmd.kind \in {"up", "repair"}

\* What the first n - 1 statements of a version leave: the object, and the very
\* definition if it is imposed.
Done(f, v, n) ==
  \A i \in DOMAIN Up[f][v] : i < n =>
    /\ There(Up[f][v][i])
    /\ Imposes(f, v, Up[f][v][i]) => schema[Object[Up[f][v][i]]] = Up[f][v][i]

Ran ==
  \A r \in Runners, f \in Files, v \in Versions, n \in Nat :
    /\ Writing(r) /\ pc[r] = "run" /\ Forward(job[r])
    /\ job[r].file = f /\ job[r].version = v /\ job[r].next = n
    => Done(f, v, n)

Base == TypeOK /\ LiveHolds /\ JobFits
Rest == SnapshotIsCurrent /\ Ran /\ TrackedMeansApplied /\ FullUpInOrder
IInv == Base /\ Rest

-----------------------------------------------------------------------------
LEMMA Selection ==
  ASSUME NEW c \in Commands
  PROVE  /\ Selected(c) \subseteq Present /\ Present \subseteq Files
         /\ \A f \in Selected(c) : tracked[f] = Absent <=> c.kind \in {"up", "bootstrap"}
<1>1. Present \subseteq Files /\ Selected(c) \subseteq Present
  BY DEF Present, Pending, Applied, Drifted, Selected
<1>2. ASSUME NEW f \in Selected(c)
      PROVE  tracked[f] = Absent <=> c.kind \in {"up", "bootstrap"}
  BY <1>2 DEF Selected, MayRollBack, Pending, Applied, Drifted
<1> QED BY <1>1, <1>2

LEMMA UpIsSequence ==
  ASSUME NEW f \in Files, NEW v \in Versions
  PROVE  Up[f][v] \in Seq(Effects)
BY MigrationConstants

LEMMA Turn ==
  ASSUME NEW j
  PROVE  InTurn(j) \subseteq j.todo
BY DEF InTurn, Lowest

LEMMA BaseInit == Init => Base
BY MigrationConstants DEF Init, Base, TypeOK, LiveHolds, JobFits, Unfinished, WritingPCs, EndPCs

\* Leaving: the lock goes with the connection.
LEMMA Leaving ==
  ASSUME Base, NEW r \in Runners, NEW label \in EndPCs, Leave(r, label),
         pc[r] \in Active,
         tracked' = tracked, schema' = schema, via' = via, disk' = disk,
         starts' = starts, edits' = edits, losses' \in 0 .. MaxLosses
  PROVE  Base'
<1>1. TypeOK'
  BY DEF Base, TypeOK, Leave, Goto, EndPCs, Active
<1>2. LiveHolds'
  BY DEF Base, LiveHolds, Leave, Goto, TypeOK, Active
<1>3. JobFits'
  BY DEF Base, TypeOK, JobFits, Leave, Goto, Unfinished, EndPCs, WritingPCs
<1> QED BY <1>1, <1>2, <1>3 DEF Base

LEMMA BaseAcquire ==
  ASSUME Base, NEW r \in Runners, NEW c \in Commands, Acquire(r, c)
  PROVE  Base'
<1> USE DEF Base, Acquire, Startable, LockFree, Goto, WritingPCs, EndPCs
<1>1. TypeOK'
  <2>1. job'[r] \in Job /\ starts' \in 0 .. MaxStarts
    BY MigrationConstants DEF TypeOK, Job
  <2> QED BY <2>1 DEF TypeOK
<1>2. LiveHolds'
  BY MigrationConstants DEF LiveHolds, TypeOK, Active
<1>3. JobFits'
  BY DEF JobFits, TypeOK, Unfinished
<1> QED BY <1>1, <1>2, <1>3

LEMMA BaseReadStatus ==
  ASSUME Base, NEW r \in Runners, ReadStatus(r)
  PROVE  Base'
<1>1. CASE Leave(r, "failed")
  BY <1>1, Leaving DEF ReadStatus, Base, TypeOK, Active, EndPCs
<1>2. CASE ~Leave(r, "failed")
  <2> USE DEF WritingPCs, EndPCs
  <2>1. /\ pc[r] = "read" /\ r \in live
        /\ job' = [job EXCEPT ![r].seen = Present, ![r].todo = Selected(job[r].cmd)]
        /\ Goto(r, "next")
        /\ UNCHANGED <<holder, live, disk, tracked, schema, via, starts, edits, losses>>
    BY <1>2 DEF ReadStatus
  <2>2. job[r] \in Job /\ job[r].cmd \in Commands
    BY <2>1 DEF Base, TypeOK, Job
  <2>3. Selected(job[r].cmd) \subseteq Files /\ Present \subseteq Files
    BY <2>2, Selection
  <2>4. job'[r] \in Job
    BY <2>1, <2>2, <2>3 DEF Base, TypeOK, Job
  <2>5. TypeOK'
    BY <2>1, <2>4 DEF Base, TypeOK, Goto
  <2>6. LiveHolds'
    BY <2>1 DEF Base, TypeOK, LiveHolds, Goto, Active
  <2>7. JobFits'
    BY <2>1 DEF Base, TypeOK, JobFits, Goto
  <2> QED BY <2>5, <2>6, <2>7 DEF Base
<1> QED BY <1>1, <1>2

LEMMA BaseOpen ==
  ASSUME Base, NEW r \in Runners, Open(r)
  PROVE  Base'
<1>1. CASE Leave(r, "failed")
  BY <1>1, Leaving DEF Open, Base, TypeOK, Active, EndPCs, WritingPCs
<1>2. CASE ~Leave(r, "failed")
  <2> USE DEF WritingPCs, EndPCs
  <2>1. PICK f \in InTurn(job[r]) :
          /\ pc[r] = "next"
          /\ job' = [job EXCEPT ![r].file = f, ![r].version = disk[f], ![r].next = 1]
          /\ Goto(r, "run") /\ ~Unusable(job[r], f)
          /\ UNCHANGED <<holder, live, disk, tracked, schema, via, starts, edits, losses>>
    BY <1>2 DEF Open
  <2>2. job[r] \in Job /\ f \in job[r].todo
    BY <2>1, Turn DEF Base, TypeOK
  <2>3. f \in Files /\ disk[f] \in Versions
    BY <2>1, <2>2 DEF Base, TypeOK, Unusable, Job
  <2>4. /\ job'[r] \in Job /\ job'[r].file = f /\ job'[r].version = disk[f]
        /\ job'[r].todo = job[r].todo /\ job'[r].cmd = job[r].cmd
    <3>1. job'[r] = [job[r] EXCEPT !.file = f, !.version = disk[f], !.next = 1]
      BY <2>1 DEF Base, TypeOK
    <3>2. 1 \in Nat \ {0}
      OBVIOUS
    <3> QED BY <2>2, <2>3, <3>1, <3>2 DEF Job
  <2>5. TypeOK'
    BY <2>1, <2>3, <2>4 DEF Base, TypeOK, Goto
  <2>6. LiveHolds'
    BY <2>1 DEF Base, TypeOK, LiveHolds, Goto, Active
  <2>7. JobFits'
    <3>1. \A s \in Runners : s # r => job'[s] = job[s] /\ pc'[s] = pc[s]
      BY <2>1 DEF Base, TypeOK, Goto
    <3>2. /\ job'[r].file \in job'[r].todo
          /\ job'[r].cmd.kind = "down" => Down[job'[r].file][job'[r].version] # NoDown
      BY <2>1, <2>2, <2>3, <2>4, MigrationConstants DEF Unusable
    <3> QED BY <2>1, <3>1, <3>2 DEF Base, JobFits
  <2> QED BY <2>5, <2>6, <2>7 DEF Base
<1> QED BY <1>1, <1>2

LEMMA StatementKnown ==
  ASSUME Base, NEW r \in Runners, pc[r] = "run", job[r].next \in DOMAIN Statements(job[r])
  PROVE  /\ job[r].file \in Files /\ job[r].version \in Versions
         /\ Statements(job[r])[job[r].next] \in Effects
<1> DEFINE j == job[r]
<1>1. /\ j \in Job /\ j.version \in Versions /\ j.file \in Files
      /\ j.cmd.kind = "down" => Down[j.file][j.version] # NoDown
  BY DEF Base, TypeOK, JobFits, Job, EndPCs
<1>2. CASE j.cmd.kind = "down"
  <2>1. Statements(j) \in Seq(Effects)
    BY <1>1, <1>2, MigrationConstants DEF Statements
  <2> QED BY <1>1, <2>1
<1>3. CASE j.cmd.kind # "down" /\ j.cmd.kind # "bootstrap"
  <2>1. Statements(j) \in Seq(Effects)
    BY <1>1, <1>3, MigrationConstants DEF Statements
  <2> QED BY <1>1, <2>1
<1>4. CASE j.cmd.kind = "bootstrap"
  BY <1>4 DEF Statements
<1> QED BY <1>2, <1>3, <1>4

LEMMA BaseExecute ==
  ASSUME Base, NEW r \in Runners, Execute(r)
  PROVE  Base'
<1>1. CASE Leave(r, "failed")
  <2>1. pc[r] = "run" /\ pc'[r] = "failed"
    BY <1>1 DEF Execute, Leave, Goto, Base, TypeOK
  <2>2. UNCHANGED <<tracked, schema, via, disk, starts, edits, losses>>
    BY <2>1 DEF Execute, Goto, Base, TypeOK
  <2> QED BY <1>1, <2>1, <2>2, Leaving DEF Base, TypeOK, Active, EndPCs, WritingPCs
<1>2. CASE ~Leave(r, "failed")
  <2> USE DEF WritingPCs, EndPCs
  <2>1. /\ pc[r] = "run" /\ job[r].next \in DOMAIN Statements(job[r])
        /\ job' = [job EXCEPT ![r].next = @ + 1]
        /\ UNCHANGED <<holder, live, pc, disk, tracked, starts, edits, losses>>
    BY <1>2 DEF Execute
  <2>2. /\ job[r] \in Job /\ job[r].version \in Versions
        /\ job[r].file \in Files
    BY <2>1 DEF Base, TypeOK, JobFits, Job
  <2>3. PICK result, how :
          /\ schema' = [schema EXCEPT ![Object[Statements(job[r])[job[r].next]]] = result]
          /\ result \in Effects \cup {Absent}
          /\ via' = [via EXCEPT ![job[r].file] = how]
          /\ how \in {"undoing", "redoing", via[job[r].file]}
    <3>1. Statements(job[r])[job[r].next] \in Effects
      BY <2>1, <2>2, StatementKnown DEF Base
    <3>2. Result(Statements(job[r])[job[r].next], job[r].cmd.kind = "down")
            \in Effects \cup {Absent}
      BY <3>1, MigrationConstants DEF Result, There, Base, TypeOK, Schemas
    <3> QED BY <1>2, <2>2, <3>2 DEF Execute, Base, TypeOK
  <2>4. job'[r] \in Job /\ job'[r].version = job[r].version
        /\ job'[r].todo = job[r].todo /\ job'[r].file = job[r].file
        /\ job'[r].cmd = job[r].cmd
    BY <2>1, <2>2 DEF Base, TypeOK, Job
  <2>5. TypeOK'
    <3>1. schema' \in Schemas /\ via' \in [Files -> {"none", "run", "assumed", "undoing", "redoing"}]
      BY <2>2, <2>3 DEF Base, TypeOK, Schemas
    <3> QED BY <2>1, <2>2, <2>4, <3>1 DEF Base, TypeOK
  <2>6. LiveHolds'
    BY <2>1 DEF Base, LiveHolds
  <2>7. JobFits'
    BY <2>1, <2>4 DEF Base, TypeOK, JobFits
  <2> QED BY <2>5, <2>6, <2>7 DEF Base
<1> QED BY <1>1, <1>2

LEMMA BaseRecord ==
  ASSUME Base, NEW r \in Runners, Record(r)
  PROVE  Base'
<1>1. CASE Leave(r, "failed")
  <2>1. pc[r] = "run" /\ pc'[r] = "failed"
    BY <1>1 DEF Record, Leave, Goto, Base, TypeOK
  <2>2. UNCHANGED <<tracked, schema, via, disk, starts, edits, losses>>
    BY <2>1 DEF Record, Goto, Base, TypeOK
  <2> QED BY <1>1, <2>1, <2>2, Leaving DEF Base, TypeOK, Active, EndPCs, WritingPCs
<1>2. CASE ~Leave(r, "failed")
  <2> USE DEF WritingPCs, EndPCs
  <2>1. PICK row, how :
          /\ pc[r] = "run"
          /\ row = Absent \/ row = job[r].version
          /\ how \in {"none", "run", "assumed"}
          /\ tracked' = [tracked EXCEPT ![job[r].file] = row]
          /\ via' = [via EXCEPT ![job[r].file] = how]
          /\ job' = [job EXCEPT ![r].todo = @ \ {job[r].file}]
          /\ Goto(r, "next")
          /\ UNCHANGED <<holder, live, disk, schema, starts, edits, losses>>
    BY <1>2 DEF Record, Recorded
  <2>2. /\ job[r] \in Job /\ job[r].version \in Versions
        /\ job[r].file \in Files
    BY <2>1 DEF Base, TypeOK, JobFits, Unfinished, Job
  <2>3. job'[r] \in Job /\ job'[r].todo \subseteq job[r].todo
    BY <2>1, <2>2 DEF Base, TypeOK, Job
  <2>4. TypeOK'
    BY <2>1, <2>2, <2>3 DEF Base, TypeOK, Goto
  <2>5. LiveHolds'
    BY <2>1 DEF Base, LiveHolds, TypeOK, Goto, Active
  <2>6. JobFits'
    BY <2>1, <2>3 DEF Base, TypeOK, JobFits, Unfinished, Goto
  <2> QED BY <2>4, <2>5, <2>6 DEF Base
<1> QED BY <1>1, <1>2

LEMMA BaseLose ==
  ASSUME Base, NEW r \in Runners, Lose(r)
  PROVE  Base'
BY MigrationConstants DEF Lose, Base, TypeOK, LiveHolds, JobFits, Unfinished

LEMMA BaseEdit ==
  ASSUME Base, NEW f \in Files, NEW v \in Versions, Edit(f, v)
  PROVE  Base'
BY MigrationConstants DEF Edit, db, Base, TypeOK, LiveHolds, JobFits

LEMMA BaseDelete ==
  ASSUME Base, NEW f \in Files, Delete(f)
  PROVE  Base'
BY MigrationConstants DEF Delete, db, Base, TypeOK, LiveHolds, JobFits

LEMMA BaseStep == Base /\ [Next]_vars => Base'
<1> SUFFICES ASSUME Base, [Next]_vars
             PROVE  Base'
  OBVIOUS
<1> USE DEF Active, EndPCs, WritingPCs
<1>1. ASSUME NEW r \in Runners, NEW c \in Commands, Acquire(r, c)
      PROVE  Base'
  BY <1>1, BaseAcquire
<1>2. ASSUME NEW r \in Runners, Refuse(r)
      PROVE  Base'
  BY <1>2, MigrationConstants DEF Refuse, Startable, Goto, db, Base, TypeOK, LiveHolds, JobFits, Unfinished
<1>3. ASSUME NEW r \in Runners, Progress(r)
      PROVE  Base'
  <2>1. CASE Disconnected(r)
    BY <2>1, Leaving DEF Disconnected, Base, TypeOK
  <2>2. CASE Finish(r)
    BY <2>2, Leaving DEF Finish, Base, TypeOK
  <2> QED BY <1>3, <2>1, <2>2, BaseReadStatus, BaseOpen, BaseExecute, BaseRecord DEF Progress
<1>4. ASSUME NEW r \in Runners, Lose(r)
      PROVE  Base'
  BY <1>4, BaseLose
<1>5. ASSUME NEW r \in Runners, Reject(r)
      PROVE  Base'
  BY <1>5, Leaving, MigrationConstants DEF Reject, Writing, Unfinished, Base, TypeOK
<1>6. ASSUME NEW f \in Files, NEW v \in Versions, Edit(f, v)
      PROVE  Base'
  BY <1>6, BaseEdit
<1>8. ASSUME NEW f \in Files, Delete(f)
      PROVE  Base'
  BY <1>8, BaseDelete
<1>7. CASE UNCHANGED vars
  BY <1>7 DEF vars, db, Base, TypeOK, LiveHolds, JobFits
<1> QED BY <1>1, <1>2, <1>3, <1>4, <1>5, <1>6, <1>7, <1>8 DEF Next

\* Every reachable state is well typed (database, lock, processes).
THEOREM TypeCorrect == Spec => []TypeOK
<1>1. Base => TypeOK
  BY DEF Base
<1> QED BY <1>1, BaseInit, BaseStep, PTL DEF Spec

LEMMA Exclusion == LiveHolds => OneWriter
BY DEF LiveHolds, OneWriter, Writing

\* At most one runner can change the database, however many are started
\* and whatever connections the server drops.
THEOREM WritersExclude == Spec => []OneWriter
<1>1. Base => OneWriter
  BY Exclusion DEF Base
<1> QED BY <1>1, BaseInit, BaseStep, PTL DEF Spec

-----------------------------------------------------------------------------
(* With one writer, what it decided on stays true. *)

LEMMA RestInit == Init => Rest
BY DEF Init, Rest, SnapshotIsCurrent, Ran, TrackedMeansApplied, FullUpInOrder,
       Writing, Unfinished, WritingPCs

LEMMA DoneStays ==
  ASSUME NEW f, NEW v, NEW n, schema' = schema, Done(f, v, n)
  PROVE  Done(f, v, n)'
BY DEF Done, There

\* Steps that leave the tables and the writers alone.
LEMMA Quiet ==
  ASSUME IInv, tracked' = tracked, schema' = schema, via' = via,
         \A s \in Runners : Writing(s)' => Writing(s) /\ job'[s] = job[s] /\ pc'[s] = pc[s]
  PROVE  Rest'
<1>1. SnapshotIsCurrent'
  BY DEF IInv, Rest, SnapshotIsCurrent
<1>2. Ran'
  BY DoneStays DEF IInv, Rest, Ran, Forward
<1>3. TrackedMeansApplied'
  BY DEF IInv, Rest, TrackedMeansApplied, There
<1>4. FullUpInOrder'
  BY DEF IInv, Rest, FullUpInOrder
<1> QED BY <1>1, <1>2, <1>3, <1>4 DEF Rest

LEMMA QuietLeave ==
  ASSUME IInv, NEW r \in Runners, NEW label \in EndPCs, Leave(r, label),
         tracked' = tracked, schema' = schema, via' = via
  PROVE  Rest'
<1>1. \A s \in Runners : Writing(s)' => Writing(s) /\ job'[s] = job[s] /\ pc'[s] = pc[s]
  BY DEF IInv, Base, TypeOK, Leave, Goto, Writing, Unfinished, WritingPCs, EndPCs
<1> QED BY <1>1, Quiet

\* A step of the writer: nobody else writes before or after it.
LEMMA Alone ==
  ASSUME Base, NEW r \in live, live' = live
  PROVE  \A s \in Runners : Writing(s) \/ Writing(s)' => s = r
BY DEF Base, LiveHolds, Writing

LEMMA RestReadStatus ==
  ASSUME IInv, Base', NEW r \in Runners, ReadStatus(r)
  PROVE  Rest'
<1>1. CASE Leave(r, "failed")
  BY <1>1, QuietLeave DEF ReadStatus, EndPCs
<1>2. CASE ~Leave(r, "failed")
  <2>1. /\ pc[r] = "read" /\ r \in live /\ live' = live
        /\ job' = [job EXCEPT ![r].seen = Present, ![r].todo = Selected(job[r].cmd)]
        /\ pc' = [pc EXCEPT ![r] = "next"] /\ ~Aborts(job[r].cmd)
        /\ UNCHANGED <<tracked, schema, via>>
    BY <1>2 DEF ReadStatus, Goto
  <2>2. job[r] \in Job /\ job[r].cmd \in Commands
    BY <2>1 DEF IInv, Base, TypeOK, Job, WritingPCs, EndPCs
  <2>3. /\ job'[r].cmd = job[r].cmd /\ job'[r].seen = Present
        /\ job'[r].todo = Selected(job[r].cmd) /\ pc'[r] = "next"
    BY <2>1, <2>2 DEF IInv, Base, TypeOK, Job
  <2>4. \A s \in Runners : Writing(s)' => s = r
    BY <2>1, Alone DEF IInv
  <2>5. SnapshotIsCurrent'
    <3>1. \A f \in job'[r].todo : tracked'[f] = Absent <=> job'[r].cmd.kind \in {"up", "bootstrap"}
      BY <2>1, <2>2, <2>3, Selection
    <3> QED BY <2>4, <3>1 DEF SnapshotIsCurrent
  <2>6. Ran' /\ TrackedMeansApplied'
    <3>1. Ran'
      BY <2>3, <2>4 DEF Ran
    <3>2. TrackedMeansApplied'
      BY <2>1 DEF IInv, Rest, TrackedMeansApplied, There
    <3> QED BY <3>1, <3>2
  <2>7. ASSUME job[r].cmd.kind = "up", job[r].cmd.target = NoTarget,
               NEW g \in Present, g \notin Selected(job[r].cmd)
        PROVE  tracked[g] # Absent
    BY <2>1, <2>7 DEF Aborts, Selected, Present, Pending, Applied, Drifted, Matching
  <2>8. FullUpInOrder'
    BY <2>1, <2>3, <2>4, <2>7 DEF FullUpInOrder
  <2> QED BY <2>5, <2>6, <2>8 DEF Rest
<1> QED BY <1>1, <1>2

LEMMA RestOpen ==
  ASSUME IInv, Base', NEW r \in Runners, Open(r)
  PROVE  Rest'
<1>1. CASE Leave(r, "failed")
  BY <1>1, QuietLeave DEF Open, EndPCs
<1>2. CASE ~Leave(r, "failed")
  <2>1. PICK f \in InTurn(job[r]) :
          /\ pc[r] = "next"
          /\ job' = [job EXCEPT ![r].file = f, ![r].version = disk[f], ![r].next = 1]
          /\ pc' = [pc EXCEPT ![r] = "run"] /\ ~Unusable(job[r], f)
          /\ UNCHANGED <<live, tracked, schema, via>>
    BY <1>2 DEF Open, Goto
  <2>2. job[r] \in Job /\ f \in job[r].todo
    BY <2>1, Turn DEF IInv, Base, TypeOK, WritingPCs, EndPCs
  <2>3. f \in Files /\ disk[f] \in Versions
    BY <2>1, <2>2 DEF IInv, Base, TypeOK, Unusable, Job
  <2>4. /\ job'[r].cmd = job[r].cmd /\ job'[r].seen = job[r].seen
        /\ job'[r].todo = job[r].todo /\ pc'[r] = "run"
        /\ job'[r].file = f /\ job'[r].version = disk[f] /\ job'[r].next = 1
    BY <2>1, <2>2, <2>3 DEF IInv, Base, TypeOK, Job
  <2>5. \A s \in Runners : s # r => job'[s] = job[s] /\ pc'[s] = pc[s]
    BY <2>1 DEF IInv, Base, TypeOK
  <2>6. \A s \in Runners : Writing(s)' => Writing(s)
    BY <2>1, <2>5 DEF Writing, Unfinished, WritingPCs
  <2>7. SnapshotIsCurrent'
    <3>1. ASSUME NEW s \in Runners, Writing(s)'
          PROVE  /\ Writing(s) /\ tracked' = tracked
                 /\ job'[s].todo = job[s].todo /\ job'[s].cmd = job[s].cmd
      BY <2>1, <2>4, <2>5, <2>6, <3>1
    <3> QED BY <3>1 DEF IInv, Rest, SnapshotIsCurrent
  <2>8. Ran'
    <3>1. ASSUME NEW i \in DOMAIN Up[f][disk[f]]
          PROVE  ~(i < 1)
      BY <2>3, MigrationConstants
    <3>2. ASSUME NEW g \in Files, NEW v \in Versions, NEW n \in Nat,
                 job'[r].file = g, job'[r].version = v, job'[r].next = n
          PROVE  Done(g, v, n)'
      BY <2>4, <3>1, <3>2 DEF Done
    <3>3. ASSUME NEW s \in Runners, s # r, Writing(s)', pc'[s] = "run", Forward(job'[s]),
                 NEW g \in Files, NEW v \in Versions, NEW n \in Nat,
                 job'[s].file = g, job'[s].version = v, job'[s].next = n
          PROVE  Done(g, v, n)'
      <4>1. /\ Writing(s) /\ job'[s] = job[s] /\ pc[s] = "run" /\ Forward(job[s])
            /\ schema' = schema
        BY <2>1, <2>5, <2>6, <3>3
      <4>2. Done(g, v, n)
        BY <3>3, <4>1 DEF IInv, Rest, Ran
      <4> QED BY <4>1, <4>2, DoneStays
    <3> QED BY <3>2, <3>3 DEF Ran, Forward
  <2>9. TrackedMeansApplied'
    BY <2>1 DEF IInv, Rest, TrackedMeansApplied, There
  <2>10. FullUpInOrder'
    <3>1. ASSUME Writing(r)', job'[r].cmd.kind = "up", job'[r].cmd.target = NoTarget,
                 NEW g \in job'[r].seen, g \notin job'[r].todo \/ g < f
          PROVE  tracked'[g] # Absent
      <4>1. f \in Lowest(job[r].todo)
        BY <2>4, <3>1 DEF InTurn
      <4>2. g \in Files /\ job[r].todo \subseteq Files
        BY <2>2, <2>4 DEF Job
      <4>3. g \notin job[r].todo
        BY <2>3, <2>4, <3>1, <4>1, <4>2, MigrationConstants DEF Lowest
      <4> QED BY <2>1, <2>4, <2>6, <3>1, <4>3 DEF IInv, Rest, FullUpInOrder
    <3>2. ASSUME NEW s \in Runners, s # r, Writing(s)',
                 job'[s].cmd.kind = "up", job'[s].cmd.target = NoTarget, NEW g \in job'[s].seen,
                 g \notin job'[s].todo \/ (pc'[s] = "run" /\ g < job'[s].file)
          PROVE  tracked'[g] # Absent
      BY <2>1, <2>5, <2>6, <3>2 DEF IInv, Rest, FullUpInOrder
    <3> QED BY <2>4, <3>1, <3>2 DEF FullUpInOrder
  <2> QED BY <2>7, <2>8, <2>9, <2>10 DEF Rest
<1> QED BY <1>1, <1>2

\* What a statement leaves: it takes no object away unless it rolls back, and the
\* definition it imposes unless another one is about the same object.
LEMMA Leaves ==
  ASSUME Base, NEW effect \in Effects, NEW other \in Effects,
         NEW down \in BOOLEAN,
         schema' = [schema EXCEPT ![Object[effect]] = Result(effect, down)]
  PROVE  /\ Object[other] # Object[effect] =>
              schema'[Object[other]] = schema[Object[other]]
         /\ ~down => There(effect)'
         /\ ~down /\ There(other) => There(other)'
         /\ ~down /\ Mode[effect] # "ifMissing" => schema'[Object[effect]] = effect
<1>1. schema \in Schemas /\ Object[effect] \in Objects /\ Object[other] \in Objects
  BY MigrationConstants DEF Base, TypeOK
<1>2. schema'[Object[effect]] = Result(effect, down)
  BY <1>1 DEF Schemas
<1>3. Object[other] # Object[effect] => schema'[Object[other]] = schema[Object[other]]
  BY <1>1 DEF Schemas
<1>4. ~down => Result(effect, down) # Absent
  BY MigrationConstants DEF Result, There
<1>5. ~down /\ Mode[effect] # "ifMissing" => Result(effect, down) = effect
  BY DEF Result
<1> QED BY <1>2, <1>3, <1>4, <1>5 DEF There

\* Statements other than of this file's other versions leave what a version imposes.
LEMMA KeepsImposed ==
  ASSUME Base, NEW f \in Files, NEW v \in Versions, NEW i \in DOMAIN Up[f][v],
         NEW g \in Files, NEW w \in Versions, NEW n \in DOMAIN Up[g][w],
         g # f \/ w = v,
         schema' = [schema EXCEPT ![Object[Up[g][w][n]]] = Result(Up[g][w][n], FALSE)]
  PROVE  /\ There(Up[f][v][i]) => There(Up[f][v][i])'
         /\ Imposes(f, v, Up[f][v][i]) /\ schema[Object[Up[f][v][i]]] = Up[f][v][i] =>
              schema'[Object[Up[f][v][i]]] = Up[f][v][i]
<1> DEFINE mine == Up[f][v][i]
           effect == Up[g][w][n]
<1>1. mine \in Effects /\ effect \in Effects
  <2>1. Up[f][v] \in Seq(Effects) /\ Up[g][w] \in Seq(Effects)
    BY MigrationConstants
  <2> QED BY <2>1
<1>2. /\ Object[mine] # Object[effect] => schema'[Object[mine]] = schema[Object[mine]]
      /\ There(mine) => There(mine)'
      /\ Mode[effect] # "ifMissing" => schema'[Object[effect]] = effect
  BY <1>1, Leaves
<1>3. Imposes(f, v, mine) /\ Object[effect] = Object[mine] =>
        effect = mine /\ Mode[mine] # "ifMissing"
  BY DEF Imposes
<1> QED BY <1>2, <1>3

LEMMA RestExecute ==
  ASSUME IInv, Base', NEW r \in Runners, Execute(r)
  PROVE  Rest'
<1>1. CASE Leave(r, "failed")
  <2>1. pc'[r] = "failed"
    BY <1>1 DEF Leave, Goto, IInv, Base, TypeOK
  <2>2. UNCHANGED <<tracked, schema, via>>
    BY <2>1 DEF Execute
  <2> QED BY <1>1, <2>2, QuietLeave DEF EndPCs
<1>2. CASE ~Leave(r, "failed")
  <2> DEFINE j == job[r]
             effect == Statements(j)[j.next]
             down == j.cmd.kind = "down"
  <2>1. /\ pc[r] = "run" /\ r \in live /\ j.next \in DOMAIN Statements(j)
        /\ job' = [job EXCEPT ![r].next = @ + 1]
        /\ UNCHANGED <<live, pc, tracked>>
        /\ schema' = [schema EXCEPT ![Object[effect]] = Result(effect, down)]
        /\ via' = [via EXCEPT ![j.file] =
                     IF down THEN "undoing" ELSE IF @ = "run" THEN "redoing" ELSE @]
    BY <1>2 DEF Execute, OnSession
  <2>2. /\ j \in Job /\ j.version \in Versions /\ j.file \in j.todo /\ j.file \in Files
        /\ down => Down[j.file][j.version] # NoDown
        /\ effect \in Effects
    BY <2>1, StatementKnown DEF IInv, Base, TypeOK, JobFits, EndPCs
  <2>3. /\ job'[r].cmd = j.cmd /\ job'[r].todo = j.todo /\ job'[r].seen = j.seen
        /\ job'[r].file = j.file /\ job'[r].version = j.version
        /\ job'[r].next = j.next + 1
    BY <2>1, <2>2 DEF IInv, Base, TypeOK, Job
  <2>4. Writing(r) /\ \A s \in Runners : Writing(s)' => s = r
    BY <2>1, Alone DEF IInv, Writing, Unfinished, WritingPCs
  <2>5. SnapshotIsCurrent'
    BY <2>1, <2>3, <2>4 DEF IInv, Rest, SnapshotIsCurrent
  <2>6. ~down => /\ Statements(j) = Up[j.file][j.version]
                 /\ j.next \in DOMAIN Up[j.file][j.version]
                 /\ schema' = [schema EXCEPT ![Object[Up[j.file][j.version][j.next]]] =
                                 Result(Up[j.file][j.version][j.next], FALSE)]
    <3>1. ~down => j.cmd.kind # "bootstrap"
      <4>1. j.cmd.kind = "bootstrap" => Statements(j) = << >>
        BY DEF Statements
      <4> QED BY <2>1, <4>1
    <3>2. ~down => Statements(j) = Up[j.file][j.version]
      BY <3>1 DEF Statements
    <3>3. ~down => down = FALSE
      OBVIOUS
    <3> QED BY <2>1, <3>1, <3>2, <3>3
  <2>7. Ran'
    <3>1. ASSUME Forward(j), NEW i \in DOMAIN Up[j.file][j.version], i < j.next + 1
          PROVE  /\ schema'[Object[Up[j.file][j.version][i]]] # Absent
                 /\ Imposes(j.file, j.version, Up[j.file][j.version][i]) =>
                      schema'[Object[Up[j.file][j.version][i]]] = Up[j.file][j.version][i]
      <4>1. ~down
        BY <3>1 DEF Forward
      <4>2. Up[j.file][j.version] \in Seq(Effects) /\ j.next \in Nat
        <5>1. j.next \in Nat
          BY <2>2 DEF Job
        <5>2. Up[j.file][j.version] \in Seq(Effects)
          BY <2>2, UpIsSequence
        <5> QED BY <5>1, <5>2
      <4>3. i \in Nat /\ (i < j.next \/ i = j.next)
        BY <3>1, <4>2
      <4>4. CASE i < j.next
        <5>1. Done(j.file, j.version, j.next)
          BY <2>1, <2>2, <2>4, <3>1, <4>2 DEF IInv, Rest, Ran
        <5>2. /\ There(Up[j.file][j.version][i])
              /\ Imposes(j.file, j.version, Up[j.file][j.version][i]) =>
                   schema[Object[Up[j.file][j.version][i]]] = Up[j.file][j.version][i]
          BY <4>4, <5>1 DEF Done
        <5>3. PICK g \in Files, v \in Versions, n \in Nat : g = j.file /\ v = j.version /\ n = j.next
          BY <2>2 DEF Job
        <5>4. /\ There(Up[g][v][i]) => There(Up[g][v][i])'
              /\ Imposes(g, v, Up[g][v][i]) /\ schema[Object[Up[g][v][i]]] = Up[g][v][i] =>
                   schema'[Object[Up[g][v][i]]] = Up[g][v][i]
          <6>1. i \in DOMAIN Up[g][v] /\ n \in DOMAIN Up[g][v]
            BY <2>6, <3>1, <4>1, <5>3
          <6>2. schema' = [schema EXCEPT ![Object[Up[g][v][n]]] = Result(Up[g][v][n], FALSE)]
            BY <2>6, <4>1, <5>3
          <6> QED BY <6>1, <6>2, KeepsImposed DEF IInv
        <5> QED BY <5>2, <5>3, <5>4 DEF There
      <4>5. CASE i = j.next
        <5>1. Up[j.file][j.version][i] = effect
          BY <2>6, <4>1, <4>5
        <5>2. down = FALSE
          BY <4>1
        <5>3. PICK e \in Effects : e = effect
          BY <2>2
        <5>4. schema' = [schema EXCEPT ![Object[e]] = Result(e, FALSE)]
          BY <2>1, <5>2, <5>3
        <5>5. There(e)' /\ (Mode[e] # "ifMissing" => schema'[Object[e]] = e)
          BY <5>4, Leaves DEF IInv
        <5>6. Up[j.file][j.version][i] = e
          BY <5>1, <5>3
        <5> QED BY <5>5, <5>6 DEF Imposes, There
      <4> QED BY <4>3, <4>4, <4>5
    <3>2. ASSUME Forward(j), NEW g, NEW v, NEW n, g = j.file, v = j.version, n = j.next + 1
          PROVE  Done(g, v, n)'
      <4>1. ASSUME NEW i \in DOMAIN Up[g][v], i < n
            PROVE  /\ There(Up[g][v][i])'
                   /\ Imposes(g, v, Up[g][v][i]) =>
                        schema'[Object[Up[g][v][i]]] = Up[g][v][i]
        BY <3>1, <3>2, <4>1 DEF There
      <4> QED BY <4>1 DEF Done
    <3> QED BY <2>1, <2>3, <2>4, <3>2 DEF Ran, Forward
  <2>8. TrackedMeansApplied'
    <3> SUFFICES ASSUME NEW f \in Files, via'[f] \in {"run", "redoing"}
                 PROVE  /\ tracked[f] # Absent
                        /\ \A i \in DOMAIN Up[f][tracked[f]] :
                             /\ schema'[Object[Up[f][tracked[f]][i]]] # Absent
                             /\ via'[f] = "run" /\ Imposes(f, tracked[f], Up[f][tracked[f]][i]) =>
                                  schema'[Object[Up[f][tracked[f]][i]]] = Up[f][tracked[f]][i]
      BY <2>1 DEF TrackedMeansApplied, There
    <3>1. /\ via[f] \in {"run", "redoing"} /\ (via'[f] = "run" => via[f] = "run")
          /\ f = j.file => ~down /\ via'[f] = "redoing"
      BY <2>1, <2>2 DEF IInv, Base, TypeOK
    <3>2. tracked[f] # Absent /\ tracked[f] \in Versions
      BY <3>1 DEF IInv, Base, TypeOK, Rest, TrackedMeansApplied
    <3>3. ASSUME NEW i \in DOMAIN Up[f][tracked[f]]
          PROVE  /\ schema'[Object[Up[f][tracked[f]][i]]] # Absent
                 /\ via'[f] = "run" /\ Imposes(f, tracked[f], Up[f][tracked[f]][i]) =>
                      schema'[Object[Up[f][tracked[f]][i]]] = Up[f][tracked[f]][i]
      <4> DEFINE mine == Up[f][tracked[f]][i]
      <4>1. mine \in Effects
        <5>1. Up[f][tracked[f]] \in Seq(Effects)
          BY <3>2, MigrationConstants
        <5> QED BY <5>1
      <4>2. /\ There(mine)
            /\ via[f] = "run" /\ Imposes(f, tracked[f], mine) => schema[Object[mine]] = mine
        BY <3>1 DEF IInv, Rest, TrackedMeansApplied
      <4>3. CASE down
        <5>1. f # j.file
          BY <3>1, <4>3
        <5>2. Object[effect] \in ObjectsOf(Down[j.file][j.version])
          BY <2>1, <4>3 DEF Statements, ObjectsOf
        <5>3. Object[mine] \in ObjectsOf(Up[f][tracked[f]])
          BY DEF ObjectsOf
        <5>4. Object[mine] # Object[effect]
          BY <2>2, <3>2, <4>3, <5>1, <5>2, <5>3, OwnObjects
        <5>5. schema'[Object[mine]] = schema[Object[mine]]
          BY <2>1, <2>2, <4>1, <5>4 DEF IInv, Base, TypeOK, Schemas
        <5> QED BY <2>1, <3>1, <4>2, <5>5 DEF There
      <4>4. CASE ~down /\ f # j.file
        <5>1. PICK g \in Files, w \in Versions, n \in Nat, v \in Versions :
                g = j.file /\ w = j.version /\ n = j.next /\ v = tracked[f]
          BY <2>2, <3>2 DEF Job
        <5>2. /\ There(Up[f][v][i]) => There(Up[f][v][i])'
              /\ Imposes(f, v, Up[f][v][i]) /\ schema[Object[Up[f][v][i]]] = Up[f][v][i] =>
                   schema'[Object[Up[f][v][i]]] = Up[f][v][i]
          <6>1. i \in DOMAIN Up[f][v] /\ n \in DOMAIN Up[g][w] /\ g # f
            BY <2>6, <3>3, <4>4, <5>1
          <6>2. schema' = [schema EXCEPT ![Object[Up[g][w][n]]] = Result(Up[g][w][n], FALSE)]
            BY <2>6, <4>4, <5>1
          <6> QED BY <6>1, <6>2, KeepsImposed DEF IInv
        <5> QED BY <2>1, <3>1, <4>2, <5>1, <5>2 DEF There
      <4>5. CASE f = j.file
        <5>1. PICK e \in Effects, m \in Effects : e = effect /\ m = mine
          BY <2>2, <4>1
        <5>2. schema' = [schema EXCEPT ![Object[e]] = Result(e, FALSE)]
          <6>1. down = FALSE
            BY <3>1, <4>5
          <6> QED BY <2>1, <5>1, <6>1
        <5>3. There(m) => There(m)'
          BY <5>2, Leaves DEF IInv
        <5> QED BY <2>1, <3>1, <4>2, <4>5, <5>1, <5>3 DEF There
      <4> QED BY <4>3, <4>4, <4>5
    <3> QED BY <3>2, <3>3
  <2>9. FullUpInOrder'
    BY <2>1, <2>3, <2>4 DEF IInv, Rest, FullUpInOrder
  <2> QED BY <2>5, <2>7, <2>8, <2>9 DEF Rest
<1> QED BY <1>1, <1>2

LEMMA RestRecord ==
  ASSUME IInv, Base', NEW r \in Runners, Record(r)
  PROVE  Rest'
<1>1. CASE Leave(r, "failed")
  <2>1. pc'[r] = "failed"
    BY <1>1 DEF Leave, Goto, IInv, Base, TypeOK
  <2>2. UNCHANGED <<tracked, schema, via>>
    BY <2>1 DEF Record, Goto, IInv, Base, TypeOK
  <2> QED BY <1>1, <2>2, QuietLeave DEF EndPCs
<1>2. CASE ~Leave(r, "failed")
  <2> DEFINE j == job[r]
             f == job[r].file
  <2>1. /\ pc[r] = "run" /\ r \in live /\ j.next \notin DOMAIN Statements(j)
        /\ job' = [job EXCEPT ![r].todo = @ \ {f}] /\ pc' = [pc EXCEPT ![r] = "next"]
        /\ UNCHANGED <<live, schema>>
    BY <1>2 DEF Record, OnSession, Goto
  <2>2. PICK row, how :
          /\ tracked' = [tracked EXCEPT ![f] = row] /\ via' = [via EXCEPT ![f] = how]
          /\ j.cmd.kind \in {"up", "bootstrap"} => row = j.version
          /\ j.cmd.kind = "repair" => row = IF tracked[f] = Absent THEN Absent ELSE j.version
          /\ how = "run" => j.cmd.kind \notin {"down", "bootstrap"}
          /\ how # "redoing"
    BY <1>2 DEF Record, Recorded
  <2>3. /\ j \in Job /\ j.version \in Versions /\ f \in j.todo /\ f \in Files
        /\ j.cmd \in Commands
    BY <2>1 DEF IInv, Base, TypeOK, JobFits, Unfinished, WritingPCs, EndPCs, Job
  <2>4. /\ job'[r].cmd = j.cmd /\ job'[r].todo = j.todo \ {f} /\ job'[r].seen = j.seen
        /\ pc'[r] = "next" /\ j.version # Absent
        /\ j.cmd.kind \in {"up", "down", "bootstrap", "repair"}
    BY <2>1, <2>3, MigrationConstants DEF IInv, Base, TypeOK, Job, Command
  <2>5. Writing(r) /\ \A s \in Runners : Writing(s)' => s = r
    BY <2>1, Alone DEF IInv, Writing, Unfinished, WritingPCs
  <2>6. SnapshotIsCurrent'
    <3>1. ASSUME NEW g \in job'[r].todo
          PROVE  tracked'[g] = Absent <=> job'[r].cmd.kind \in {"up", "bootstrap"}
      <4>1. g \in j.todo /\ g # f /\ g \in Files
        BY <2>3, <2>4 DEF Job
      <4>2. tracked'[g] = tracked[g]
        BY <2>2, <4>1 DEF IInv, Base, TypeOK
      <4> QED BY <2>4, <2>5, <4>1, <4>2 DEF IInv, Rest, SnapshotIsCurrent
    <3> QED BY <2>5, <3>1 DEF SnapshotIsCurrent
  <2>7. Ran'
    BY <2>4, <2>5 DEF Ran
  <2>8. TrackedMeansApplied'
    <3>1. ASSUME how = "run"
          PROVE  /\ tracked'[f] = j.version
                 /\ \A i \in DOMAIN Up[f][j.version] :
                      /\ There(Up[f][j.version][i])
                      /\ Imposes(f, j.version, Up[f][j.version][i]) =>
                           schema[Object[Up[f][j.version][i]]] = Up[f][j.version][i]
      <4>1. j.cmd.kind \in {"up", "repair"}
        BY <2>2, <2>4, <3>1
      <4>2. j.cmd.kind = "repair" => tracked[f] # Absent
        BY <2>3, <2>5 DEF IInv, Rest, SnapshotIsCurrent
      <4>3. tracked'[f] = j.version
        <5>1. row = j.version
          BY <2>2, <4>1, <4>2
        <5>2. tracked'[f] = row
          BY <2>2, <2>3 DEF IInv, Base, TypeOK
        <5> QED BY <5>1, <5>2
      <4>4. ASSUME NEW i \in DOMAIN Up[f][j.version]
            PROVE  /\ There(Up[f][j.version][i])
                   /\ Imposes(f, j.version, Up[f][j.version][i]) =>
                        schema[Object[Up[f][j.version][i]]] = Up[f][j.version][i]
        <5>1. Up[f][j.version] \in Seq(Effects) /\ j.next \in Nat \ {0}
          <6>1. j.next \in Nat \ {0}
            BY <2>3 DEF Job
          <6>2. Up[f][j.version] \in Seq(Effects)
            BY <2>3, UpIsSequence
          <6> QED BY <6>1, <6>2
        <5>2. Statements(j) = Up[f][j.version]
          BY <4>1 DEF Statements
        <5>3. i < j.next
          BY <2>1, <5>1, <5>2
        <5>4. Done(f, j.version, j.next)
          BY <2>1, <2>3, <2>5, <4>1, <5>1 DEF IInv, Rest, Ran, Forward
        <5> QED BY <5>3, <5>4 DEF Done
      <4> QED BY <4>3, <4>4
    <3>2. ASSUME NEW g \in Files, via'[g] \in {"run", "redoing"}
          PROVE  /\ tracked'[g] # Absent
                 /\ \A i \in DOMAIN Up[g][tracked'[g]] :
                      /\ There(Up[g][tracked'[g]][i])
                      /\ via'[g] = "run" /\ Imposes(g, tracked'[g], Up[g][tracked'[g]][i]) =>
                           schema[Object[Up[g][tracked'[g]][i]]] = Up[g][tracked'[g]][i]
      <4>1. CASE g = f
        <5>1. how = "run"
          BY <2>2, <2>3, <3>2, <4>1 DEF IInv, Base, TypeOK
        <5> QED BY <2>4, <3>1, <4>1, <5>1
      <4>2. CASE g # f
        <5>1. via'[g] = via[g] /\ tracked'[g] = tracked[g]
          BY <2>2, <4>2 DEF IInv, Base, TypeOK
        <5> QED BY <3>2, <5>1 DEF IInv, Rest, TrackedMeansApplied
      <4> QED BY <4>1, <4>2
    <3> QED BY <2>1, <3>2 DEF TrackedMeansApplied, There
  <2>9. FullUpInOrder'
    <3>1. ASSUME j.cmd.kind = "up", j.cmd.target = NoTarget, NEW g \in j.seen,
                 g \notin j.todo \ {f}
          PROVE  tracked'[g] # Absent
      <4>1. g \in Files
        BY <2>3 DEF Job
      <4>2. CASE g = f
        BY <2>2, <2>3, <2>4, <3>1, <4>2 DEF IInv, Base, TypeOK
      <4>3. CASE g # f
        <5>1. tracked[g] # Absent
          BY <2>5, <3>1, <4>3 DEF IInv, Rest, FullUpInOrder
        <5> QED BY <2>2, <4>1, <4>3, <5>1 DEF IInv, Base, TypeOK
      <4> QED BY <4>2, <4>3
    <3> QED BY <2>4, <2>5, <3>1 DEF FullUpInOrder
  <2> QED BY <2>6, <2>7, <2>8, <2>9 DEF Rest
<1> QED BY <1>1, <1>2

LEMMA RestStep == IInv /\ Base' /\ [Next]_vars => Rest'
<1> SUFFICES ASSUME IInv, Base', [Next]_vars
             PROVE  Rest'
  OBVIOUS
<1> USE DEF WritingPCs, EndPCs
<1>1. ASSUME NEW r \in Runners, NEW c \in Commands, Acquire(r, c)
      PROVE  Rest'
  BY <1>1, Quiet DEF Acquire, Goto, Writing, Unfinished, IInv, Base, TypeOK
<1>2. ASSUME NEW r \in Runners, Refuse(r)
      PROVE  Rest'
  BY <1>2, Quiet DEF Refuse, Goto, db, Writing, Unfinished, IInv, Base, TypeOK
<1>3. ASSUME NEW r \in Runners, Progress(r)
      PROVE  Rest'
  <2>1. CASE Disconnected(r)
    BY <2>1, QuietLeave DEF Disconnected
  <2>2. CASE Finish(r)
    BY <2>2, QuietLeave DEF Finish
  <2> QED BY <1>3, <2>1, <2>2, RestReadStatus, RestOpen, RestExecute, RestRecord DEF Progress
<1>4. ASSUME NEW r \in Runners, Lose(r)
      PROVE  Rest'
  BY <1>4, Quiet DEF Lose, Writing, Unfinished
<1>5. ASSUME NEW r \in Runners, Reject(r)
      PROVE  Rest'
  BY <1>5, QuietLeave DEF Reject
<1>6. ASSUME NEW f \in Files, NEW v \in Versions, Edit(f, v)
      PROVE  Rest'
  BY <1>6, Quiet DEF Edit, db, Writing, Unfinished
<1>8. ASSUME NEW f \in Files, Delete(f)
      PROVE  Rest'
  BY <1>8, Quiet DEF Delete, db, Writing, Unfinished
<1>7. CASE UNCHANGED vars
  BY <1>7, Quiet DEF vars, db, Writing, Unfinished
<1> QED BY <1>1, <1>2, <1>3, <1>4, <1>5, <1>6, <1>7, <1>8 DEF Next

LEMMA Inductive == Spec => []IInv
<1>1. Init => IInv
  BY BaseInit, RestInit DEF IInv
<1>2. IInv /\ [Next]_vars => IInv'
  BY BaseStep, RestStep DEF IInv
<1> QED BY <1>1, <1>2, PTL DEF Spec

\* What a runner decided on is still so when it writes.
THEOREM DecisionsStayValid == Spec => []SnapshotIsCurrent
<1>1. IInv => SnapshotIsCurrent
  BY DEF IInv, Rest
<1> QED BY <1>1, Inductive, PTL

\* A row written by up or repair stands for a version whose objects are all in the
\* schema: in the definitions it imposes, and where its statements are IF NOT EXISTS
\* in those or in older ones, which they leave.
THEOREM TrackedIsApplied == Spec => []TrackedMeansApplied
<1>1. IInv => TrackedMeansApplied
  BY DEF IInv, Rest
<1> QED BY <1>1, Inductive, PTL

\* An up without a target never builds on a migration that is missing.
THEOREM UpGoesInOrder == Spec => []FullUpInOrder
<1>1. IInv => FullUpInOrder
  BY DEF IInv, Rest
<1> QED BY <1>1, Inductive, PTL

-----------------------------------------------------------------------------
(* Why the lock is freed and an up goes through *)

Below == {p \in Nat \X Nat : p[1] < p[2]}

LEMMA TurnExists ==
  ASSUME NEW j, j.todo \subseteq Nat, j.todo # {}
  PROVE  InTurn(j) # {}
<1>1. IsWellFoundedOn(Below, Nat)
  BY NatLessThanWellFounded DEF OpToRel, Below
<1>2. \E f \in j.todo : \A g \in j.todo : ~ (<<g, f>> \in Below)
  BY <1>1, WFMin, Zenon
<1>3. PICK f \in j.todo : \A g \in j.todo : ~ (<<g, f>> \in Below)
  BY <1>2
<1>4. ASSUME NEW g \in j.todo PROVE f <= g
  <2>1. f \in Nat /\ g \in Nat /\ ~ (<<g, f>> \in Below)
    BY <1>3
  <2>2. ~ (g < f)
    BY <2>1 DEF Below
  <2> QED BY <2>1, <2>2
<1> QED BY <1>4 DEF InTurn, Lowest

\* The lock is somebody's whose session the server still has.
HolderLives == holder # NoRunner => holder \in live

LEMMA HolderStays == Base /\ HolderLives /\ [Next]_vars => HolderLives'
<1> SUFFICES ASSUME Base, HolderLives, [Next]_vars
             PROVE  HolderLives'
  OBVIOUS
<1>1. ASSUME NEW r \in Runners, NEW label, Leave(r, label)
      PROVE  HolderLives'
  BY <1>1 DEF Leave, HolderLives
<1>2. ASSUME NEW r \in Runners, Progress(r)
      PROVE  HolderLives'
  <2>1. CASE Disconnected(r) \/ Finish(r) \/ ReadStatus(r)
    BY <1>1, <2>1 DEF Disconnected, Finish, ReadStatus, HolderLives
  <2>2. CASE Open(r)
    BY <1>1, <2>2 DEF Open, HolderLives
  <2>3. CASE Execute(r)
    BY <1>1, <2>3 DEF Execute, HolderLives
  <2>4. CASE Record(r)
    BY <1>1, <2>4 DEF Record, HolderLives
  <2> QED BY <1>2, <2>1, <2>2, <2>3, <2>4 DEF Progress
<1>3. ASSUME NEW r \in Runners, NEW c \in Commands, Acquire(r, c)
      PROVE  HolderLives'
  BY <1>3 DEF Acquire, HolderLives
<1>4. ASSUME NEW r \in Runners, Refuse(r) \/ Lose(r) \/ Reject(r)
      PROVE  HolderLives'
  BY <1>1, <1>4 DEF Refuse, Lose, Reject, db, HolderLives
<1>5. CASE \/ \E f \in Files : Delete(f) \/ \E v \in Versions : Edit(f, v)
           \/ UNCHANGED vars
  BY <1>5 DEF Edit, Delete, vars, db, HolderLives
<1> QED BY <1>2, <1>3, <1>4, <1>5 DEF Next

\* Whoever has the advisory lock is a runner at work whose session is alive and
\* whose next step does not wait for anything: no way of ending a command, and no
\* lost connection, leaves the lock behind (LockIsFreed).
THEOREM HolderIsAtWork ==
  Spec => [](holder # NoRunner =>
               /\ holder \in live /\ pc[holder] \in Active
               /\ pc[holder] = "next" =>
                    job[holder].todo = {} \/ InTurn(job[holder]) # {})
<1> DEFINE AtWork == /\ holder \in live /\ pc[holder] \in Active
                     /\ pc[holder] = "next" =>
                          job[holder].todo = {} \/ InTurn(job[holder]) # {}
<1>1. Init => HolderLives
  BY DEF Init, HolderLives
<1>2. Base /\ HolderLives => (holder # NoRunner => AtWork)
  <2> SUFFICES ASSUME Base, HolderLives, holder # NoRunner PROVE AtWork
    OBVIOUS
  <2>1. holder \in live /\ pc[holder] \in Active /\ holder \in Runners
    BY DEF HolderLives, Base, LiveHolds, TypeOK
  <2>2. pc[holder] = "next" => job[holder].todo \subseteq Nat
    BY <2>1, MigrationConstants DEF Base, TypeOK, Job, EndPCs
  <2> QED BY <2>1, <2>2, TurnExists
<1> QED BY <1>1, <1>2, BaseInit, BaseStep, HolderStays, PTL DEF Spec

\* A runner's own step ends its command, opens the next of its files, executes the
\* next of the statements it has read, or strikes the file off its list.
Forth(r) ==
  \/ pc'[r] \in EndPCs
  \/ pc[r] = "read" /\ pc'[r] = "next"
  \/ pc[r] = "next" /\ pc'[r] = "run" /\ job'[r].todo = job[r].todo
  \/ /\ pc[r] = "run" /\ pc'[r] = "run"
     /\ job[r].next \in DOMAIN Statements(job[r])
     /\ job'[r] = [job[r] EXCEPT !.next = @ + 1]
  \/ /\ pc[r] = "run" /\ pc'[r] = "next"
     /\ job'[r].todo \subseteq job[r].todo /\ job[r].file \in job[r].todo \ job'[r].todo

Untouched(q) == pc'[q] = pc[q] /\ job'[q] = job[q]

LEMMA LeaveEnds ==
  ASSUME Base, NEW r \in Runners, NEW label, Leave(r, label)
  PROVE  pc'[r] = label /\ \A q \in Runners \ {r} : Untouched(q)
BY DEF Base, TypeOK, Leave, Goto, Untouched

LEMMA ProgressForth ==
  ASSUME Base, NEW r \in Runners, Progress(r)
  PROVE  Forth(r) /\ \A q \in Runners \ {r} : Untouched(q)
<1> DEFINE j == job[r]
<1> USE DEF EndPCs, Goto
<1>0. pc \in [Runners -> {"idle", "read"} \cup WritingPCs \cup EndPCs] /\ DOMAIN job = Runners
  BY DEF Base, TypeOK
<1>1. ASSUME Leave(r, "ok") \/ Leave(r, "failed")
      PROVE  Forth(r) /\ \A q \in Runners \ {r} : Untouched(q)
  BY <1>1, LeaveEnds DEF Forth
<1>2. CASE Disconnected(r) \/ Finish(r)
  BY <1>1, <1>2 DEF Disconnected, Finish
<1>3. CASE ReadStatus(r) /\ ~Leave(r, "failed")
  BY <1>0, <1>3 DEF ReadStatus, Forth, Untouched
<1>4. CASE Open(r) /\ ~Leave(r, "failed")
  <2>1. PICK f : /\ pc[r] = "next"
                 /\ job' = [job EXCEPT ![r].file = f, ![r].version = disk[f], ![r].next = 1]
                 /\ pc' = [pc EXCEPT ![r] = "run"]
    BY <1>4 DEF Open
  <2>2. j \in Job
    BY <2>1 DEF Base, TypeOK
  <2>3. job'[r] = [j EXCEPT !.file = f, !.version = disk[f], !.next = 1]
    BY <1>0, <2>1
  <2>4. job'[r].todo = j.todo
    BY <2>2, <2>3 DEF Job
  <2>5. pc'[r] = "run" /\ \A q \in Runners \ {r} : Untouched(q)
    BY <1>0, <2>1 DEF Untouched
  <2> QED BY <2>1, <2>4, <2>5 DEF Forth
<1>5. CASE Execute(r) /\ ~Leave(r, "failed")
  BY <1>0, <1>5 DEF Execute, Forth, Untouched
<1>6. CASE Record(r) /\ ~Leave(r, "failed")
  <2>1. /\ pc[r] = "run" /\ job' = [job EXCEPT ![r].todo = @ \ {j.file}]
        /\ pc' = [pc EXCEPT ![r] = "next"]
    BY <1>6 DEF Record
  <2>2. j \in Job /\ j.file \in j.todo
    BY <2>1 DEF Base, TypeOK, JobFits, Unfinished, WritingPCs
  <2>3. job'[r] = [j EXCEPT !.todo = @ \ {j.file}]
    BY <1>0, <2>1
  <2>4. job'[r].todo = j.todo \ {j.file}
    BY <2>2, <2>3 DEF Job
  <2>5. pc'[r] = "next" /\ \A q \in Runners \ {r} : Untouched(q)
    BY <1>0, <2>1 DEF Untouched
  <2> QED BY <2>1, <2>2, <2>4, <2>5 DEF Forth
<1> QED BY <1>1, <1>2, <1>3, <1>4, <1>5, <1>6 DEF Progress

\* A command never goes back to a file or a statement it is through with, and no
\* runner gives another one more to do: each of its steps uses up one that its files
\* ask for (the loops of main and apply_migration).
THEOREM RunnersComeForward ==
  Spec => [][\A r \in Runners : Progress(r) =>
               Forth(r) /\ \A q \in Runners \ {r} : Untouched(q)]_vars
<1> DEFINE AllForth == \A r \in Runners : Progress(r) =>
                         Forth(r) /\ \A q \in Runners \ {r} : Untouched(q)
<1>1. Base => [AllForth]_vars
  BY ProgressForth
<1> QED BY <1>1, BaseInit, BaseStep, PTL DEF Spec

\* An up that is under way on files on disk whose statements can be repeated.
Going(r) == /\ Writing(r) /\ job[r].cmd.kind = "up"
            /\ \A f \in job[r].todo : Rerunnable(f) /\ disk[f] # Absent

LEMMA GoingExecutes ==
  ASSUME IInv, NEW r \in Runners, Going(r), Execute(r)
  PROVE  Going(r)'
<1> DEFINE j == job[r]
<1>1. /\ pc[r] = "run" /\ j \in Job /\ j.version \in Versions
      /\ j.file \in j.todo /\ j.file \in Files
  BY DEF Going, Execute, IInv, Base, TypeOK, JobFits, EndPCs, Job
<1>2. Statements(j) = Up[j.file][j.version] /\ j.next \in DOMAIN Statements(j)
  BY DEF Going, Statements, Execute
<1>3. Mode[Statements(j)[j.next]] \in {"ifMissing", "replace"}
  BY <1>1, <1>2 DEF Going, Rerunnable
<1>4. job' = [job EXCEPT ![r].next = @ + 1] /\ UNCHANGED <<live, pc, disk>>
  BY <1>3 DEF Execute, Clashes
<1>5. job'[r].todo = j.todo /\ job'[r].cmd = j.cmd
  BY <1>1, <1>4 DEF IInv, Base, TypeOK, Job
<1> QED BY <1>4, <1>5 DEF Going, Writing, Unfinished

LEMMA GoingRecords ==
  ASSUME IInv, NEW r \in Runners, Going(r), Record(r)
  PROVE  Going(r)'
<1> DEFINE j == job[r]
<1>1. pc[r] = "run" /\ j \in Job /\ j.file \in j.todo
  BY DEF Going, Record, IInv, Base, TypeOK, JobFits, Unfinished, WritingPCs, EndPCs
<1>2. tracked[j.file] = Absent
  BY <1>1 DEF IInv, Rest, SnapshotIsCurrent, Going
<1>3. /\ job' = [job EXCEPT ![r].todo = @ \ {j.file}]
      /\ pc' = [pc EXCEPT ![r] = "next"] /\ live' = live /\ disk' = disk
  BY <1>2 DEF Record, Goto
<1>4. job'[r] = [j EXCEPT !.todo = @ \ {j.file}] /\ pc'[r] = "next"
  BY <1>3 DEF IInv, Base, TypeOK
<1>5. job'[r].todo \subseteq j.todo /\ job'[r].cmd = j.cmd
  BY <1>1, <1>4 DEF Job
<1> QED BY <1>3, <1>4, <1>5 DEF Going, Writing, Unfinished, WritingPCs

LEMMA GoingOpens ==
  ASSUME IInv, NEW r \in Runners, Going(r), Open(r)
  PROVE  Going(r)'
<1> DEFINE j == job[r]
<1>1. PICK f : /\ pc[r] = "next"
               /\ job' = [job EXCEPT ![r].file = f, ![r].version = disk[f], ![r].next = 1]
               /\ pc' = [pc EXCEPT ![r] = "run"] /\ live' = live /\ disk' = disk
  BY Turn DEF Open, Going, Goto, Unusable
<1>2. j \in Job
  BY <1>1 DEF IInv, Base, TypeOK, EndPCs
<1>3. job'[r] = [j EXCEPT !.file = f, !.version = disk[f], !.next = 1] /\ pc'[r] = "run"
  BY <1>1 DEF IInv, Base, TypeOK
<1>4. job'[r].todo = j.todo /\ job'[r].cmd = j.cmd
  BY <1>2, <1>3 DEF Job
<1> QED BY <1>1, <1>3, <1>4 DEF Going, Writing, Unfinished, WritingPCs

\* An up over files that can be re-executed goes on to its end unless a session is
\* lost, a statement refused or a file deleted: what earlier runs have left, edits, and
\* runners that come and go cannot stop it (rule 4 of sql/migrations/README.md; no
\* INSERT of a tracking row ever clashes).
THEOREM UpsGoThrough ==
  Spec => [][\A r \in Runners :
               Going(r) => Going(r)' \/ pc'[r] = "ok" \/ losses' > losses]_vars
<1> DEFINE Through == \A r \in Runners :
                        Going(r) => Going(r)' \/ pc'[r] = "ok" \/ losses' > losses
<1>1. IInv /\ [Next]_vars => [Through]_vars
  <2> SUFFICES ASSUME IInv, Next, NEW q \in Runners, Going(q)
               PROVE  Going(q)' \/ pc'[q] = "ok" \/ losses' > losses
    OBVIOUS
  <2>0. losses \in Nat /\ q \in live /\ pc[q] \in {"next", "run"}
    BY MigrationConstants DEF IInv, Base, TypeOK, Going, Writing, Unfinished, WritingPCs
  <2>1. ASSUME NEW r \in Runners, Progress(r)
        PROVE  Going(q)' \/ pc'[q] = "ok"
    <3>1. CASE r = q
      <4>1. CASE Finish(q)
        BY <4>1 DEF Finish, Leave, Goto, IInv, Base, TypeOK
      <4>2. ~Disconnected(q) /\ ~ReadStatus(q)
        BY <2>0 DEF Disconnected, ReadStatus
      <4> QED BY <2>1, <3>1, <4>1, <4>2, GoingExecutes, GoingRecords, GoingOpens DEF Progress
    <3>2. CASE r # q
      <4>1. Untouched(q)
        BY <2>1, <3>2, ProgressForth DEF IInv
      <4>2. q \in live'
        BY <2>0, <2>1, <3>2
           DEF Progress, Disconnected, ReadStatus, Open, Finish, Execute, Record, Leave
      <4>3. disk' = disk
        BY <2>1
           DEF Progress, Disconnected, ReadStatus, Open, Finish, Execute, Record
      <4> QED BY <4>1, <4>2, <4>3 DEF Untouched, Going, Writing, Unfinished
    <3> QED BY <3>1, <3>2
  <2>2. ASSUME NEW r \in Runners, Lose(r) \/ Reject(r)
        PROVE  losses' > losses
    BY <2>0, <2>2 DEF Lose, Reject
  <2>3. ASSUME NEW r \in Runners, Refuse(r) \/ \E c \in Commands : Acquire(r, c)
        PROVE  Going(q)'
    <3>1. r # q
      BY <2>0, <2>3 DEF Refuse, Acquire, Startable, EndPCs
    <3> QED BY <2>3, <3>1 DEF Refuse, Acquire, Goto, Going, Writing, Unfinished, IInv, Base, TypeOK
  <2>4. ASSUME NEW f \in Files, NEW v \in Versions, Edit(f, v)
        PROVE  Going(q)'
    BY <2>4, MigrationConstants DEF Edit, Going, Writing, Unfinished, IInv, Base, TypeOK
  <2>5. ASSUME NEW f \in Files, Delete(f)
        PROVE  losses' > losses
    BY <2>0, <2>5 DEF Delete
  <2> QED BY <2>1, <2>2, <2>3, <2>4, <2>5 DEF Next
<1> QED BY <1>1, Inductive, PTL DEF Spec

=============================================================================
