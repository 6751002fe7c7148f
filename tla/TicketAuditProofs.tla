------------------------- MODULE TicketAuditProofs -------------------------
(***************************************************************************)
(* Proofs of the properties of TicketLifecycle about what is told of a     *)
(* request when it is through: the audit event of a reassignment, the      *)
(* notification of a closure, and the answer.  They rest on the invariant  *)
(* IInv of TicketLifecycleProofs, and on the timeline and the history of a *)
(* ticket only ever getting longer.                                        *)
(*                                                                         *)
(* Then why every request that is served ends: its steps use up what it    *)
(* has left to do (Left), and there is always one it can take (Ready).     *)
(* At the end, why a reassignment can break off half way (BreakInv).       *)
(***************************************************************************)
EXTENDS TicketHistoryProofs, FiniteSetTheorems

-----------------------------------------------------------------------------
(* What no step takes away.                                                *)

LinesKept == /\ DOMAIN activity \subseteq DOMAIN activity'
             /\ \A i \in DOMAIN activity : activity'[i] = activity[i]
PastKept == \A t \in Ids : past[t] \subseteq past'[t]

\* The request that takes a step is at another statement, or where it was, or
\* has failed.
Outcome(r, label, j) ==
  /\ OthersFrame(r)
  /\ \/ pc'[r] = label /\ job'[r] = j
     \/ pc'[r] = pc[r] /\ job'[r] = job[r]
     \/ pc'[r] = "failed" /\ job'[r] = job[r]

LEMMA AppliedOutcome ==
  ASSUME ControlOK, NEW r \in Requests, NEW label, NEW j, Applied(r, label, j)
  PROVE  Outcome(r, label, j)
BY DEF ControlOK, Applied, Answered, Resent, GaveUp, Goto, Outcome, OthersFrame

LEMMA AnsweredOutcome ==
  ASSUME ControlOK, NEW r \in Requests, NEW label, NEW j, Answered(r, label, j)
  PROVE  OthersFrame(r) /\ pc'[r] = label /\ job'[r] = j
BY DEF ControlOK, Answered, Goto, OthersFrame

LEMMA EndedOutcome ==
  ASSUME ControlOK, NEW r \in Requests, NEW label, Goto(r, label), job' = job
  PROVE  OthersFrame(r) /\ pc'[r] = label /\ job'[r] = job[r]
BY DEF ControlOK, Goto, OthersFrame

LEMMA LinesKeptByAppend ==
  ASSUME TablesOK, NEW row \in LogRows, activity' = Append(activity, row)
  PROVE  LinesKept /\ Logged(row)'
<1>1. activity \in Seq(LogRows)
  BY DEF TablesOK, LogRows
<1> QED BY <1>1, AppendKeeps DEF LinesKept, Logged

LEMMA LinesKeptByPut ==
  ASSUME TablesOK, NEW row \in LogRows, PutLog(row)
  PROVE  LinesKept /\ Logged(row)'
<1>1. CASE activity' = Append(activity, row)
  BY <1>1, LinesKeptByAppend
<1>2. CASE Logged(row) /\ UNCHANGED activity
  BY <1>2 DEF LinesKept, Logged
<1> QED BY <1>1, <1>2 DEF PutLog

LEMMA SameLines == ASSUME UNCHANGED activity PROVE LinesKept
BY DEF LinesKept

LEMMA SamePast == ASSUME UNCHANGED past PROVE PastKept
BY DEF PastKept

LEMMA PutRowPast ==
  ASSUME TablesOK, NEW t \in Ids, NEW row, PutRow(t, row)
  PROVE  PastKept /\ row \in past'[t]
BY DEF TablesOK, PutRow, PastKept

\* Whoever takes a step is served, and nobody else is moved by it.
LEMMA StepFrame ==
  ASSUME IInv, NEW r \in Requests, Step(r)
  PROVE  OthersFrame(r) /\ Running(r)
<1>1. ControlOK
  BY DEF IInv, TypeOK
<1>2. OthersFrame(r)
  BY <1>1, AppliedOutcome, AnsweredOutcome, EndedOutcome
     DEF Step, CheckAssignee, InsertTicket, DuplicateTicket, LogCreate, AllocMail,
             SetStatus, LogStatus,
         CloseMail, CheckTicket, CheckDepartments, MoveTicket, LogMove, Audit,
         NotApplied, GaveUp, Outcome
<1>3. Running(r)
  BY DEF Step, CheckAssignee, InsertTicket, DuplicateTicket, LogCreate, AllocMail,
          SetStatus, LogStatus,
         CloseMail, CheckTicket, CheckDepartments, MoveTicket, LogMove, Audit,
         Running, CreatePCs, UpdatePCs, ReassignPCs
<1> QED BY <1>2, <1>3

\* A reassignment comes to the row of a ticket of its form.
LEMMA RowAtHand ==
  ASSUME IInv, NEW r \in Requests, pc[r] = "logMove"
  PROVE  /\ job[r] \in ReassignJob /\ Len(job[r].from) = Len(job[r].selected)
         /\ job[r].moved \in DOMAIN job[r].selected
         /\ MoveRow(job[r], job[r].moved) \in LogRows
<1>1. job[r] \in ReassignJob /\ JobFits("logMove", job[r], ticket)
  BY DEF IInv, TypeOK, ControlOK, ReassignPCs, JobsFit
<1>2. /\ Len(job[r].from) = Len(job[r].selected)
      /\ job[r].moved \in DOMAIN job[r].selected
  BY <1>1 DEF JobFits, ReassignJob
<1> QED BY <1>1, <1>2, MoveRowType

\* The timeline row of a step that logs, if it logs.
LEMMA StepLines ==
  ASSUME IInv, NEW r \in Requests, Step(r)
  PROVE  LinesKept
<1> DEFINE j == job[r]
<1>1. CASE UNCHANGED activity
  BY <1>1, SameLines
<1>2. CASE LogCreate(r) /\ ~UNCHANGED activity
  <2>1. PutLog(LogRow(j.id, j.actor, "NULL", "PENDING")) /\ pc[r] = "logCreate"
    BY <1>2 DEF LogCreate, NotApplied, tables
  <2>2. j \in CreateJob /\ j.id \in Ids
    BY <2>1 DEF IInv, JobsFit, JobFits, TypeOK, TablesOK, ControlOK, Existing, CreatePCs
  <2>3. LogRow(j.id, j.actor, "NULL", "PENDING") \in LogRows
    BY <2>2, LogRowType DEF CreateJob, Statuses
  <2> QED BY <2>1, <2>3, LinesKeptByPut DEF IInv, TypeOK
<1>3. CASE LogStatus(r) /\ ~UNCHANGED activity
  <2>1. PutLog(LogRow(j.id, j.actor, j.from, j.to)) /\ pc[r] = "logStatus"
    BY <1>3 DEF LogStatus, NotApplied, tables
  <2>2. j \in UpdateJob
    BY <2>1 DEF IInv, TypeOK, ControlOK, UpdatePCs
  <2>3. LogRow(j.id, j.actor, j.from, j.to) \in LogRows
    BY <2>2, LogRowType DEF UpdateJob
  <2> QED BY <2>1, <2>3, LinesKeptByPut DEF IInv, TypeOK
<1>4. CASE LogMove(r) /\ ~UNCHANGED activity
  <2>1. activity' = Append(activity, MoveRow(j, j.moved)) /\ pc[r] = "logMove"
    BY <1>4 DEF LogMove
  <2>2. MoveRow(j, j.moved) \in LogRows
    BY <2>1, RowAtHand
  <2> QED BY <2>1, <2>2, LinesKeptByAppend DEF IInv, TypeOK
<1> QED
  BY <1>1, <1>2, <1>3, <1>4
     DEF Step, CheckAssignee, InsertTicket, DuplicateTicket, AllocMail, SetStatus,
             CloseMail,
         CheckTicket, CheckDepartments, MoveTicket, Audit, NotApplied, tables

LEMMA StepPast ==
  ASSUME IInv, NEW r \in Requests, Step(r)
  PROVE  PastKept
<1> DEFINE j == job[r]
<1>1. CASE UNCHANGED past
  BY <1>1, SamePast
<1>2. CASE InsertTicket(r) /\ ~UNCHANGED past
  <2>1. PICK t \in Lowest(Ids \ Existing) : PutRow(t, NewRow(j))
    BY <1>2 DEF InsertTicket, NotApplied, tables
  <2>2. t \in Ids
    BY <2>1 DEF Lowest
  <2> QED BY <2>1, <2>2, PutRowPast DEF IInv, TypeOK
<1>3. CASE SetStatus(r) /\ ~UNCHANGED past
  <2>1. PutRow(j.id, [ticket[j.id] EXCEPT !.status = j.to]) /\ pc[r] = "setStatus"
    BY <1>3 DEF SetStatus, NotApplied, tables
  <2>2. j.id \in Ids
    BY <2>1 DEF IInv, TypeOK, ControlOK, UpdatePCs, UpdateJob
  <2> QED BY <2>1, <2>2, PutRowPast DEF IInv, TypeOK
<1>4. CASE MoveTicket(r) /\ ~UNCHANGED past
  <2> DEFINE t == j.selected[j.moved + 1]
  <2>1. pc[r] = "move" /\ PutRow(t, [ticket[t] EXCEPT !.assignee = j.dst])
    BY <1>4 DEF MoveTicket, NotApplied, tables
  <2>2. t \in Ids
    BY <2>1, MovedTicket
  <2> HIDE DEF t
  <2> QED BY <2>1, <2>2, PutRowPast DEF IInv, TypeOK
<1> QED
  BY <1>1, <1>2, <1>3, <1>4
     DEF Step, CheckAssignee, DuplicateTicket, LogCreate, AllocMail, LogStatus, CloseMail,
         CheckTicket, CheckDepartments, LogMove, Audit, NotApplied, tables

\* The kind of a job tells its type.
LEMMA KindOfJob ==
  ASSUME ControlOK, NEW r \in Requests
  PROVE  /\ job[r].kind = "reassign" => job[r] \in ReassignJob
         /\ job[r].kind = "update" => job[r] \in UpdateJob
         /\ job[r] \in CreateJob => job[r].kind = "create"
BY DEF ControlOK, CreateJob, UpdateJob, ReassignJob, NoJob

\* A ticket of a form is read: its status is kept, or the form is refused.
LEMMA CheckStep ==
  ASSUME IInv, NEW r \in Requests, CheckTicket(r)
  PROVE  /\ pc[r] = "check" /\ Len(job[r].from) < Len(job[r].selected)
         /\ job[r] \in ReassignJob /\ job'[r] \in ReassignJob
         /\ \/ /\ pc'[r] = "check" /\ Len(job'[r].from) = Len(job[r].from) + 1
               /\ job'[r] = [job[r] EXCEPT !.from = job'[r].from]
            \/ pc'[r] = "rejected" /\ job'[r] = job[r]
         /\ UNCHANGED faults
<1> DEFINE j == job[r]
           t == j.selected[Len(j.from) + 1]
           k == [j EXCEPT !.from = Append(@, ticket[t].status)]
<1>1. /\ pc[r] = "check" /\ Len(j.from) < Len(j.selected)
      /\ Answered(r, "check", k) \/ Answered(r, "rejected", j)
  BY DEF CheckTicket
<1>2. j \in ReassignJob /\ k \in ReassignJob /\ ticket[t].status \in Statuses
  BY <1>1, CheckedTicket
<1> HIDE DEF t
<1>3. k = [j EXCEPT !.from = k.from] /\ Len(k.from) = Len(j.from) + 1
  BY <1>2 DEF ReassignJob
<1> HIDE DEF k
<1>4. (pc'[r] = "check" /\ job'[r] = k) \/ (pc'[r] = "rejected" /\ job'[r] = j)
  BY <1>1, AnsweredOutcome DEF IInv, TypeOK
<1> QED BY <1>1, <1>2, <1>3, <1>4 DEF Answered

\* The next ticket of a form is written, and counted.
LEMMA MoveStep ==
  ASSUME IInv, NEW r \in Requests, MoveTicket(r)
  PROVE  LET t == job[r].selected[job[r].moved + 1]
             k == [job[r] EXCEPT !.moved = @ + 1]
         IN  /\ pc[r] = "move" /\ job[r].moved + 1 \in DOMAIN job[r].selected
             /\ job[r] \in ReassignJob /\ k \in ReassignJob
             /\ t \in Ids /\ ticket[t] \in Row
             /\ \/ NotApplied(r) /\ pc'[r] = "failed" /\ job'[r] = job[r]
                \/ /\ PutRow(t, [ticket[t] EXCEPT !.assignee = job[r].dst])
                   /\ Applied(r, "logMove", k) /\ Outcome(r, "logMove", k)
<1> DEFINE t == job[r].selected[job[r].moved + 1]
           k == [job[r] EXCEPT !.moved = @ + 1]
           row == [ticket[t] EXCEPT !.assignee = job[r].dst]
<1>1. /\ pc[r] = "move"
      /\ NotApplied(r) \/ (PutRow(t, row) /\ Applied(r, "logMove", k))
  BY DEF MoveTicket
<1>2. /\ job[r].moved + 1 \in DOMAIN job[r].selected
      /\ job[r] \in ReassignJob /\ k \in ReassignJob
      /\ t \in Ids /\ ticket[t] \in Row
  BY <1>1, MovedTicket
<1> HIDE DEF t, k
<1>3. NotApplied(r) => pc'[r] = "failed" /\ job'[r] = job[r]
  BY EndedOutcome DEF NotApplied, GaveUp, IInv, TypeOK
<1>4. Applied(r, "logMove", k) => Outcome(r, "logMove", k)
  BY AppliedOutcome DEF IInv, TypeOK
<1> QED BY <1>1, <1>2, <1>3, <1>4 DEF t, k

\* The assignee of a new ticket is compared, or cannot be.
LEMMA CheckAssigneeStep ==
  ASSUME IInv, NEW r \in Requests, CheckAssignee(r)
  PROVE  /\ pc[r] = "validate" /\ pc'[r] \in {"insert", "rejected", "failed"}
         /\ job[r] \in CreateJob /\ job'[r] \in CreateJob
         /\ job'[r] = [job[r] EXCEPT !.checked = job'[r].checked]
         /\ UNCHANGED <<tables, mails>>
<1>1. ~job[r].checked
  BY DEF CheckAssignee, IInv, JobsFit, JobFits
<1> QED BY <1>1, CheckAssigneeType DEF IInv, TypeOK

LEMMA StepKind ==
  ASSUME IInv, NEW r \in Requests, Step(r)
  PROVE  job'[r].kind = job[r].kind
<1>1. ControlOK
  BY DEF IInv, TypeOK
<1>3. CASE InsertTicket(r) /\ ~NotApplied(r)
  <2>1. PICK t \in Lowest(Ids \ Existing) :
          Applied(r, "logCreate", [job[r] EXCEPT !.id = t])
    BY <1>3 DEF InsertTicket
  <2>2. [job[r] EXCEPT !.id = t].kind = job[r].kind
    BY <1>1, <1>3 DEF InsertTicket, ControlOK, CreatePCs, CreateJob
  <2> QED BY <1>1, <2>1, <2>2, AppliedOutcome DEF Outcome
<1>4. CASE DuplicateTicket(r) /\ ~GaveUp(r)
  <2>1. PICK s \in Existing : Answered(r, "done", [job[r] EXCEPT !.id = s])
    BY <1>4 DEF DuplicateTicket
  <2>2. [job[r] EXCEPT !.id = s].kind = job[r].kind
    BY <1>1, <1>4 DEF DuplicateTicket, ControlOK, CreatePCs, CreateJob
  <2> QED BY <1>1, <2>1, <2>2, AnsweredOutcome
<1>5. CASE CheckTicket(r)
  BY <1>5, CheckStep DEF ReassignJob
<1>6. CASE MoveTicket(r)
  BY <1>6, MoveStep DEF Outcome, ReassignJob
<1>7. CASE NotApplied(r) \/ GaveUp(r)
  BY <1>1, <1>7, EndedOutcome DEF NotApplied, GaveUp
<1>8. CASE \/ LogCreate(r) \/ AllocMail(r) \/ SetStatus(r) \/ LogStatus(r) \/ CloseMail(r)
           \/ CheckDepartments(r) \/ LogMove(r) \/ Audit(r)
  <2>1. job'[r] = job[r]
    BY <1>1, <1>8, AppliedOutcome, AnsweredOutcome, EndedOutcome
       DEF LogCreate, AllocMail, SetStatus, LogStatus, CloseMail, CheckDepartments,
           LogMove, Audit, NotApplied, GaveUp, Outcome
  <2> QED BY <2>1
<1>9. CASE CheckAssignee(r)
  BY <1>9, CheckAssigneeStep DEF CreateJob
<1> QED BY <1>3, <1>4, <1>5, <1>6, <1>7, <1>8, <1>9 DEF Step

-----------------------------------------------------------------------------
(* An audited reassignment is complete.                                    *)

\* Of the i-th ticket of r's form.
Given(r, i) == \E row \in past[job[r].selected[i]] : row.assignee = job[r].dst
Shown(r, i) == Logged(MoveRow(job[r], i))

\* Every ticket a reassignment has moved was given to the new assignee, and all
\* but the one in hand are in the timeline with the status read for them, which
\* is not read again.  So it is with all selected tickets when it is done, and
\* one that was refused has moved none.
Traced(r) ==
  /\ pc[r] \in {"move", "logMove", "audit"} =>
       /\ job[r].moved <= Len(job[r].selected)
       /\ \A i \in 1 .. job[r].moved :
            Given(r, i) /\ (Shown(r, i) \/ (pc[r] = "logMove" /\ i = job[r].moved))
  /\ pc[r] = "done" /\ job[r].kind = "reassign" =>
       /\ job[r].moved = Len(job[r].selected)
       /\ \A i \in 1 .. job[r].moved : Given(r, i) /\ Shown(r, i)
  /\ pc[r] = "rejected" /\ job[r].kind = "reassign" => job[r].moved = 0
  /\ r \in audit => pc[r] = "done" /\ job[r].kind = "reassign"

AllTraced == \A r \in Requests : Traced(r)

LEMMA ShownStays ==
  ASSUME LinesKept, NEW row, Logged(row)
  PROVE  Logged(row)'
BY DEF LinesKept, Logged

\* What was so of the tickets of a request stays so.
LEMMA TraceStays ==
  ASSUME LinesKept, PastKept, NEW q \in Requests, NEW i, job[q].selected[i] \in Ids,
         job'[q].selected = job[q].selected, job'[q].dst = job[q].dst,
         job'[q].actor = job[q].actor, job'[q].from = job[q].from
  PROVE  /\ Given(q, i) => Given(q, i)'
         /\ Shown(q, i) => Shown(q, i)'
<1>1. Given(q, i) => Given(q, i)'
  BY DEF PastKept, Given
<1>2. ASSUME Shown(q, i) PROVE Shown(q, i)'
  <2>1. PICK n \in DOMAIN activity : activity[n] = MoveRow(job[q], i)
    BY <1>2 DEF Shown, Logged
  <2>2. n \in DOMAIN activity' /\ activity'[n] = MoveRow(job[q], i)
    BY <2>1 DEF LinesKept
  <2>3. MoveRow(job'[q], i) = MoveRow(job[q], i)
    BY DEF MoveRow, LogRow
  <2> QED BY <2>2, <2>3 DEF Shown, Logged, MoveRow, LogRow
<1> QED BY <1>1, <1>2

LEMMA OthersTraced ==
  ASSUME IInv, AllTraced, LinesKept, PastKept, NEW r \in Requests, OthersFrame(r),
         audit' \subseteq audit \cup {r}, NEW q \in Requests \ {r}
  PROVE  Traced(q)'
<1>1. pc'[q] = pc[q] /\ job'[q] = job[q] /\ Traced(q) /\ (q \in audit' => q \in audit)
  BY DEF OthersFrame, AllTraced
<1>2. CASE pc[q] \in ReassignPCs \/ job[q].kind = "reassign"
  <2>1. job[q] \in ReassignJob
    BY <1>2, KindOfJob DEF IInv, TypeOK, ControlOK
  <2>2. ASSUME NEW i \in 1 .. Len(job[q].selected)
        PROVE  (Given(q, i) => Given(q, i)') /\ (Shown(q, i) => Shown(q, i)')
    <3>1. job[q].selected[i] \in Ids
      BY <2>1 DEF ReassignJob
    <3> QED BY <1>1, <3>1, TraceStays
  <2>3. job[q].moved \in Nat /\ Len(job[q].selected) \in Nat
    BY <2>1 DEF ReassignJob
  <2> QED BY <1>1, <2>2, <2>3 DEF Traced
<1>3. CASE pc[q] \notin ReassignPCs /\ job[q].kind # "reassign"
  BY <1>1, <1>3 DEF Traced, ReassignPCs
<1> QED BY <1>2, <1>3

\* A step at the end of which its request reassigns nothing.
LEMMA UntracedStep ==
  ASSUME IInv, AllTraced, NEW r \in Requests, Step(r), pc'[r] \notin ReassignPCs,
         pc'[r] = "failed" \/ job'[r].kind # "reassign",
         UNCHANGED audit
  PROVE  AllTraced'
<1>1. Traced(r)'
  BY StepFrame DEF AllTraced, Traced, Running, CreatePCs, UpdatePCs, ReassignPCs
<1> QED BY <1>1, StepFrame, StepLines, StepPast, OthersTraced DEF AllTraced

LEMMA UpdatingTraced ==
  ASSUME IInv, AllTraced, NEW r \in Requests,
         \/ CheckAssignee(r) \/ InsertTicket(r) \/ DuplicateTicket(r) \/ LogCreate(r)
         \/ AllocMail(r) \/ SetStatus(r) \/ LogStatus(r) \/ CloseMail(r)
  PROVE  AllTraced'
<1>1. Step(r) /\ UNCHANGED audit
  BY DEF Step, CheckAssignee, InsertTicket, DuplicateTicket, LogCreate, AllocMail,
          SetStatus, LogStatus,
         CloseMail, NotApplied, tables
<1>2. pc'[r] \notin ReassignPCs
  <2>1. pc[r] \in CreatePCs \cup UpdatePCs
    BY DEF CheckAssignee, InsertTicket, DuplicateTicket, LogCreate, AllocMail,
            SetStatus, LogStatus,
           CloseMail, CreatePCs, UpdatePCs
  <2>2. \E label \in CreatePCs \cup UpdatePCs \cup EndPCs : pc'[r] = label
    <3>1. CASE CheckAssignee(r)
      BY <3>1, CheckAssigneeStep DEF CreatePCs, EndPCs
    <3>2. CASE ~CheckAssignee(r)
      BY <2>1, <3>2, AppliedOutcome, AnsweredOutcome, EndedOutcome
         DEF InsertTicket, DuplicateTicket, LogCreate, AllocMail, SetStatus, LogStatus,
             CloseMail, NotApplied, GaveUp, Outcome, IInv, TypeOK, CreatePCs, UpdatePCs, EndPCs
    <3> QED BY <3>1, <3>2
  <2> QED BY <2>2 DEF CreatePCs, UpdatePCs, EndPCs, ReassignPCs
<1>3. job'[r].kind # "reassign"
  BY <1>1, StepKind, KindOfJob
     DEF CheckAssignee, InsertTicket, DuplicateTicket, LogCreate, AllocMail, SetStatus,
             LogStatus,
         CloseMail, CreatePCs, UpdatePCs, IInv, TypeOK, ControlOK, UpdateJob
<1> QED BY <1>1, <1>2, <1>3, UntracedStep

LEMMA CheckingTraced ==
  ASSUME IInv, AllTraced, NEW r \in Requests, CheckTicket(r) \/ CheckDepartments(r)
  PROVE  AllTraced'
<1>1. Step(r) /\ UNCHANGED audit /\ pc[r] = "check" /\ Traced(r)
  BY DEF Step, CheckTicket, CheckDepartments, tables, AllTraced
<1>2. job[r] \in ReassignJob /\ job[r].moved = 0 /\ r \notin audit
  BY <1>1 DEF Traced, IInv, TypeOK, ControlOK, ReassignPCs, JobsFit, JobFits
<1>3. /\ job'[r].moved = 0 /\ pc'[r] \in {"check", "move", "rejected"}
      /\ Len(job'[r].selected) \in Nat
  <2>1. CASE CheckDepartments(r)
    BY <1>2, <2>1, AnsweredOutcome DEF CheckDepartments, IInv, TypeOK, ReassignJob
  <2>2. CASE CheckTicket(r)
    <3>1. job'[r] \in ReassignJob /\ pc'[r] \in {"check", "rejected"}
      BY <2>2, CheckStep
    <3>2. PICK f : job'[r] = [job[r] EXCEPT !.from = f] \/ job'[r] = job[r]
      BY <2>2, CheckStep
    <3>3. job'[r].moved = job[r].moved
      BY <1>2, <3>2 DEF ReassignJob
    <3> QED BY <1>2, <3>1, <3>3 DEF ReassignJob
  <2> QED BY <2>1, <2>2
<1>4. Traced(r)'
  BY <1>1, <1>2, <1>3 DEF Traced
<1> QED BY <1>1, <1>4, StepFrame, StepLines, StepPast, OthersTraced DEF AllTraced

LEMMA MovingTraced ==
  ASSUME IInv, AllTraced, NEW r \in Requests, MoveTicket(r)
  PROVE  AllTraced'
<1>1. /\ Step(r) /\ UNCHANGED audit /\ pc[r] = "move" /\ Traced(r)
      /\ LinesKept /\ PastKept /\ OthersFrame(r)
  BY StepFrame, StepLines, StepPast DEF Step, MoveTicket, NotApplied, tables, AllTraced
<1> DEFINE j == job[r]
           k == [j EXCEPT !.moved = @ + 1]
           t == j.selected[j.moved + 1]
           row == [ticket[t] EXCEPT !.assignee = j.dst]
<1>2. /\ j \in ReassignJob /\ r \notin audit /\ j.moved \in Nat
      /\ j.moved + 1 \in 1 .. Len(j.selected) /\ t \in Ids /\ ticket[t] \in Row
      /\ \A i \in 1 .. j.moved : j.selected[i] \in Ids
  <2>1. j \in ReassignJob /\ j.moved + 1 \in DOMAIN j.selected /\ t \in Ids /\ ticket[t] \in Row
    BY MoveStep
  <2>2. j.moved \in Nat /\ j.selected \in Seq(Ids)
    BY <2>1 DEF ReassignJob
  <2> QED BY <1>1, <2>1, <2>2 DEF Traced
<1>3. \A i \in 1 .. j.moved : Given(r, i) /\ Shown(r, i)
  BY <1>1 DEF Traced
<1>4. CASE NotApplied(r)
  BY <1>1, <1>4, EndedOutcome, UntracedStep
     DEF NotApplied, GaveUp, IInv, TypeOK, ReassignPCs
<1>5. CASE ~NotApplied(r)
  <2>1. PutRow(t, row) /\ Outcome(r, "logMove", k)
    BY <1>5, MoveStep
  <2>3. row.assignee = j.dst
    BY <1>2 DEF Row
  <2>4. row \in past'[t]
    BY <1>2, <2>1, PutRowPast DEF IInv, TypeOK
  <2>5. /\ k.moved = j.moved + 1 /\ k.dst = j.dst /\ k.selected = j.selected
        /\ k.actor = j.actor /\ k.from = j.from
    BY <1>2 DEF ReassignJob
  <2> HIDE DEF row, k
  <2>7. /\ job'[r].dst = j.dst /\ job'[r].actor = j.actor /\ job'[r].from = j.from
        /\ job'[r].selected = j.selected
    BY <2>1, <2>5 DEF Outcome
  <2>8. \A i \in 1 .. j.moved : Given(r, i)' /\ Shown(r, i)'
    BY <1>1, <1>2, <1>3, <2>7, TraceStays
  <2>9. PICK n \in Nat : n = j.moved + 1 /\ Given(r, n)'
    <3>1. PICK n : n = j.moved + 1
      OBVIOUS
    <3>2. job'[r].selected[n] = t
      BY <2>7, <3>1
    <3>3. Given(r, n)'
      BY <2>3, <2>4, <2>7, <3>2 DEF Given
    <3> QED BY <1>2, <3>1, <3>3
  <2>10. Traced(r)'
    <3>1. CASE pc'[r] = "logMove" /\ job'[r] = k
      BY <1>1, <1>2, <2>5, <2>8, <2>9, <3>1 DEF Traced
    <3>2. CASE pc'[r] \in {"move", "failed"} /\ job'[r] = j
      BY <1>1, <1>2, <2>8, <3>2 DEF Traced
    <3> QED BY <1>1, <2>1, <3>1, <3>2 DEF Outcome
  <2> QED BY <1>1, <2>10, OthersTraced DEF AllTraced
<1> QED BY <1>4, <1>5

LEMMA LoggingTraced ==
  ASSUME IInv, AllTraced, NEW r \in Requests, LogMove(r)
  PROVE  AllTraced'
<1> DEFINE j == job[r]
           row == MoveRow(j, j.moved)
           next == IF j.moved = Len(j.selected) THEN "audit" ELSE "move"
<1>1. /\ Step(r) /\ UNCHANGED audit /\ pc[r] = "logMove" /\ Traced(r)
      /\ LinesKept /\ PastKept /\ OthersFrame(r)
  BY StepFrame, StepLines, StepPast DEF Step, LogMove, AllTraced
<1>2. /\ j \in ReassignJob /\ r \notin audit /\ row \in LogRows /\ j.moved \in Nat
      /\ j.moved \in 1 .. Len(j.selected)
      /\ \A i \in 1 .. j.moved : j.selected[i] \in Ids
  <2>1. j \in ReassignJob /\ row \in LogRows /\ j.moved \in DOMAIN j.selected
    BY <1>1, RowAtHand
  <2>2. j.moved \in Nat /\ j.selected \in Seq(Ids)
    BY <2>1 DEF ReassignJob
  <2> QED BY <1>1, <2>1, <2>2 DEF Traced
<1>3. \A i \in 1 .. j.moved : Given(r, i) /\ (Shown(r, i) \/ i = j.moved)
  BY <1>1 DEF Traced
<1>4. \/ activity' = Append(activity, row) /\ Outcome(r, next, j)
      \/ pc'[r] = "failed"
  BY AppliedOutcome, AnsweredOutcome, EndedOutcome
     DEF LogMove, GaveUp, IInv, TypeOK
<1>5. CASE pc'[r] = "failed"
  BY <1>1, <1>5, UntracedStep DEF ReassignPCs
<1>6. CASE activity' = Append(activity, row) /\ Outcome(r, next, j)
  <2>1. job'[r] = j /\ pc'[r] \in {next, "logMove", "failed"}
    BY <1>1, <1>6 DEF Outcome
  <2>2. PICK n : n = j.moved
    OBVIOUS
  <2>3. PICK line \in LogRows : line = row
    BY <1>2
  <2>4. Logged(line)'
    BY <1>6, <2>3, LinesKeptByAppend DEF IInv, TypeOK
  <2>5. Shown(r, n)'
    BY <2>1, <2>2, <2>3, <2>4 DEF Shown, Logged, MoveRow, LogRow
  <2>6. \A i \in 1 .. j.moved : Given(r, i)' /\ Shown(r, i)'
    BY <1>1, <1>2, <1>3, <2>1, <2>2, <2>5, TraceStays
  <2>7. Traced(r)'
    BY <1>1, <1>2, <2>1, <2>6 DEF Traced
  <2> QED BY <1>1, <2>7, OthersTraced DEF AllTraced
<1> QED BY <1>4, <1>5, <1>6

LEMMA AuditTraced ==
  ASSUME IInv, AllTraced, NEW r \in Requests, Audit(r)
  PROVE  AllTraced'
<1>1. /\ Step(r) /\ pc[r] = "audit" /\ Traced(r) /\ audit' \subseteq audit \cup {r}
      /\ LinesKept /\ PastKept /\ OthersFrame(r)
  BY StepFrame, StepLines, StepPast DEF Step, Audit, AllTraced
<1>2. /\ job[r] \in ReassignJob /\ job[r].kind = "reassign"
      /\ r \notin audit /\ job[r].moved = Len(job[r].selected)
      /\ \A i \in 1 .. job[r].moved :
           job[r].selected[i] \in Ids /\ Given(r, i) /\ Shown(r, i)
  <2>1. job[r] \in ReassignJob /\ JobFits("audit", job[r], ticket)
    BY <1>1 DEF IInv, TypeOK, ControlOK, ReassignPCs, JobsFit
  <2>2. job[r].kind = "reassign" /\ job[r].selected \in Seq(Ids)
    BY <2>1 DEF ReassignJob
  <2> QED BY <1>1, <2>1, <2>2 DEF Traced, JobFits
<1>3. /\ job'[r] = job[r]
      /\ \/ pc'[r] = "done"
         \/ pc'[r] = "failed" /\ audit' = audit
  BY AnsweredOutcome, EndedOutcome DEF Audit, GaveUp, IInv, TypeOK
<1>4. \A i \in 1 .. job[r].moved : Given(r, i)' /\ Shown(r, i)'
  BY <1>1, <1>2, <1>3, TraceStays
<1>5. Traced(r)'
  BY <1>2, <1>3, <1>4 DEF Traced
<1> QED BY <1>1, <1>5, OthersTraced DEF AllTraced

LEMMA ArrivalTraced ==
  ASSUME IInv, AllTraced, NEW r \in Requests, Arrive(r)
  PROVE  AllTraced'
<1>1. PICK label \in {"validate", "setStatus", "check"} : \E j : Start(r, label, j)
  BY DEF Arrive, StartCreate, StartUpdate, StartReassign
<1>3. PICK j : Start(r, label, j)
  BY <1>1
<1>4. /\ pc[r] = "idle" /\ pc'[r] = label /\ job'[r] = j /\ OthersFrame(r)
      /\ UNCHANGED <<past, activity, audit>>
  BY <1>3 DEF Start, Goto, IInv, TypeOK, ControlOK, OthersFrame, tables
<1>5. LinesKept /\ PastKept
  BY <1>4, SameLines, SamePast
<1>6. Traced(r)'
  BY <1>1, <1>4 DEF AllTraced, Traced
<1> QED BY <1>4, <1>5, <1>6, OthersTraced DEF AllTraced

LEMMA AllAreTraced == Spec => []AllTraced
<1>1. Init => AllTraced
  BY DEF Init, AllTraced, Traced
<1>2. IInv /\ AllTraced /\ [Next]_vars => AllTraced'
  <2> SUFFICES ASSUME IInv, AllTraced, [Next]_vars PROVE AllTraced'
    OBVIOUS
  <2>1. CASE UNCHANGED vars \/ Quiet
    BY <2>1 DEF Quiet, vars, tables, control, AllTraced, Traced, Given, Shown, Logged,
                MoveRow, LogRow
  <2>2. ASSUME NEW r \in Requests, Arrive(r) PROVE AllTraced'
    BY <2>2, ArrivalTraced
  <2>3. ASSUME NEW r \in Requests, Step(r) PROVE AllTraced'
    BY <2>3, UpdatingTraced, CheckingTraced, MovingTraced, LoggingTraced,
            AuditTraced DEF Step
  <2> QED BY <2>1, <2>2, <2>3 DEF Next
<1> QED BY <1>1, <1>2, Invariance, PTL DEF Spec

\* Whatever fails or interleaves, the audit log claims a reassignment only if
\* every selected ticket was given to the new assignee and its row is in the
\* timeline (log_audit_event at the end of reassign_tickets).
THEOREM AuditsAreComplete == Spec => []AuditedReassignIsComplete
<1>1. IInv /\ AllTraced => AuditedReassignIsComplete
  <2> SUFFICES ASSUME IInv, AllTraced, NEW r \in audit, NEW i \in DOMAIN job[r].selected
               PROVE  Given(r, i) /\ Shown(r, i)
    BY DEF AuditedReassignIsComplete, Given, Shown
  <2>1. r \in Requests /\ pc[r] = "done" /\ job[r].kind = "reassign" /\ Traced(r)
    BY DEF IInv, TypeOK, TablesOK, AllTraced, Traced
  <2>2. job[r].selected \in Seq(Ids)
    BY <2>1, KindOfJob DEF IInv, TypeOK, ReassignJob
  <2> QED BY <2>1, <2>2 DEF Traced
<1> QED BY <1>1, AllAreTraced, Invariance, PTL

-----------------------------------------------------------------------------
(* A closure notification has a cause.                                     *)

\* A request about to tell of a closure has its row in the timeline.
Announced(r) ==
  pc[r] = "closeMail" => job[r].to = "RESOLVED" /\ InTimeline(job[r].id, "RESOLVED")

\* The requests that have ended and set t to RESOLVED.
Closers(t) == {q \in Requests : /\ job[q].kind = "update" /\ job[q].id = t
                                /\ job[q].to = "RESOLVED" /\ pc[q] \in {"done", "failed"}}

Caused(t) == /\ closureMails[t] > 0 => InTimeline(t, "RESOLVED")
             /\ closureMails[t] <= Cardinality(Closers(t))

ClosureInv == /\ \A r \in Requests : Announced(r)
              /\ \A t \in Ids : Caused(t)

LEMMA ClosersFinite ==
  ASSUME NEW t
  PROVE  /\ IsFiniteSet(Closers(t)) /\ Cardinality(Closers(t)) \in Nat
         /\ IsFiniteSet(Closers(t)') /\ Cardinality(Closers(t)') \in Nat
<1>1. Closers(t) \in SUBSET Requests /\ Closers(t)' \in SUBSET Requests
  BY DEF Closers
<1>2. IsFiniteSet(Closers(t)) /\ IsFiniteSet(Closers(t)')
  BY <1>1, LifecycleConstants, FS_Subset
<1> QED BY <1>2, FS_CardinalityType

LEMMA TimelineKept ==
  ASSUME LinesKept, NEW t, NEW st, InTimeline(t, st)
  PROVE  InTimeline(t, st)'
BY DEF LinesKept, InTimeline

\* A request that has ended is not moved, so a ticket loses no closer.
LEMMA ClosersStay ==
  ASSUME NEW r \in Requests, OthersFrame(r), pc[r] \notin EndPCs, NEW t
  PROVE  /\ Closers(t) \subseteq Closers(t)'
         /\ Cardinality(Closers(t)) <= Cardinality(Closers(t)')
<1>1. Closers(t) \subseteq Closers(t)'
  BY DEF Closers, OthersFrame, EndPCs
<1> QED BY <1>1, ClosersFinite, FS_Subset

\* A step that sends no closure notification.
LEMMA SilentStep ==
  ASSUME IInv, ClosureInv, LinesKept, NEW r \in Requests, OthersFrame(r),
         pc[r] \notin EndPCs, UNCHANGED closureMails, Announced(r)'
  PROVE  ClosureInv'
<1>1. ASSUME NEW q \in Requests PROVE Announced(q)'
  <2>1. CASE q = r
    BY <2>1
  <2>2. CASE q # r
    <3>1. pc'[q] = pc[q] /\ job'[q] = job[q] /\ Announced(q)
      BY <2>2 DEF OthersFrame, ClosureInv
    <3>2. CASE pc[q] = "closeMail"
      <4>1. PICK t : t = job[q].id
        OBVIOUS
      <4>2. InTimeline(t, "RESOLVED")'
        BY <3>1, <3>2, <4>1, TimelineKept DEF Announced
      <4> QED BY <3>1, <3>2, <4>1, <4>2 DEF Announced, InTimeline
    <3> QED BY <3>1, <3>2 DEF Announced
  <2> QED BY <2>1, <2>2
<1>2. ASSUME NEW t \in Ids PROVE Caused(t)'
  <2>1. closureMails[t] \in Nat /\ closureMails'[t] = closureMails[t] /\ Caused(t)
    BY DEF IInv, TypeOK, TablesOK, ClosureInv
  <2>2. closureMails'[t] > 0 => InTimeline(t, "RESOLVED")'
    BY <2>1, TimelineKept DEF Caused
  <2>3. closureMails'[t] <= Cardinality(Closers(t)')
    BY <2>1, ClosersStay, ClosersFinite DEF Caused
  <2> QED BY <2>2, <2>3 DEF Caused
<1> QED BY <1>1, <1>2 DEF ClosureInv

LEMMA CloseMailCaused ==
  ASSUME IInv, ClosureInv, NEW r \in Requests, CloseMail(r)
  PROVE  ClosureInv'
<1>1. /\ Step(r) /\ pc[r] = "closeMail" /\ pc[r] \notin EndPCs
      /\ LinesKept /\ OthersFrame(r) /\ Announced(r)
  BY StepFrame, StepLines DEF Step, CloseMail, ClosureInv, EndPCs
<1>2. CASE UNCHANGED closureMails
  <2>1. pc'[r] # "closeMail"
    BY <1>2, AnsweredOutcome, EndedOutcome
       DEF CloseMail, NotApplied, GaveUp, IInv, TypeOK
  <2> QED BY <1>1, <1>2, <2>1, SilentStep DEF Announced
<1>3. CASE ~UNCHANGED closureMails
  <2>1. /\ closureMails' = [closureMails EXCEPT ![job[r].id] = @ + 1]
        /\ Answered(r, "done", job[r])
    BY <1>3 DEF CloseMail, NotApplied, mails
  <2>2. pc'[r] = "done" /\ job'[r] = job[r]
    BY <2>1, AnsweredOutcome DEF IInv, TypeOK
  <2>3. PICK id \in Ids : id = job[r].id
    BY <1>1 DEF IInv, TypeOK, ControlOK, UpdatePCs, UpdateJob
  <2>4. job[r].kind = "update" /\ job[r].to = "RESOLVED" /\ InTimeline(id, "RESOLVED")
    BY <1>1, <2>3 DEF Announced, IInv, TypeOK, ControlOK, UpdatePCs, UpdateJob
  <2>5. \A q \in Requests : Announced(q)'
    <3> SUFFICES ASSUME NEW q \in Requests, q # r PROVE Announced(q)'
      BY <2>2 DEF Announced
    <3>1. pc'[q] = pc[q] /\ job'[q] = job[q] /\ Announced(q)
      BY <1>1 DEF OthersFrame, ClosureInv
    <3>2. PICK t : t = job[q].id
      OBVIOUS
    <3>3. pc[q] = "closeMail" => InTimeline(t, "RESOLVED")'
      BY <1>1, <3>1, <3>2, TimelineKept DEF Announced
    <3> QED BY <3>1, <3>2, <3>3 DEF Announced, InTimeline
  <2>6. ASSUME NEW t \in Ids, t # id PROVE Caused(t)'
    <3>1. closureMails[t] \in Nat /\ closureMails'[t] = closureMails[t] /\ Caused(t)
      BY <2>1, <2>3, <2>6 DEF IInv, TypeOK, TablesOK, ClosureInv
    <3>2. closureMails'[t] > 0 => InTimeline(t, "RESOLVED")'
      BY <1>1, <3>1, TimelineKept DEF Caused
    <3>3. closureMails'[t] <= Cardinality(Closers(t)')
      BY <1>1, <3>1, ClosersStay, ClosersFinite DEF Caused
    <3> QED BY <3>2, <3>3 DEF Caused
  <2>7. Caused(id)'
    <3>1. closureMails[id] \in Nat /\ closureMails'[id] = closureMails[id] + 1 /\ Caused(id)
      BY <2>1, <2>3 DEF IInv, TypeOK, TablesOK, ClosureInv
    <3>2. InTimeline(id, "RESOLVED")'
      BY <1>1, <2>4, TimelineKept
    <3>3. r \notin Closers(id) /\ Closers(id) \cup {r} \subseteq Closers(id)'
      <4>1. r \notin Closers(id) /\ r \in Closers(id)'
        BY <1>1, <2>2, <2>3, <2>4 DEF Closers
      <4>2. Closers(id) \subseteq Closers(id)'
        BY <1>1, ClosersStay
      <4> QED BY <4>1, <4>2
    <3>4. Cardinality(Closers(id) \cup {r}) = Cardinality(Closers(id)) + 1
      BY <3>3, ClosersFinite, FS_AddElement
    <3>5. Cardinality(Closers(id) \cup {r}) <= Cardinality(Closers(id)')
      BY <3>3, ClosersFinite, FS_Subset
    <3>6. closureMails'[id] <= Cardinality(Closers(id)')
      BY <3>1, <3>4, <3>5, ClosersFinite DEF Caused
    <3> QED BY <3>2, <3>6 DEF Caused
  <2> QED BY <2>5, <2>6, <2>7 DEF ClosureInv
<1> QED BY <1>2, <1>3

LEMMA LogStatusCaused ==
  ASSUME IInv, ClosureInv, NEW r \in Requests, LogStatus(r)
  PROVE  ClosureInv'
<1> DEFINE j == job[r]
           next == IF j.to = "RESOLVED" THEN "closeMail" ELSE "done"
<1>1. /\ Step(r) /\ pc[r] = "logStatus" /\ pc[r] \notin EndPCs /\ UNCHANGED closureMails
      /\ LinesKept /\ OthersFrame(r)
  BY StepFrame, StepLines DEF Step, LogStatus, NotApplied, mails, EndPCs
<1>2. CASE NotApplied(r)
  <2>1. pc'[r] = "failed"
    BY <1>2, EndedOutcome DEF NotApplied, GaveUp, IInv, TypeOK
  <2> QED BY <1>1, <2>1, SilentStep DEF Announced
<1>3. CASE ~NotApplied(r)
  <2>1. PutLog(LogRow(j.id, j.actor, j.from, j.to)) /\ Applied(r, next, j)
    BY <1>3 DEF LogStatus
  <2>2. Outcome(r, next, j)
    BY <2>1, AppliedOutcome DEF IInv, TypeOK
  <2>3. j \in UpdateJob
    BY <1>1 DEF IInv, TypeOK, ControlOK, UpdatePCs
  <2>4. PICK line \in LogRows : line = LogRow(j.id, j.actor, j.from, j.to)
    BY <2>3, LogRowType DEF UpdateJob
  <2>5. Logged(line)'
    BY <2>1, <2>4, LinesKeptByPut DEF IInv, TypeOK
  <2>6. InTimeline(line.id, line.to)'
    BY <2>5 DEF Logged, InTimeline
  <2>7. line.id = j.id /\ line.to = j.to
    BY <2>4 DEF LogRow
  <2>8. Announced(r)'
    BY <1>1, <2>2, <2>6, <2>7 DEF Outcome, Announced, InTimeline
  <2> QED BY <1>1, <2>8, SilentStep
<1> QED BY <1>2, <1>3

\* Any other step sends no closure notification, and leads to none.
LEMMA OtherStepCaused ==
  ASSUME IInv, ClosureInv, NEW r \in Requests, Step(r),
         ~CloseMail(r), ~LogStatus(r)
  PROVE  ClosureInv'
<1>1. /\ LinesKept /\ OthersFrame(r) /\ pc[r] \notin EndPCs
  BY StepFrame, StepLines DEF Running, CreatePCs, UpdatePCs, ReassignPCs, EndPCs
<1>2. UNCHANGED closureMails
  BY DEF Step, CheckAssignee, InsertTicket, DuplicateTicket, LogCreate, AllocMail,
          SetStatus,
         CheckTicket, CheckDepartments, MoveTicket, LogMove, Audit, NotApplied, mails
<1>3. pc[r] # "closeMail"
  BY DEF Step, CheckAssignee, InsertTicket, DuplicateTicket, LogCreate, AllocMail,
          SetStatus,
         CheckTicket, CheckDepartments, MoveTicket, LogMove, Audit
<1>4. pc'[r] # "closeMail"
  <2>1. CASE LogCreate(r) \/ AllocMail(r) \/ SetStatus(r)
    BY <1>3, <2>1, AppliedOutcome, AnsweredOutcome, EndedOutcome
       DEF LogCreate, AllocMail, SetStatus, NotApplied, GaveUp, Outcome, IInv, TypeOK
  <2>2. CASE NotApplied(r) \/ GaveUp(r)
    BY <2>2, EndedOutcome DEF NotApplied, GaveUp, IInv, TypeOK
  <2>3. CASE InsertTicket(r) /\ ~NotApplied(r)
    <3>1. PICK t \in Lowest(Ids \ Existing) :
            Applied(r, "logCreate", [job[r] EXCEPT !.id = t])
      BY <2>3 DEF InsertTicket
    <3> QED BY <1>3, <3>1, AppliedOutcome DEF Outcome, IInv, TypeOK
  <2>4. CASE DuplicateTicket(r) /\ ~GaveUp(r)
    <3>1. PICK s \in Existing : Answered(r, "done", [job[r] EXCEPT !.id = s])
      BY <2>4 DEF DuplicateTicket
    <3> QED BY <3>1, AnsweredOutcome DEF IInv, TypeOK
  <2>5. CASE CheckAssignee(r) \/ CheckTicket(r)
    BY <2>5, CheckAssigneeStep, CheckStep
  <2>6. CASE MoveTicket(r)
    BY <1>3, <2>6, MoveStep DEF Outcome
  <2>7. CASE CheckDepartments(r) \/ LogMove(r) \/ Audit(r)
    BY <1>3, <2>7, AppliedOutcome, AnsweredOutcome, EndedOutcome
       DEF CheckDepartments, LogMove, Audit, GaveUp, Outcome, IInv, TypeOK
  <2> QED BY <2>1, <2>2, <2>3, <2>4, <2>5, <2>6, <2>7 DEF Step
<1> QED BY <1>1, <1>2, <1>4, SilentStep DEF Announced

LEMMA ArrivalCaused ==
  ASSUME IInv, ClosureInv, NEW r \in Requests, Arrive(r)
  PROVE  ClosureInv'
<1>1. PICK label \in {"validate", "setStatus", "check"} : \E j : Start(r, label, j)
  BY DEF Arrive, StartCreate, StartUpdate, StartReassign
<1>2. PICK j : Start(r, label, j)
  BY <1>1
<1>3. /\ pc[r] = "idle" /\ pc'[r] = label /\ OthersFrame(r)
      /\ UNCHANGED <<activity, closureMails>>
  BY <1>2 DEF Start, Goto, IInv, TypeOK, ControlOK, OthersFrame, tables, mails
<1>4. LinesKept /\ Announced(r)' /\ pc[r] \notin EndPCs
  BY <1>1, <1>3, SameLines DEF Announced, EndPCs
<1> QED BY <1>3, <1>4, SilentStep

\* Nobody is told that a ticket is closed before its closure is in the timeline,
\* and a ticket has no more notifications than requests that closed it, however
\* updates interleave, fail and are sent again (update_ticket_status).
THEOREM ClosuresAreCaused == Spec => []ClosureMailHasCause
<1>1. Init => ClosureInv
  <2> SUFFICES ASSUME Init PROVE ClosureInv
    OBVIOUS
  <2>1. \A r \in Requests : Announced(r)
    BY DEF Init, Announced
  <2>2. \A t \in Ids : closureMails[t] = 0 /\ Cardinality(Closers(t)) \in Nat
    BY ClosersFinite DEF Init
  <2>3. \A t \in Ids : Caused(t)
    BY <2>2 DEF Caused
  <2> QED BY <2>1, <2>3 DEF ClosureInv
<1>2. IInv /\ ClosureInv /\ [Next]_vars => ClosureInv'
  <2> SUFFICES ASSUME IInv, ClosureInv, [Next]_vars PROVE ClosureInv'
    OBVIOUS
  <2>1. CASE UNCHANGED vars \/ Quiet
    BY <2>1 DEF Quiet, vars, tables, mails, control, ClosureInv, Announced, Caused,
                InTimeline, Closers
  <2>2. ASSUME NEW r \in Requests, Arrive(r) PROVE ClosureInv'
    BY <2>2, ArrivalCaused
  <2>3. ASSUME NEW r \in Requests, Step(r) PROVE ClosureInv'
    BY <2>3, CloseMailCaused, LogStatusCaused, OtherStepCaused
  <2> QED BY <2>1, <2>2, <2>3 DEF Next
<1>3. ClosureInv => ClosureMailHasCause
  BY DEF ClosureInv, Caused, InTimeline, Closers, ClosureMailHasCause
<1> QED BY <1>1, <1>2, <1>3, Invariance, PTL DEF Spec

-----------------------------------------------------------------------------
(* What an answer means.                                                   *)

Written(r) == \E row \in past[job[r].id] : row.status = job[r].to
InLog(r) == Logged(LogRow(job[r].id, job[r].actor, job[r].from, job[r].to))

\* What an update has done when it comes to a statement, and when it is answered.
Told(r) ==
  /\ pc[r] \in {"logStatus", "closeMail"} => Written(r)
  /\ pc[r] = "closeMail" => InLog(r)
  /\ pc[r] = "done" /\ job[r].kind = "update" =>
       /\ Written(r) /\ InLog(r)
       /\ job[r].to = "RESOLVED" /\ faults = 0 => closureMails[job[r].id] > 0

AllTold == \A r \in Requests : Told(r)

\* No notification is unsent, no failure undone.
MailsKept == /\ faults <= faults'
             /\ \A t \in Ids : closureMails[t] <= closureMails'[t]

LEMMA StepMails ==
  ASSUME IInv, NEW r \in Requests, Step(r)
  PROVE  MailsKept
<1>1. faults \in Nat /\ closureMails \in [Ids -> Nat]
  BY DEF IInv, TypeOK, TablesOK, ControlOK
<1>2. faults <= faults'
  <2>1. faults' = faults \/ faults' = faults + 1
    BY DEF Step, CheckAssignee, InsertTicket, DuplicateTicket, LogCreate, AllocMail,
            SetStatus, LogStatus,
           CloseMail, CheckTicket, CheckDepartments, MoveTicket, LogMove, Audit,
           Applied, Answered, Resent, NotApplied, GaveUp
  <2> QED BY <1>1, <2>1
<1>3. ASSUME NEW t \in Ids PROVE closureMails[t] <= closureMails'[t]
  <2>1. CASE UNCHANGED closureMails
    BY <1>1, <2>1
  <2>2. CASE closureMails' = [closureMails EXCEPT ![job[r].id] = @ + 1]
    BY <1>1, <2>2
  <2> QED BY <2>1, <2>2
          DEF Step, CheckAssignee, InsertTicket, DuplicateTicket, LogCreate, AllocMail,
                  SetStatus, LogStatus,
              CloseMail, CheckTicket, CheckDepartments, MoveTicket, LogMove, Audit,
              NotApplied, mails
<1> QED BY <1>2, <1>3 DEF MailsKept

LEMMA WrittenStays ==
  ASSUME PastKept, NEW q \in Requests, job'[q] = job[q], job[q].id \in Ids, Written(q)
  PROVE  Written(q)'
BY DEF PastKept, Written

LEMMA InLogStays ==
  ASSUME LinesKept, NEW q \in Requests, job'[q] = job[q], InLog(q)
  PROVE  InLog(q)'
<1>1. Logged(LogRow(job[q].id, job[q].actor, job[q].from, job[q].to))'
  BY DEF InLog, LinesKept, Logged
<1> QED BY <1>1 DEF InLog, Logged, LogRow

LEMMA OthersTold ==
  ASSUME IInv, IInv', AllTold, LinesKept, PastKept, MailsKept,
         NEW r \in Requests, OthersFrame(r), NEW q \in Requests \ {r}
  PROVE  Told(q)'
<1>1. pc'[q] = pc[q] /\ job'[q] = job[q] /\ Told(q)
  BY DEF OthersFrame, AllTold
<1>2. pc[q] \in UpdatePCs \/ job[q].kind = "update" => job[q].id \in Ids
  BY KindOfJob DEF IInv, TypeOK, ControlOK, UpdateJob
<1>3. CASE pc[q] \in UpdatePCs \/ job[q].kind = "update"
  <2>1. (Written(q) => Written(q)') /\ (InLog(q) => InLog(q)')
    BY <1>1, <1>2, <1>3, WrittenStays, InLogStays
  <2>2. /\ faults' = 0 => faults = 0
        /\ closureMails[job[q].id] > 0 => closureMails'[job[q].id] > 0
    <3>1. PICK t \in Ids : t = job[q].id
      BY <1>2, <1>3
    <3>2. faults \in Nat /\ closureMails[t] \in Nat
      BY DEF IInv, TypeOK, TablesOK, ControlOK
    <3>3. closureMails[t] <= closureMails'[t] /\ faults <= faults'
      BY DEF MailsKept
    <3>4. closureMails'[t] \in Nat /\ faults' \in Nat
      BY DEF IInv, TypeOK, TablesOK, ControlOK
    <3> QED BY <3>1, <3>2, <3>3, <3>4
  <2> QED BY <1>1, <2>1, <2>2 DEF Told
<1>4. CASE pc[q] \notin UpdatePCs /\ job[q].kind # "update"
  BY <1>1, <1>4 DEF Told, UpdatePCs
<1> QED BY <1>3, <1>4

LEMMA StepTold ==
  ASSUME IInv, AllTold, NEW r \in Requests, Step(r), Told(r)'
  PROVE  AllTold'
BY StepFrame, StepLines, StepPast, StepMails, OthersTold, NextKeeps DEF AllTold, Next

LEMMA SetStatusTold ==
  ASSUME IInv, AllTold, NEW r \in Requests, SetStatus(r)
  PROVE  AllTold'
<1> DEFINE j == job[r]
<1>1. Step(r) /\ pc[r] = "setStatus"
  BY DEF Step, SetStatus
<1>2. CASE NotApplied(r)
  <2>1. pc'[r] = "failed"
    BY <1>2, EndedOutcome DEF NotApplied, GaveUp, IInv, TypeOK
  <2> QED BY <1>1, <2>1, StepTold DEF Told
<1>3. CASE ~NotApplied(r)
  <2> DEFINE row == [ticket[j.id] EXCEPT !.status = j.to]
  <2>1. PutRow(j.id, row) /\ Applied(r, "logStatus", j)
    BY <1>3 DEF SetStatus
  <2>2. j \in UpdateJob /\ j.id \in Ids /\ j.id \in Existing
    BY <1>1 DEF IInv, TypeOK, ControlOK, UpdatePCs, UpdateJob, JobsFit, JobFits, Existing
  <2>3. row.status = j.to
    BY <2>2 DEF IInv, TypeOK, TablesOK, Row
  <2>4. row \in past'[j.id]
    BY <2>1, <2>2, PutRowPast DEF IInv, TypeOK
  <2>5. job'[r] = j /\ pc'[r] \in {"logStatus", "setStatus", "failed"}
    BY <1>1, <2>1, AppliedOutcome DEF IInv, TypeOK, Outcome
  <2>6. Told(r)'
    BY <2>3, <2>4, <2>5 DEF Told, Written
  <2> QED BY <1>1, <2>6, StepTold
<1> QED BY <1>2, <1>3

LEMMA LogStatusTold ==
  ASSUME IInv, AllTold, NEW r \in Requests, LogStatus(r)
  PROVE  AllTold'
<1> DEFINE j == job[r]
           next == IF j.to = "RESOLVED" THEN "closeMail" ELSE "done"
<1>1. /\ Step(r) /\ pc[r] = "logStatus" /\ Written(r)
      /\ LinesKept /\ PastKept /\ OthersFrame(r)
  BY StepFrame, StepLines, StepPast DEF Step, LogStatus, AllTold, Told
<1>2. CASE NotApplied(r)
  <2>1. pc'[r] = "failed"
    BY <1>2, EndedOutcome DEF NotApplied, GaveUp, IInv, TypeOK
  <2> QED BY <1>1, <2>1, StepTold DEF Told
<1>3. CASE ~NotApplied(r)
  <2>1. PutLog(LogRow(j.id, j.actor, j.from, j.to)) /\ Applied(r, next, j)
    BY <1>3 DEF LogStatus
  <2>2. Outcome(r, next, j)
    BY <2>1, AppliedOutcome DEF IInv, TypeOK
  <2>3. j \in UpdateJob /\ j.id \in Ids
    BY <1>1 DEF IInv, TypeOK, ControlOK, UpdatePCs, UpdateJob
  <2>4. PICK line \in LogRows : line = LogRow(j.id, j.actor, j.from, j.to)
    BY <2>3, LogRowType DEF UpdateJob
  <2>5. Logged(line)'
    BY <2>1, <2>4, LinesKeptByPut DEF IInv, TypeOK
  <2>6. job'[r] = j /\ pc'[r] \in {next, "logStatus", "failed"}
    BY <1>1, <2>2 DEF Outcome
  <2>7. InLog(r)'
    BY <2>4, <2>5, <2>6 DEF InLog, Logged, LogRow
  <2>8. Written(r)'
    BY <1>1, <2>3, <2>6, WrittenStays
  <2>9. Told(r)'
    BY <2>6, <2>7, <2>8 DEF Told
  <2> QED BY <1>1, <2>9, StepTold
<1> QED BY <1>2, <1>3

LEMMA CloseMailTold ==
  ASSUME IInv, AllTold, NEW r \in Requests, CloseMail(r)
  PROVE  AllTold'
<1> DEFINE j == job[r]
<1>1. /\ Step(r) /\ pc[r] = "closeMail" /\ Written(r) /\ InLog(r)
      /\ LinesKept /\ PastKept
  BY StepLines, StepPast DEF Step, CloseMail, AllTold, Told
<1>2. j.id \in Ids
  BY <1>1 DEF IInv, TypeOK, ControlOK, UpdatePCs, UpdateJob
<1>3. job'[r] = j /\ pc'[r] \in {"done", "failed"}
  BY AnsweredOutcome, EndedOutcome DEF CloseMail, NotApplied, GaveUp, IInv, TypeOK
<1>4. pc'[r] = "done" => faults' > 0 \/ closureMails'[j.id] > 0
  <2>1. CASE closureMails' = [closureMails EXCEPT ![j.id] = @ + 1]
    BY <1>2, <2>1 DEF IInv, TypeOK, TablesOK
  <2>2. CASE NotApplied(r) \/ faults' = faults + 1
    BY <2>2 DEF NotApplied, GaveUp, IInv, TypeOK, ControlOK
  <2> QED BY <2>1, <2>2 DEF CloseMail
<1>5. Written(r)' /\ InLog(r)'
  BY <1>1, <1>2, <1>3, WrittenStays, InLogStays
<1>6. Told(r)'
  BY <1>3, <1>4, <1>5 DEF Told
<1> QED BY <1>1, <1>6, StepTold

\* A step that is not of an update tells nothing of one.
LEMMA OtherStepTold ==
  ASSUME IInv, AllTold, NEW r \in Requests, Step(r),
         ~SetStatus(r), ~LogStatus(r), ~CloseMail(r)
  PROVE  AllTold'
<1>1. pc[r] \in CreatePCs \cup ReassignPCs
  BY DEF Step, CheckAssignee, InsertTicket, DuplicateTicket, LogCreate, AllocMail,
         CheckTicket, CheckDepartments, MoveTicket, LogMove, Audit, CreatePCs, ReassignPCs
<1>2. job[r].kind # "update" /\ job'[r].kind # "update"
  BY <1>1, StepKind DEF IInv, TypeOK, ControlOK, CreateJob, ReassignJob
<1>3. IInv'
  BY NextKeeps DEF Next
<1>4. pc'[r] \notin {"logStatus", "closeMail"}
  BY <1>2, <1>3 DEF IInv, TypeOK, ControlOK, UpdatePCs, UpdateJob
<1> QED BY <1>2, <1>4, StepTold DEF Told

LEMMA ArrivalTold ==
  ASSUME IInv, AllTold, NEW r \in Requests, Arrive(r)
  PROVE  AllTold'
<1>1. PICK label \in {"validate", "setStatus", "check"} : \E j : Start(r, label, j)
  BY DEF Arrive, StartCreate, StartUpdate, StartReassign
<1>2. PICK j : Start(r, label, j)
  BY <1>1
<1>3. /\ pc'[r] = label /\ OthersFrame(r)
      /\ UNCHANGED <<past, activity, closureMails, faults>>
  BY <1>2 DEF Start, Goto, IInv, TypeOK, ControlOK, OthersFrame, tables, mails
<1>4. LinesKept /\ PastKept /\ MailsKept
  BY <1>3, SameLines, SamePast DEF MailsKept, IInv, TypeOK, TablesOK, ControlOK
<1>5. Told(r)'
  BY <1>1, <1>3 DEF Told
<1> QED BY <1>3, <1>4, <1>5, OthersTold, NextKeeps DEF AllTold, Next

LEMMA AllAreTold == Spec => []AllTold
<1>1. Init => AllTold
  BY DEF Init, AllTold, Told
<1>2. IInv /\ AllTold /\ [Next]_vars => AllTold'
  <2> SUFFICES ASSUME IInv, AllTold, [Next]_vars PROVE AllTold'
    OBVIOUS
  <2>1. CASE UNCHANGED vars \/ Quiet
    BY <2>1 DEF Quiet, vars, tables, mails, control, AllTold, Told, Written, InLog, Logged
  <2>2. ASSUME NEW r \in Requests, Arrive(r) PROVE AllTold'
    BY <2>2, ArrivalTold
  <2>3. ASSUME NEW r \in Requests, Step(r) PROVE AllTold'
    BY <2>3, SetStatusTold, LogStatusTold, CloseMailTold, OtherStepTold
  <2> QED BY <2>1, <2>2, <2>3 DEF Next
<1> QED BY <1>1, <1>2, Invariance, PTL DEF Spec

\* A handler that answered with success did all of it, though each of its statements
\* ran on its own, was perhaps sent again, and others wrote in between; one that
\* refused moved nothing.  A request that is half done has failed.
THEOREM AnswersAreTrue == Spec => []AnsweredIsDone
<1>1. IInv /\ AllTraced /\ AllTold => AnsweredIsDone
  <2> SUFFICES ASSUME IInv, AllTraced, AllTold, NEW r \in Requests
               PROVE  /\ job[r].kind = "update" /\ pc[r] = "done" =>
                           /\ Written(r) /\ InLog(r)
                           /\ job[r].to = "RESOLVED" /\ faults = 0 =>
                                closureMails[job[r].id] > 0
                      /\ job[r].kind = "reassign" /\ pc[r] = "done" =>
                           /\ job[r].moved = Len(job[r].selected)
                           /\ \A i \in DOMAIN job[r].selected : Given(r, i) /\ Shown(r, i)
                      /\ job[r].kind = "reassign" /\ pc[r] = "rejected" => job[r].moved = 0
    BY DEF AnsweredIsDone, Given, Shown, Written, InLog
  <2>1. job[r].kind = "reassign" => job[r].selected \in Seq(Ids)
    BY KindOfJob DEF IInv, TypeOK, ReassignJob
  <2> QED BY <2>1 DEF AllTraced, Traced, AllTold, Told
<1> QED BY <1>1, AllAreTraced, AllAreTold, Invariance, PTL

-----------------------------------------------------------------------------
(* A request goes on, and ends.                                            *)

Unread(j) == Len(j.selected) - Len(j.from)
Unmoved(j) == Len(j.selected) - j.moved

\* How many statements a handler has before it at most, if none fails.
LeftAt(label, j) ==
  CASE label = "validate" -> 4
    [] label \in {"insert", "setStatus"} -> 3
    [] label \in {"logCreate", "logStatus"} -> 2
    [] label \in {"allocMail", "closeMail", "audit"} -> 1
    [] label = "check" -> Unread(j) + 2 * Len(j.selected) + 3
    [] label = "move" -> 2 * Unmoved(j) + 2
    [] label = "logMove" -> 2 * Unmoved(j) + 3
    [] OTHER -> 0

Left(r) == LeftAt(pc[r], job[r])

\* One of the failures a behaviour may have.
Spent == faults' = faults + 1 /\ faults' <= MaxFaults

LEMMA GaveUpSpends ==
  ASSUME IInv, NEW r \in Requests, GaveUp(r)
  PROVE  Spent
BY LifecycleConstants DEF GaveUp, Spent, IInv, TypeOK, ControlOK

LEMMA AppliedSpends ==
  ASSUME IInv, NEW r \in Requests, NEW label, NEW j, Applied(r, label, j)
  PROVE  Spent \/ (pc'[r] = label /\ job'[r] = j)
<1>1. CASE GaveUp(r)
  BY <1>1, GaveUpSpends
<1>2. CASE Resent(r)
  BY <1>2, LifecycleConstants DEF Resent, Spent, IInv, TypeOK, ControlOK
<1>3. CASE Answered(r, label, j)
  BY <1>3, AnsweredOutcome DEF IInv, TypeOK
<1> QED BY <1>1, <1>2, <1>3 DEF Applied

\* The loops of a reassignment are within its form.
LEMMA FormSizes ==
  ASSUME IInv, NEW r \in Requests, pc[r] \in ReassignPCs
  PROVE  /\ job[r] \in ReassignJob
         /\ Len(job[r].selected) \in Nat /\ Len(job[r].from) \in Nat /\ job[r].moved \in Nat
         /\ Unread(job[r]) \in Nat
         /\ pc[r] = "check" => job[r].moved = 0
         /\ pc[r] \in {"move", "logMove"} => Unmoved(job[r]) \in Nat
         /\ pc[r] = "move" => Unmoved(job[r]) > 0
<1>1. job[r] \in ReassignJob /\ JobFits(pc[r], job[r], ticket)
  BY DEF IInv, TypeOK, ControlOK, JobsFit
<1>2. Len(job[r].selected) \in Nat /\ Len(job[r].from) \in Nat /\ job[r].moved \in Nat
  BY <1>1 DEF ReassignJob
<1> QED BY <1>1, <1>2 DEF JobFits, Unread, Unmoved

LEMMA LeftIsNatural ==
  ASSUME IInv, NEW r \in Requests
  PROVE  Left(r) \in Nat
<1>1. CASE pc[r] \in ReassignPCs
  BY <1>1, FormSizes DEF Left, LeftAt
<1>2. CASE pc[r] \notin ReassignPCs
  BY <1>2 DEF Left, LeftAt, ReassignPCs
<1> QED BY <1>1, <1>2

LEMMA CreateUses ==
  ASSUME IInv, NEW r \in Requests,
         \/ CheckAssignee(r) \/ InsertTicket(r) \/ DuplicateTicket(r)
         \/ LogCreate(r) \/ AllocMail(r)
  PROVE  Spent \/ Left(r)' < Left(r)
<1>1. CASE GaveUp(r) \/ NotApplied(r)
  BY <1>1, GaveUpSpends DEF NotApplied
<1>2. CASE InsertTicket(r) /\ ~NotApplied(r)
  <2>1. PICK t \in Lowest(Ids \ Existing) :
          Applied(r, "logCreate", [job[r] EXCEPT !.id = t])
    BY <1>2 DEF InsertTicket
  <2>2. Spent \/ pc'[r] = "logCreate"
    BY <2>1, AppliedSpends
  <2> QED BY <1>2, <2>2 DEF InsertTicket, Left, LeftAt
<1>3. CASE DuplicateTicket(r) /\ ~GaveUp(r)
  <2>1. PICK s \in Existing : Answered(r, "done", [job[r] EXCEPT !.id = s])
    BY <1>3 DEF DuplicateTicket
  <2>2. pc'[r] = "done"
    BY <2>1, AnsweredOutcome DEF IInv, TypeOK
  <2> QED BY <1>3, <2>2 DEF DuplicateTicket, Left, LeftAt
<1>4. CASE LogCreate(r) /\ ~NotApplied(r)
  <2>1. Spent \/ pc'[r] = "allocMail"
    BY <1>4, AppliedSpends DEF LogCreate
  <2> QED BY <1>4, <2>1 DEF LogCreate, Left, LeftAt
<1>5. CASE AllocMail(r) /\ ~NotApplied(r)
  <2>1. pc'[r] = "done"
    BY <1>5, AnsweredOutcome, EndedOutcome DEF AllocMail, IInv, TypeOK
  <2> QED BY <1>5, <2>1 DEF AllocMail, Left, LeftAt
<1>6. CASE CheckAssignee(r)
  <2>1. pc[r] = "validate" /\ pc'[r] \in {"insert", "rejected", "failed"}
    BY <1>6, CheckAssigneeStep
  <2> QED BY <2>1 DEF Left, LeftAt
<1> QED BY <1>1, <1>2, <1>3, <1>4, <1>5, <1>6

LEMMA UpdateUses ==
  ASSUME IInv, NEW r \in Requests, SetStatus(r) \/ LogStatus(r) \/ CloseMail(r)
  PROVE  Spent \/ Left(r)' < Left(r)
<1>1. CASE NotApplied(r)
  BY <1>1, GaveUpSpends DEF NotApplied
<1>2. CASE SetStatus(r) /\ ~NotApplied(r)
  <2>1. Spent \/ pc'[r] = "logStatus"
    BY <1>2, AppliedSpends DEF SetStatus
  <2> QED BY <1>2, <2>1 DEF SetStatus, Left, LeftAt
<1>3. CASE LogStatus(r) /\ ~NotApplied(r)
  <2>1. Spent \/ pc'[r] \in {"closeMail", "done"}
    BY <1>3, AppliedSpends DEF LogStatus
  <2> QED BY <1>3, <2>1 DEF LogStatus, Left, LeftAt
<1>4. CASE CloseMail(r) /\ ~NotApplied(r)
  <2>1. pc'[r] = "done"
    BY <1>4, AnsweredOutcome, EndedOutcome DEF CloseMail, IInv, TypeOK
  <2> QED BY <1>4, <2>1 DEF CloseMail, Left, LeftAt
<1> QED BY <1>1, <1>2, <1>3, <1>4

LEMMA CheckUses ==
  ASSUME IInv, NEW r \in Requests, CheckTicket(r) \/ CheckDepartments(r)
  PROVE  Left(r)' < Left(r)
<1> DEFINE j == job[r]
<1>1. pc[r] = "check"
  BY DEF CheckTicket, CheckDepartments
<1>2. /\ j \in ReassignJob /\ Unread(j) \in Nat /\ Len(j.selected) \in Nat
      /\ Unmoved(j) = Len(j.selected) /\ Len(j.from) \in Nat
      /\ Left(r) = Unread(j) + 2 * Len(j.selected) + 3
  BY <1>1, FormSizes DEF Left, LeftAt, ReassignPCs, Unmoved
<1>3. CASE pc'[r] = "rejected"
  <2>1. Left(r)' = 0
    BY <1>3 DEF Left, LeftAt
  <2> QED BY <1>2, <2>1
<1>4. CASE CheckTicket(r) /\ pc'[r] # "rejected"
  <2>1. /\ pc'[r] = "check" /\ Len(job'[r].from) = Len(j.from) + 1
        /\ job'[r] = [j EXCEPT !.from = job'[r].from]
    BY <1>4, CheckStep
  <2>2. PICK f : f = job'[r].from
    OBVIOUS
  <2>3. job'[r].selected = j.selected
    BY <1>2, <2>1, <2>2 DEF ReassignJob
  <2>4. Unread(job'[r]) = Unread(j) - 1
    BY <1>2, <2>1, <2>3 DEF Unread
  <2>5. Left(r)' = Unread(job'[r]) + 2 * Len(j.selected) + 3
    BY <2>1, <2>3 DEF Left, LeftAt, Unread
  <2> QED BY <1>2, <2>4, <2>5
<1>5. CASE CheckDepartments(r) /\ pc'[r] # "rejected"
  <2>1. pc'[r] = "move" /\ job'[r] = j
    BY <1>5, AnsweredOutcome DEF CheckDepartments, IInv, TypeOK
  <2>2. Left(r)' = 2 * Unmoved(j) + 2
    BY <2>1 DEF Left, LeftAt, Unmoved
  <2> QED BY <1>2, <2>2
<1> QED BY <1>3, <1>4, <1>5

LEMMA MoveUses ==
  ASSUME IInv, NEW r \in Requests, MoveTicket(r) \/ LogMove(r) \/ Audit(r)
  PROVE  Spent \/ Left(r)' < Left(r)
<1> DEFINE j == job[r]
<1>1. CASE GaveUp(r) \/ NotApplied(r)
  BY <1>1, GaveUpSpends DEF NotApplied
<1>2. CASE MoveTicket(r) /\ ~NotApplied(r)
  <2> DEFINE k == [j EXCEPT !.moved = @ + 1]
  <2>1. Applied(r, "logMove", k) /\ j \in ReassignJob /\ pc[r] = "move"
    BY <1>2, MoveStep
  <2>2. k.selected = j.selected /\ k.moved = j.moved + 1
    BY <2>1 DEF ReassignJob
  <2>3. Unmoved(j) \in Nat /\ Unmoved(k) = Unmoved(j) - 1
    BY <2>1, <2>2, FormSizes DEF ReassignPCs, Unmoved
  <2> HIDE DEF k
  <2>4. Spent \/ (pc'[r] = "logMove" /\ job'[r] = k)
    BY <2>1, AppliedSpends
  <2>5. CASE pc'[r] = "logMove" /\ job'[r] = k
    <3>1. Left(r)' = 2 * Unmoved(k) + 3
      BY <2>5 DEF Left, LeftAt, Unmoved
    <3>2. Left(r) = 2 * Unmoved(j) + 2
      BY <2>1 DEF Left, LeftAt
    <3> QED BY <2>3, <3>1, <3>2
  <2> QED BY <2>4, <2>5
<1>3. CASE LogMove(r)
  <2>1. Left(r) = 2 * Unmoved(j) + 3 /\ Unmoved(j) \in Nat
    BY <1>3, FormSizes DEF LogMove, Left, LeftAt, ReassignPCs
  <2>2. \/ Spent
        \/ pc'[r] \in {"failed", "audit"}
        \/ pc'[r] = "move" /\ job'[r] = j
    BY <1>3, AppliedSpends, GaveUpSpends, AnsweredOutcome DEF LogMove, IInv, TypeOK
  <2>3. CASE pc'[r] \in {"failed", "audit"}
    <3>1. Left(r)' \in {0, 1}
      BY <2>3 DEF Left, LeftAt
    <3> QED BY <2>1, <3>1
  <2>4. CASE pc'[r] = "move" /\ job'[r] = j
    <3>1. Left(r)' = 2 * Unmoved(j) + 2
      BY <2>4 DEF Left, LeftAt, Unmoved
    <3> QED BY <2>1, <3>1
  <2> QED BY <2>2, <2>3, <2>4
<1>4. CASE Audit(r) /\ ~GaveUp(r)
  <2>1. pc'[r] = "done"
    BY <1>4, AnsweredOutcome, EndedOutcome DEF Audit, IInv, TypeOK
  <2> QED BY <1>4, <2>1 DEF Audit, Left, LeftAt
<1> QED BY <1>1, <1>2, <1>3, <1>4

\* Every step of a handler uses up one of the statements it had left, or one of the
\* failures there may be: no resend, duplicate or rejected ticket sends it back, and
\* no step of another request gives it more to do.  It is the reason that every
\* request a thread goes on with ends (RequestsEnd).
THEOREM StepsAreUsedUp ==
  Spec => [][\A r \in Requests :
               Step(r) => /\ Left(r) \in Nat /\ Left(r)' \in Nat
                          /\ Spent \/ Left(r)' < Left(r)
                          /\ \A q \in Requests \ {r} : Left(q)' = Left(q)]_vars
<1> DEFINE UsedUp == \A r \in Requests :
                       Step(r) => /\ Left(r) \in Nat /\ Left(r)' \in Nat
                                  /\ Spent \/ Left(r)' < Left(r)
                                  /\ \A q \in Requests \ {r} : Left(q)' = Left(q)
       Natural == \A r \in Requests : Left(r) \in Nat
<1>1. IInv => Natural
  BY LeftIsNatural
<1>2. IInv /\ Natural /\ Natural' /\ [Next]_vars => [UsedUp]_vars
  <2> SUFFICES ASSUME IInv, Natural, Natural', NEW r \in Requests, Step(r)
               PROVE  /\ Left(r) \in Nat /\ Left(r)' \in Nat
                      /\ Spent \/ Left(r)' < Left(r)
                      /\ \A q \in Requests \ {r} : Left(q)' = Left(q)
    OBVIOUS
  <2>1. Spent \/ Left(r)' < Left(r)
    BY CreateUses, UpdateUses, CheckUses, MoveUses DEF Step
  <2>2. \A q \in Requests \ {r} : Left(q)' = Left(q)
    BY StepFrame DEF OthersFrame, Left, LeftAt, Unread, Unmoved
  <2> QED BY <2>1, <2>2
<1> QED BY <1>1, <1>2, Invariance, PTL DEF Spec

-----------------------------------------------------------------------------
(* No request is left without a statement to run.                          *)

\* The requests on their way to an INSERT that uq_tickets_submission_key would let
\* in.  Each of them finds an id.
Inserting(label) == label \in {"validate", "insert"}
Hopeful == {r \in Requests : Inserting(pc[r]) /\ KeyFree(job[r].key)}
Free == Ids \ Existing
Roomy == Cardinality(Hopeful) <= Cardinality(Free)

\* What the statement at pc needs to be run: an id for the row, a ticket of the form
\* that is not read or written yet, or the end of the loop.
Ready(r) ==
  LET j == job[r]
  IN  /\ pc[r] = "insert" /\ KeyFree(j.key) => Lowest(Ids \ Existing) # {}
      /\ pc[r] = "check" => \/ Len(j.from) + 1 \in DOMAIN j.selected
                            \/ Len(j.from) = Len(j.selected)
      /\ pc[r] = "move" => j.moved + 1 \in DOMAIN j.selected

LEMMA RoomSizes ==
  /\ IsFiniteSet(Hopeful) /\ Cardinality(Hopeful) \in Nat
  /\ IsFiniteSet(Hopeful') /\ Cardinality(Hopeful') \in Nat
  /\ IsFiniteSet(Free) /\ Cardinality(Free) \in Nat
  /\ IsFiniteSet(Free') /\ Cardinality(Free') \in Nat
<1>1. IsFiniteSet(Hopeful) /\ IsFiniteSet(Hopeful')
  BY LifecycleConstants, FS_Subset DEF Hopeful
<1>2. IsFiniteSet(Free) /\ IsFiniteSet(Free')
  BY LifecycleConstants, FS_Subset DEF Free
<1> QED BY <1>1, <1>2, FS_CardinalityType

\* What a step does to the keys that are taken.
LEMMA StepKeys ==
  ASSUME IInv, NEW r \in Requests, Step(r)
  PROVE  /\ KeysKept
         /\ \/ Existing' = Existing
            \/ /\ pc[r] = "insert" /\ KeyFree(job[r].key)
               /\ \E t \in Free : Existing' = Existing \cup {t} /\ ticket'[t].key = job[r].key
<1> DEFINE j == job[r]
<1>1. CASE UNCHANGED ticket
  BY <1>1 DEF KeysKept, Existing
<1>2. CASE InsertTicket(r) /\ ~UNCHANGED ticket
  <2>1. PICK t \in Lowest(Ids \ Existing) : PutRow(t, NewRow(j))
    BY <1>2 DEF InsertTicket, NotApplied, tables
  <2>2. t \in Free /\ t \in Ids /\ NewRow(j).key = j.key
    BY <2>1 DEF Lowest, Free, NewRow
  <2>3. /\ Existing' = Existing \cup {t} /\ ticket'[t] = NewRow(j)
        /\ \A s \in Existing : ticket'[s] = ticket[s]
    BY <2>1, <2>2 DEF PutRow, Existing, Free
  <2> QED BY <1>2, <2>2, <2>3 DEF InsertTicket, KeysKept
<1>3. CASE SetStatus(r) /\ ~UNCHANGED ticket
  <2>1. PutRow(j.id, [ticket[j.id] EXCEPT !.status = j.to]) /\ pc[r] = "setStatus"
    BY <1>3 DEF SetStatus, NotApplied, tables
  <2>2. j.id \in Existing /\ ticket[j.id] \in Row
    BY <2>1 DEF IInv, TypeOK, TablesOK, ControlOK, UpdatePCs, UpdateJob, JobsFit,
            JobFits, Existing
  <2>3. [ticket[j.id] EXCEPT !.status = j.to].key = ticket[j.id].key
    BY <2>2 DEF Row
  <2> QED BY <2>1, <2>2, <2>3 DEF PutRow, KeysKept, Existing
<1>4. CASE MoveTicket(r) /\ ~UNCHANGED ticket
  <2> DEFINE t == j.selected[j.moved + 1]
  <2>1. PutRow(t, [ticket[t] EXCEPT !.assignee = j.dst]) /\ pc[r] = "move"
    BY <1>4 DEF MoveTicket, NotApplied, tables
  <2>2. t \in Existing /\ ticket[t] \in Row
    BY <2>1, MovedTicket
  <2> HIDE DEF t
  <2>3. [ticket[t] EXCEPT !.assignee = j.dst].key = ticket[t].key
    BY <2>2 DEF Row
  <2> QED BY <2>1, <2>2, <2>3 DEF PutRow, KeysKept, Existing
<1> QED
  BY <1>1, <1>2, <1>3, <1>4
     DEF Step, CheckAssignee, DuplicateTicket, LogCreate, AllocMail, LogStatus, CloseMail,
         CheckTicket, CheckDepartments, LogMove, Audit, NotApplied, tables

\* A key that is taken stays taken.
LEMMA FreeBefore ==
  ASSUME KeysKept, NEW k, KeyFree(k)'
  PROVE  KeyFree(k)
BY DEF KeysKept, KeyFree, Existing

\* Nobody comes to the INSERT but by arriving, and the key stays the same.
LEMMA StepAtInsert ==
  ASSUME IInv, NEW r \in Requests, Step(r), Inserting(pc'[r])
  PROVE  Inserting(pc[r]) /\ job'[r].key = job[r].key
<1>1. IInv'
  BY NextKeeps DEF Next
<1>2. pc[r] \in CreatePCs
  <2>1. job'[r].kind = "create" /\ job[r].kind = "create"
    BY <1>1, StepKind DEF IInv, TypeOK, ControlOK, CreatePCs, CreateJob, Inserting
  <2> QED BY <2>1, StepFrame
          DEF Running, IInv, TypeOK, ControlOK, CreatePCs, UpdateJob, ReassignJob
<1>3. CASE InsertTicket(r) /\ ~NotApplied(r)
  <2>1. PICK t \in Lowest(Ids \ Existing) :
          Applied(r, "logCreate", [job[r] EXCEPT !.id = t])
    BY <1>3 DEF InsertTicket
  <2> QED BY <1>3, <2>1, AppliedOutcome DEF InsertTicket, Outcome, Inserting, IInv, TypeOK
<1>4. CASE DuplicateTicket(r) /\ ~GaveUp(r)
  <2>1. PICK s \in Existing : Answered(r, "done", [job[r] EXCEPT !.id = s])
    BY <1>4 DEF DuplicateTicket
  <2> QED BY <2>1, AnsweredOutcome DEF Inserting, IInv, TypeOK
<1>5. CASE NotApplied(r) \/ GaveUp(r)
  BY <1>5, EndedOutcome DEF NotApplied, GaveUp, Inserting, IInv, TypeOK
<1>6. CASE LogCreate(r) \/ AllocMail(r)
  BY <1>6, AppliedOutcome, AnsweredOutcome, EndedOutcome
     DEF LogCreate, AllocMail, NotApplied, GaveUp, Outcome, Inserting, IInv, TypeOK
<1>7. CASE CheckAssignee(r)
  <2>1. pc[r] = "validate" /\ job[r] \in CreateJob
    BY <1>7, CheckAssigneeStep
  <2>2. PICK c : job'[r] = [job[r] EXCEPT !.checked = c]
    BY <1>7, CheckAssigneeStep
  <2> QED BY <2>1, <2>2 DEF CreateJob, Inserting
<1> QED BY <1>2, <1>3, <1>4, <1>5, <1>6, <1>7
        DEF Step, SetStatus, LogStatus, CloseMail, CheckTicket, CheckDepartments,
            MoveTicket, LogMove, Audit, CreatePCs

LEMMA StepRoom ==
  ASSUME IInv, Roomy, NEW r \in Requests, Step(r)
  PROVE  Roomy'
<1>1. KeysKept /\ OthersFrame(r)
  BY StepKeys, StepFrame
<1>2. Inserting(pc'[r]) => Inserting(pc[r]) /\ job'[r].key = job[r].key
  BY StepAtInsert
<1>3. Hopeful' \subseteq Hopeful
  <2> SUFFICES ASSUME NEW q \in Requests, Inserting(pc'[q]), KeyFree(job[q].key)'
               PROVE  Inserting(pc[q]) /\ KeyFree(job[q].key)
    BY DEF Hopeful
  <2>1. Inserting(pc[q]) /\ job'[q].key = job[q].key
    BY <1>1, <1>2 DEF OthersFrame
  <2>2. PICK k : k = job[q].key
    OBVIOUS
  <2>3. KeyFree(k)'
    BY <2>1, <2>2 DEF KeyFree
  <2> QED BY <1>1, <2>1, <2>2, <2>3, FreeBefore
<1>4. CASE Existing' = Existing
  <2>1. Free' = Free
    BY <1>4 DEF Free
  <2>2. Cardinality(Hopeful') <= Cardinality(Hopeful)
    BY <1>3, RoomSizes, FS_Subset
  <2> QED BY <2>1, <2>2, RoomSizes DEF Roomy
<1>5. CASE Existing' # Existing
  <2>1. /\ pc[r] = "insert" /\ KeyFree(job[r].key)
        /\ \E t \in Free : Existing' = Existing \cup {t} /\ ticket'[t].key = job[r].key
    BY <1>5, StepKeys
  <2>2. PICK t \in Free : Existing' = Existing \cup {t} /\ ticket'[t].key = job[r].key
    BY <2>1
  <2>3. Free' = Free \ {t}
    BY <2>2 DEF Free
  <2>4. r \in Hopeful /\ r \notin Hopeful'
    <3>1. Inserting(pc'[r]) => ~KeyFree(job[r].key)'
      BY <1>2, <2>2 DEF KeyFree, Existing
    <3> QED BY <2>1, <3>1 DEF Hopeful, Inserting
  <2>5. Hopeful' \subseteq Hopeful \ {r}
    BY <1>3, <2>4
  <2>6. /\ Cardinality(Hopeful \ {r}) = Cardinality(Hopeful) - 1
        /\ IsFiniteSet(Hopeful \ {r})
    BY <2>4, RoomSizes, FS_RemoveElement
  <2>7. Cardinality(Hopeful') <= Cardinality(Hopeful) - 1
    BY <2>5, <2>6, RoomSizes, FS_Subset
  <2>8. Cardinality(Free') = Cardinality(Free) - 1
    BY <2>3, RoomSizes, FS_RemoveElement
  <2> QED BY <2>7, <2>8, RoomSizes DEF Roomy
<1> QED BY <1>4, <1>5

LEMMA ArrivalRoom ==
  ASSUME IInv, Roomy, NEW r \in Requests, Arrive(r)
  PROVE  Roomy'
<1> DEFINE Before == {q \in Requests : Inserting(pc[q])}
<1>1. PICK label \in {"validate", "setStatus", "check"} :
        (label = "validate" => Room) /\ \E j : Start(r, label, j)
  BY DEF Arrive, StartCreate, StartUpdate, StartReassign
<1>2. /\ pc[r] = "idle" /\ pc'[r] = label /\ OthersFrame(r) /\ UNCHANGED ticket
  BY <1>1 DEF Start, Goto, IInv, TypeOK, ControlOK, OthersFrame, tables
<1>3. Free' = Free
  BY <1>2 DEF Free, Existing
<1>4. Hopeful' \subseteq Hopeful \cup {q \in {r} : label = "validate"}
  BY <1>2 DEF Hopeful, Inserting, OthersFrame, KeyFree, Existing
<1>5. CASE label # "validate"
  <2>1. Cardinality(Hopeful') <= Cardinality(Hopeful)
    BY <1>4, <1>5, RoomSizes, FS_Subset
  <2> QED BY <1>3, <2>1, RoomSizes DEF Roomy
<1>6. CASE label = "validate"
  <2>1. IsFiniteSet(Before) /\ Cardinality(Before) \in Nat
    BY LifecycleConstants, FS_Subset, FS_CardinalityType
  <2>2. Cardinality(Before) < Cardinality(Free)
    BY <1>1, <1>6 DEF Room, Free, Inserting
  <2>3. Hopeful' \subseteq Before \cup {r} /\ r \notin Before
    BY <1>2, <1>4 DEF Hopeful, Inserting
  <2>4. /\ Cardinality(Before \cup {r}) = Cardinality(Before) + 1
        /\ IsFiniteSet(Before \cup {r})
    BY <2>1, <2>3, FS_AddElement
  <2>5. Cardinality(Hopeful') <= Cardinality(Before) + 1
    BY <2>3, <2>4, RoomSizes, FS_Subset
  <2> QED BY <1>3, <2>1, <2>2, <2>5, RoomSizes DEF Roomy
<1> QED BY <1>5, <1>6

\* No handler waits for another one, and none is left in a loop or before an INSERT
\* with nothing to do: the statement at which it is can be run.  With StepsAreUsedUp
\* this is why every request that is served ends (RequestsEnd); the model's bound on
\* ids (Room) never holds a request up that was let in.
THEOREM NobodyIsStuck == Spec => [](\A r \in Requests : Ready(r))
<1>1. Init => Roomy
  <2> SUFFICES ASSUME Init PROVE Roomy
    OBVIOUS
  <2>1. Hopeful = {}
    BY DEF Init, Hopeful, Inserting
  <2> QED BY <2>1, RoomSizes, FS_EmptySet DEF Roomy
<1>2. IInv /\ Roomy /\ [Next]_vars => Roomy'
  <2> SUFFICES ASSUME IInv, Roomy, [Next]_vars PROVE Roomy'
    OBVIOUS
  <2>1. CASE UNCHANGED vars \/ Quiet
    BY <2>1 DEF Quiet, vars, tables, control, Roomy, Hopeful, Free, KeyFree, Existing
  <2> QED BY <2>1, ArrivalRoom, StepRoom DEF Next
<1>3. IInv /\ Roomy => \A r \in Requests : Ready(r)
  <2> SUFFICES ASSUME IInv, Roomy, NEW r \in Requests PROVE Ready(r)
    OBVIOUS
  <2>1. ASSUME pc[r] = "insert", KeyFree(job[r].key) PROVE Lowest(Ids \ Existing) # {}
    <3>1. r \in Hopeful
      BY <2>1 DEF Hopeful, Inserting
    <3>2. Cardinality(Hopeful) > 0
      BY <3>1, RoomSizes, FS_EmptySet
    <3>3. Free # {}
      BY <3>2, RoomSizes, FS_EmptySet DEF Roomy
    <3> QED BY <3>3, LowestExists, LifecycleConstants DEF Free
  <2>2. ASSUME pc[r] = "check"
        PROVE  \/ Len(job[r].from) + 1 \in DOMAIN job[r].selected
               \/ Len(job[r].from) = Len(job[r].selected)
    BY <2>2, FormSizes DEF ReassignPCs, ReassignJob, Unread
  <2>3. ASSUME pc[r] = "move" PROVE job[r].moved + 1 \in DOMAIN job[r].selected
    BY <2>3, FormSizes DEF ReassignPCs, ReassignJob, Unmoved
  <2> QED BY <2>1, <2>2, <2>3 DEF Ready
<1> QED BY <1>1, <1>2, <1>3, Invariance, PTL DEF Spec

-----------------------------------------------------------------------------
(* Why a reassignment breaks off.                                          *)

\* The ticket a reassignment is at, and whether its form named it before.
AtHand(j) == j.selected[j.moved]
Repeated(j) == \E i \in 1 .. (j.moved - 1) : j.selected[i] = AtHand(j)

\* q has handed ticket t over for u.
Hands(q, u, t) == job[q].kind = "reassign" /\ job[q].actor = u /\ t \in Moved(job[q])

\* The row of the timeline that q wrote of a ticket it handed over.  It is there
\* before q has been told so only if a statement has failed, or it is the row of
\* the same ticket at an earlier place of the form.
Owed(row, q) ==
  /\ Hands(q, row.by, row.id)
  /\ pc[q] = "logMove" /\ AtHand(job[q]) = row.id => faults > 0 \/ Repeated(job[q])

\* Only a reassignment writes a row that leaves the status as it was.
LinesOwed ==
  \A i \in DOMAIN activity : activity[i].from = activity[i].to =>
    \E q \in Requests : Owed(activity[i], q)

BrokenOff(r) ==
  pc[r] = "failed" /\ job[r].kind = "reassign" =>
    \/ faults > 0
    \/ /\ job[r].moved \in DOMAIN job[r].selected
       /\ \/ Repeated(job[r])
          \/ \E q \in Requests \ {r} : Hands(q, job[r].actor, AtHand(job[r]))

Differs(r) == /\ pc[r] = "idle" => job[r] = NoJob
              /\ pc[r] \in {"setStatus", "logStatus"} => job[r].from # job[r].to

BreakInv == LinesOwed /\ \A r \in Requests : BrokenOff(r) /\ Differs(r)

\* What a reassignment has handed over, it has handed over for good.
LEMMA HandsStay ==
  ASSUME IInv, NEW r \in Requests, Step(r), NEW q \in Requests, NEW u, NEW t, Hands(q, u, t)
  PROVE  Hands(q, u, t)'
<1>1. CASE q # r
  BY <1>1, StepFrame DEF OthersFrame, Hands
<1>2. CASE q = r
  <2>1. job[r] \in ReassignJob /\ job'[r].kind = "reassign"
    BY <1>2, StepKind, KindOfJob DEF Hands, IInv, TypeOK
  <2>2. CASE job'[r] = job[r]
    BY <1>2, <2>2 DEF Hands
  <2>3. CASE CheckTicket(r) /\ job'[r] # job[r]
    <3>1. PICK f : job'[r] = [job[r] EXCEPT !.from = f]
      BY <2>3, CheckStep
    <3>2. /\ job'[r].actor = job[r].actor /\ job'[r].moved = job[r].moved
          /\ job'[r].selected = job[r].selected
      BY <2>1, <3>1 DEF ReassignJob
    <3> QED BY <1>2, <2>1, <3>2 DEF Hands, Moved
  <2>4. CASE MoveTicket(r) /\ job'[r] # job[r]
    <3>1. job'[r] = [job[r] EXCEPT !.moved = @ + 1]
      BY <2>4, MoveStep DEF Outcome
    <3>2. /\ job'[r].actor = job[r].actor /\ job'[r].moved = job[r].moved + 1
          /\ job'[r].selected = job[r].selected /\ job[r].moved \in Nat
      BY <2>1, <3>1 DEF ReassignJob
    <3> QED BY <1>2, <2>1, <3>2 DEF Hands, Moved
  <2>5. ASSUME CheckAssignee(r) \/ InsertTicket(r) \/ DuplicateTicket(r) PROVE FALSE
    BY <2>1, <2>5 DEF CheckAssignee, InsertTicket, DuplicateTicket, IInv, TypeOK,
            ControlOK, CreatePCs,
                      CreateJob, ReassignJob
  <2>6. CASE \/ LogCreate(r) \/ AllocMail(r) \/ SetStatus(r) \/ LogStatus(r) \/ CloseMail(r)
             \/ CheckDepartments(r) \/ LogMove(r) \/ Audit(r)
    <3>1. job'[r] = job[r]
      BY <2>6, AppliedOutcome, AnsweredOutcome, EndedOutcome
         DEF LogCreate, AllocMail, SetStatus, LogStatus, CloseMail, CheckDepartments,
             LogMove, Audit, NotApplied, GaveUp, Outcome, IInv, TypeOK
    <3> QED BY <2>2, <3>1
  <2> QED BY <2>2, <2>3, <2>4, <2>5, <2>6 DEF Step
<1> QED BY <1>1, <1>2

\* A request comes to the row of a ticket by handing it over, or stays there when
\* the row was written and the answer lost.
LEMMA StepToLog ==
  ASSUME IInv, NEW r \in Requests, Step(r), pc'[r] = "logMove"
  PROVE  \/ faults' > 0
         \/ job[r] \in ReassignJob /\ job'[r] = [job[r] EXCEPT !.moved = @ + 1]
<1>0. faults \in Nat
  BY DEF IInv, TypeOK, ControlOK
<1>1. CASE MoveTicket(r)
  <2> DEFINE k == [job[r] EXCEPT !.moved = @ + 1]
  <2>1. job[r] \in ReassignJob /\ Applied(r, "logMove", k)
    BY <1>1, MoveStep
  <2>2. CASE Resent(r) \/ GaveUp(r)
    BY <1>0, <2>2 DEF Resent, GaveUp
  <2>3. CASE Answered(r, "logMove", k)
    BY <2>1, <2>3, AnsweredOutcome DEF IInv, TypeOK
  <2> QED BY <2>1, <2>2, <2>3 DEF Applied
<1>2. CASE LogMove(r)
  <2>1. faults' = faults + 1
    BY <1>2, AnsweredOutcome DEF LogMove, Applied, Resent, GaveUp, IInv, TypeOK
  <2> QED BY <1>0, <2>1
<1>3. CASE ~MoveTicket(r) /\ ~LogMove(r)
  <2>1. pc[r] # "logMove"
    BY <1>3 DEF Step, CheckAssignee, InsertTicket, DuplicateTicket, LogCreate,
            AllocMail, SetStatus, LogStatus,
                CloseMail, CheckTicket, CheckDepartments, Audit
  <2>2. ASSUME NEW label \in PCs \ {"logMove"}, NEW j,
               Applied(r, label, j) \/ Answered(r, label, j) \/ (Goto(r, label) /\ job' = job)
        PROVE  FALSE
    BY <2>1, <2>2, AppliedOutcome, AnsweredOutcome, EndedOutcome DEF Outcome, IInv, TypeOK
  <2>3. ~NotApplied(r) /\ ~GaveUp(r)
    BY EndedOutcome DEF NotApplied, GaveUp, IInv, TypeOK
  <2>4. CASE InsertTicket(r) \/ DuplicateTicket(r) \/ LogCreate(r) \/ AllocMail(r)
    BY <2>2, <2>3, <2>4
       DEF InsertTicket, DuplicateTicket, LogCreate, AllocMail, PCs, CreatePCs, EndPCs
  <2>5. CASE SetStatus(r) \/ LogStatus(r) \/ CloseMail(r)
    BY <2>2, <2>3, <2>5 DEF SetStatus, LogStatus, CloseMail, PCs, UpdatePCs, EndPCs
  <2>6. CASE CheckTicket(r) \/ CheckDepartments(r) \/ Audit(r)
    BY <2>2, <2>3, <2>6 DEF CheckTicket, CheckDepartments, Audit, PCs, ReassignPCs, EndPCs
  <2>7. CASE CheckAssignee(r)
    BY <2>7, CheckAssigneeStep
  <2> QED BY <1>3, <2>4, <2>5, <2>6, <2>7 DEF Step
<1> QED BY <1>1, <1>2, <1>3

\* A request ends with an error because a statement failed, or because the row of
\* the ticket it handed over is in the timeline already.
LEMMA StepToFailed ==
  ASSUME IInv, NEW r \in Requests, Step(r), pc'[r] = "failed"
  PROVE  \/ faults' > 0
         \/ /\ pc[r] = "logMove" /\ job'[r] = job[r]
            /\ Logged(MoveRow(job[r], job[r].moved))
<1>0. faults \in Nat
  BY DEF IInv, TypeOK, ControlOK
<1>1. CASE LogMove(r)
  <2> DEFINE j == job[r]
             row == MoveRow(j, j.moved)
  <2>1. CASE Logged(row) /\ Answered(r, "failed", j)
    BY <1>1, <2>1, AnsweredOutcome DEF LogMove, IInv, TypeOK
  <2>2. CASE Applied(r, IF j.moved = Len(j.selected) THEN "audit" ELSE "move", j) \/ GaveUp(r)
    <3>1. faults' = faults + 1
      BY <1>1, <2>2, AnsweredOutcome DEF LogMove, Applied, Resent, GaveUp, IInv, TypeOK
    <3> QED BY <1>0, <3>1
  <2> QED BY <1>1, <2>1, <2>2 DEF LogMove
<1>2. CASE ~LogMove(r)
  <2>1. CASE faults' = faults + 1
    BY <1>0, <2>1
  <2>2. ASSUME NEW label \in PCs \ {"failed"}, NEW j, Answered(r, label, j)
        PROVE  FALSE
    BY <2>2, AnsweredOutcome DEF IInv, TypeOK
  <2>3. CASE InsertTicket(r) \/ DuplicateTicket(r) \/ LogCreate(r) \/ AllocMail(r)
    BY <2>1, <2>2, <2>3
       DEF InsertTicket, DuplicateTicket, LogCreate, AllocMail, NotApplied, GaveUp,
               Applied, Resent,
           PCs, CreatePCs, EndPCs
  <2>4. CASE SetStatus(r) \/ LogStatus(r) \/ CloseMail(r)
    BY <2>1, <2>2, <2>4
       DEF SetStatus, LogStatus, CloseMail, NotApplied, GaveUp, Applied, Resent, PCs,
               UpdatePCs,
           EndPCs
  <2>5. CASE CheckTicket(r) \/ CheckDepartments(r) \/ MoveTicket(r) \/ Audit(r)
    BY <2>1, <2>2, <2>5
       DEF CheckTicket, CheckDepartments, MoveTicket, Audit, NotApplied, GaveUp,
               Applied, Resent,
           PCs, ReassignPCs, EndPCs
  <2>6. CASE CheckAssignee(r)
    BY <2>1, <2>2, <2>6 DEF CheckAssignee, GaveUp, PCs, CreatePCs, EndPCs
  <2> QED BY <1>2, <2>3, <2>4, <2>5, <2>6 DEF Step
<1> QED BY <1>1, <1>2

\* The row a step adds to the timeline: one that changes the status, or the one of
\* the ticket a reassignment has handed over.
LEMMA StepLine ==
  ASSUME IInv, NEW r \in Requests, Step(r), Differs(r), NEW i \in DOMAIN activity',
         activity'[i].from = activity'[i].to
  PROVE  \/ i \in DOMAIN activity /\ activity'[i] = activity[i]
         \/ /\ LogMove(r) /\ activity'[i].by = job[r].actor
            /\ activity'[i].id = AtHand(job[r])
<1> DEFINE j == job[r]
<1>1. CASE i \in DOMAIN activity
  BY <1>1, StepLines DEF LinesKept
<1>2. ASSUME NEW row, row \in LogRows, activity' = Append(activity, row), i \notin DOMAIN activity
      PROVE  activity'[i] = row
  <2>1. activity \in Seq(LogRows)
    BY DEF IInv, TypeOK, TablesOK, LogRows
  <2> QED BY <1>2, <2>1
<1>3. CASE LogCreate(r) /\ i \notin DOMAIN activity
  <2>1. PutLog(LogRow(j.id, j.actor, "NULL", "PENDING")) /\ pc[r] = "logCreate"
    BY <1>3 DEF LogCreate, NotApplied, tables
  <2>2. j \in CreateJob /\ j.id \in Ids
    BY <2>1 DEF IInv, JobsFit, JobFits, TypeOK, TablesOK, ControlOK, Existing, CreatePCs
  <2>3. PICK row \in LogRows : row = LogRow(j.id, j.actor, "NULL", "PENDING")
    BY <2>2, LogRowType DEF CreateJob, Statuses
  <2>4. activity' = Append(activity, row)
    BY <1>3, <2>1, <2>3 DEF PutLog
  <2>5. activity'[i] = row
    BY <1>2, <1>3, <2>4
  <2> QED BY <2>3, <2>5 DEF LogRow
<1>4. CASE LogStatus(r) /\ i \notin DOMAIN activity
  <2>1. PutLog(LogRow(j.id, j.actor, j.from, j.to)) /\ pc[r] = "logStatus"
    BY <1>4 DEF LogStatus, NotApplied, tables
  <2>2. j \in UpdateJob
    BY <2>1 DEF IInv, TypeOK, ControlOK, UpdatePCs
  <2>3. PICK row \in LogRows : row = LogRow(j.id, j.actor, j.from, j.to)
    BY <2>2, LogRowType DEF UpdateJob
  <2>4. activity' = Append(activity, row)
    BY <1>4, <2>1, <2>3 DEF PutLog
  <2>5. activity'[i] = row
    BY <1>2, <1>4, <2>4
  <2>6. j.from # j.to
    BY <2>1 DEF Differs
  <2> QED BY <2>3, <2>5, <2>6 DEF LogRow
<1>5. CASE LogMove(r) /\ i \notin DOMAIN activity
  <2>1. activity' = Append(activity, MoveRow(j, j.moved)) /\ pc[r] = "logMove"
    BY <1>5 DEF LogMove
  <2>2. PICK row \in LogRows : row = MoveRow(j, j.moved)
    BY <2>1, RowAtHand
  <2>3. activity'[i] = row
    BY <1>2, <1>5, <2>1, <2>2
  <2> QED BY <1>5, <2>2, <2>3 DEF MoveRow, LogRow, AtHand
<1>6. CASE activity' = activity
  BY <1>6
<1> QED
  BY <1>1, <1>3, <1>4, <1>5, <1>6
     DEF Step, CheckAssignee, InsertTicket, DuplicateTicket, AllocMail, SetStatus,
             CloseMail,
         CheckTicket, CheckDepartments, MoveTicket, Audit, NotApplied, tables

LEMMA StepOwed ==
  ASSUME IInv, LinesOwed, NEW r \in Requests, Step(r), Differs(r)
  PROVE  LinesOwed'
<1>0. /\ faults \in Nat /\ faults <= faults' /\ faults' \in Nat
  BY StepMails, NextKeeps DEF MailsKept, Next, IInv, TypeOK, ControlOK
<1> SUFFICES ASSUME NEW i \in DOMAIN activity', activity'[i].from = activity'[i].to
             PROVE  \E q \in Requests : Owed(activity[i], q)'
  BY DEF LinesOwed
<1>1. CASE i \in DOMAIN activity /\ activity'[i] = activity[i]
  <2>1. PICK u, t : u = activity[i].by /\ t = activity[i].id
    OBVIOUS
  <2>2. PICK q \in Requests : Owed(activity[i], q)
    BY <1>1 DEF LinesOwed
  <2>3. Hands(q, u, t) /\ Hands(q, u, t)'
    BY <2>1, <2>2, HandsStay DEF Owed
  <2>4. pc'[q] = "logMove" /\ AtHand(job'[q]) = t => faults' > 0 \/ Repeated(job'[q])
    <3>1. CASE q # r
      BY <1>0, <2>1, <2>2, <3>1, StepFrame DEF OthersFrame, Owed, AtHand, Repeated
    <3>2. CASE q = r /\ pc'[r] = "logMove" /\ AtHand(job'[r]) = t /\ ~(faults' > 0)
      <4>1. job[r] \in ReassignJob /\ job'[r] = [job[r] EXCEPT !.moved = @ + 1]
        BY <3>2, StepToLog
      <4>2. /\ job'[r].selected = job[r].selected /\ job'[r].moved = job[r].moved + 1
            /\ job[r].moved \in Nat
        BY <4>1 DEF ReassignJob
      <4>3. PICK n \in 1 .. job[r].moved : job[r].selected[n] = t
        BY <2>3, <3>2 DEF Hands, Moved
      <4> QED BY <3>2, <4>2, <4>3 DEF Repeated, AtHand
    <3> QED BY <3>1, <3>2
  <2> QED BY <1>1, <2>1, <2>3, <2>4 DEF Owed, Hands, AtHand, Repeated
<1>2. CASE LogMove(r) /\ activity'[i].by = job[r].actor /\ activity'[i].id = AtHand(job[r])
  <2>1. /\ pc[r] = "logMove" /\ job[r] \in ReassignJob /\ job[r].moved \in Nat
        /\ job[r].moved \in 1 .. job[r].moved
    <3>1. pc[r] = "logMove"
      BY <1>2 DEF LogMove
    <3>2. job[r] \in ReassignJob /\ job[r].moved \in DOMAIN job[r].selected
      BY <3>1, RowAtHand
    <3> QED BY <3>1, <3>2 DEF ReassignJob
  <2>2. job'[r] = job[r]
    BY <1>2, AppliedOutcome, AnsweredOutcome, EndedOutcome
       DEF LogMove, GaveUp, Outcome, IInv, TypeOK
  <2>3. pc'[r] = "logMove" => faults' > 0
    <3>1. job'[r] # [job[r] EXCEPT !.moved = @ + 1]
      BY <2>1, <2>2 DEF ReassignJob
    <3> QED BY <3>1, StepToLog
  <2>4. job[r].kind = "reassign" /\ AtHand(job[r]) \in Moved(job[r])
    BY <2>1 DEF ReassignJob, Moved, AtHand
  <2> QED BY <1>2, <2>2, <2>3, <2>4 DEF Owed, Hands, AtHand, Moved
<1> QED BY <1>1, <1>2, StepLine

LEMMA StepBreaks ==
  ASSUME IInv, LinesOwed, NEW r \in Requests, Step(r), NEW q \in Requests, BrokenOff(q)
  PROVE  BrokenOff(q)'
<1>0. faults \in Nat /\ faults <= faults' /\ faults' \in Nat
  BY StepMails, NextKeeps DEF MailsKept, Next, IInv, TypeOK, ControlOK
<1>1. CASE q # r
  <2>1. pc'[q] = pc[q] /\ job'[q] = job[q]
    BY <1>1, StepFrame DEF OthersFrame
  <2>2. ASSUME NEW p \in Requests, Hands(p, job[q].actor, AtHand(job[q]))
        PROVE  Hands(p, job[q].actor, AtHand(job[q]))'
    <3>1. PICK u, t : u = job[q].actor /\ t = AtHand(job[q])
      OBVIOUS
    <3>2. Hands(p, u, t)'
      BY <2>2, <3>1, HandsStay
    <3> QED BY <2>1, <3>1, <3>2 DEF Hands, AtHand
  <2> QED BY <1>0, <2>1, <2>2 DEF BrokenOff, Repeated, AtHand
<1>2. CASE q = r /\ pc'[r] = "failed" /\ ~(faults' > 0)
  <2> DEFINE j == job[r]
             row == MoveRow(j, j.moved)
  <2>1. pc[r] = "logMove" /\ job'[r] = j /\ Logged(row) /\ ~(faults > 0)
    BY <1>0, <1>2, StepToFailed
  <2>2. PICK i \in DOMAIN activity : activity[i] = row
    BY <2>1 DEF Logged
  <2>3. row.from = row.to /\ row.by = j.actor /\ row.id = AtHand(j)
    BY DEF MoveRow, LogRow, AtHand
  <2>4. PICK p \in Requests : Owed(row, p)
    BY <2>2, <2>3 DEF LinesOwed
  <2>5. j.moved \in DOMAIN j.selected
    BY <2>1, RowAtHand
  <2>6. CASE p = r
    <3>1. Repeated(j)
      BY <2>1, <2>3, <2>4, <2>6 DEF Owed
    <3> QED BY <1>2, <2>1, <2>5, <3>1 DEF BrokenOff, Repeated, AtHand
  <2>7. CASE p # r
    <3>1. Hands(p, j.actor, AtHand(j))
      BY <2>3, <2>4 DEF Owed
    <3>2. Hands(p, j.actor, AtHand(j))'
      BY <2>1, <2>7, <3>1, StepFrame DEF Hands, OthersFrame, AtHand
    <3> QED BY <1>2, <2>1, <2>5, <2>7, <3>2 DEF BrokenOff, Hands, AtHand
  <2> QED BY <2>6, <2>7
<1> QED BY <1>1, <1>2 DEF BrokenOff

LEMMA StepDiffers ==
  ASSUME IInv, NEW r \in Requests, Step(r), NEW q \in Requests, Differs(q)
  PROVE  Differs(q)'
<1>1. CASE q # r
  BY <1>1, StepFrame DEF OthersFrame, Differs
<1>2. CASE q = r /\ (SetStatus(r) \/ LogStatus(r))
  <2>1. pc[r] \in {"setStatus", "logStatus"}
    BY <1>2 DEF SetStatus, LogStatus
  <2>2. job'[r] = job[r] /\ pc'[r] # "idle"
    BY <1>2, AppliedOutcome, EndedOutcome
       DEF SetStatus, LogStatus, NotApplied, GaveUp, Outcome, IInv, TypeOK
  <2> QED BY <1>2, <2>1, <2>2 DEF Differs
<1>3. CASE q = r /\ ~SetStatus(r) /\ ~LogStatus(r)
  <2>1. Running(r) /\ pc[r] \notin {"setStatus", "logStatus"}
    BY <1>3, StepFrame
       DEF Step, CheckAssignee, InsertTicket, DuplicateTicket, LogCreate, AllocMail,
               CloseMail,
           CheckTicket, CheckDepartments, MoveTicket, LogMove, Audit
  <2>2. ASSUME NEW label \in PCs \ {"idle", "setStatus", "logStatus"}, NEW j,
               \/ Applied(r, label, j) \/ Answered(r, label, j) \/ GaveUp(r)
               \/ (Goto(r, label) /\ job' = job)
        PROVE  pc'[r] \notin {"idle", "setStatus", "logStatus"}
    <3>1. pc[r] \notin {"idle", "setStatus", "logStatus"}
      BY <2>1 DEF Running, CreatePCs, UpdatePCs, ReassignPCs
    <3> QED BY <2>2, <3>1, AppliedOutcome, AnsweredOutcome, EndedOutcome
            DEF Outcome, GaveUp, IInv, TypeOK
  <2>3. CASE NotApplied(r) \/ GaveUp(r)
    BY <1>3, <2>3, EndedOutcome DEF NotApplied, GaveUp, Differs, IInv, TypeOK
  <2>4. pc'[r] \notin {"idle", "setStatus", "logStatus"}
    <3>1. CASE InsertTicket(r) \/ DuplicateTicket(r) \/ LogCreate(r) \/ AllocMail(r)
      BY <2>2, <2>3, <3>1, EndedOutcome
         DEF InsertTicket, DuplicateTicket, LogCreate, AllocMail, PCs, CreatePCs, EndPCs,
             NotApplied, GaveUp, IInv, TypeOK
    <3>2. CASE CloseMail(r)
      BY <2>2, <2>3, <3>2, EndedOutcome
         DEF CloseMail, PCs, EndPCs, NotApplied, GaveUp, IInv, TypeOK
    <3>3. CASE CheckTicket(r) \/ CheckDepartments(r) \/ MoveTicket(r)
      BY <2>2, <2>3, <3>3, EndedOutcome
         DEF CheckTicket, CheckDepartments, MoveTicket, PCs, ReassignPCs, EndPCs,
             NotApplied, GaveUp, IInv, TypeOK
    <3>4. CASE LogMove(r) \/ Audit(r)
      BY <2>2, <2>3, <3>4, EndedOutcome
         DEF LogMove, Audit, PCs, ReassignPCs, EndPCs, NotApplied, GaveUp, IInv, TypeOK
    <3>5. CASE CheckAssignee(r)
      BY <3>5, CheckAssigneeStep
    <3> QED BY <1>3, <3>1, <3>2, <3>3, <3>4, <3>5 DEF Step
  <2> QED BY <1>3, <2>4 DEF Differs
<1> QED BY <1>1, <1>2, <1>3

\* A request that arrives had handed nothing over, and only an allowed transition
\* is taken up.
LEMMA ArrivalBreaks ==
  ASSUME IInv, BreakInv, NEW r \in Requests, Arrive(r)
  PROVE  BreakInv'
<1>1. PICK label \in {"validate", "setStatus", "check"} : \E j :
        /\ Start(r, label, j)
        /\ label = "setStatus" => j.from # j.to
  <2>1. CASE StartUpdate(r)
    <3>1. PICK u \in Users, t \in Existing, raw \in RawStatuses :
            /\ MayUpdate(u, ticket[t], Normalised(raw))
            /\ Start(r, "setStatus",
                     [kind |-> "update", actor |-> u, id |-> t,
                      from |-> ticket[t].status, to |-> Normalised(raw)])
      BY <2>1 DEF StartUpdate
    <3>2. ticket[t].status # Normalised(raw)
      BY <3>1 DEF MayUpdate, ALLOWED_TRANSITIONS
    <3> QED BY <3>1, <3>2
  <2>2. CASE StartCreate(r)
    BY <2>2 DEF StartCreate
  <2>3. CASE StartReassign(r)
    BY <2>3 DEF StartReassign
  <2> QED BY <2>1, <2>2, <2>3 DEF Arrive
<1>2. PICK j : Start(r, label, j) /\ (label = "setStatus" => j.from # j.to)
  BY <1>1
<1>3. /\ pc[r] = "idle" /\ pc'[r] = label /\ job'[r] = j /\ OthersFrame(r)
      /\ UNCHANGED <<activity, faults>>
  BY <1>2 DEF Start, Goto, IInv, TypeOK, ControlOK, OthersFrame, tables
<1>4. \A u, t : ~Hands(r, u, t)
  BY <1>3 DEF BreakInv, Differs, Hands, NoJob
<1>5. ASSUME NEW q \in Requests, NEW u, NEW t, Hands(q, u, t)
      PROVE  q # r /\ Hands(q, u, t)'
  BY <1>3, <1>4, <1>5 DEF Hands, OthersFrame
<1>6. LinesOwed'
  <2> SUFFICES ASSUME NEW i \in DOMAIN activity, activity[i].from = activity[i].to
               PROVE  \E q \in Requests : Owed(activity[i], q)'
    BY <1>3 DEF LinesOwed, Owed, Hands, AtHand, Repeated
  <2>1. PICK q \in Requests : Owed(activity[i], q)
    BY DEF BreakInv, LinesOwed
  <2>2. q # r
    BY <1>4, <2>1 DEF Owed
  <2> QED BY <1>3, <2>1, <2>2 DEF Owed, Hands, OthersFrame, AtHand, Repeated
<1>7. ASSUME NEW q \in Requests PROVE BrokenOff(q)' /\ Differs(q)'
  <2>1. CASE q = r
    BY <1>1, <1>2, <1>3, <2>1 DEF BrokenOff, Differs
  <2>2. CASE q # r
    <3>1. pc'[q] = pc[q] /\ job'[q] = job[q] /\ BrokenOff(q) /\ Differs(q)
      BY <1>3, <2>2 DEF OthersFrame, BreakInv
    <3>2. \A p \in Requests : Hands(p, job[q].actor, AtHand(job[q])) =>
            p # r /\ job'[p] = job[p]
      BY <1>3, <1>4 DEF OthersFrame
    <3> QED BY <1>3, <3>1, <3>2 DEF BrokenOff, Differs, Hands, AtHand, Repeated
  <2> QED BY <2>1, <2>2
<1> QED BY <1>6, <1>7 DEF BreakInv

LEMMA BreaksExplained == Spec => []BreakInv
<1>1. Init => BreakInv
  BY DEF Init, BreakInv, LinesOwed, BrokenOff, Differs
<1>2. IInv /\ BreakInv /\ [Next]_vars => BreakInv'
  <2> SUFFICES ASSUME IInv, BreakInv, [Next]_vars PROVE BreakInv'
    OBVIOUS
  <2>1. CASE UNCHANGED vars \/ Quiet
    BY <2>1 DEF Quiet, vars, tables, control, BreakInv, LinesOwed, Owed, BrokenOff,
            Differs, Hands,
                AtHand, Repeated
  <2>2. ASSUME NEW r \in Requests, Arrive(r) PROVE BreakInv'
    BY <2>2, ArrivalBreaks
  <2>3. ASSUME NEW r \in Requests, Step(r) PROVE BreakInv'
    BY <2>3, StepOwed, StepBreaks, StepDiffers DEF BreakInv
  <2> QED BY <2>1, <2>2, <2>3 DEF Next
<1> QED BY <1>1, <1>2, Invariance, PTL DEF Spec

\* A reassignment breaks off for three reasons only: a statement has failed, its
\* manager has handed over the ticket it is at with another request too, or its form
\* names that ticket twice.
BrokenOffHasCause ==
  \A r \in Requests : job[r].kind = "reassign" /\ pc[r] = "failed" =>
    \/ faults > 0
    \/ \E q \in Requests \ {r} : /\ job[q].kind = "reassign"
                                 /\ job[q].actor = job[r].actor
                                 /\ AtHand(job[r]) \in Moved(job[q])
    \/ Repeated(job[r])

\* A reassignment that breaks off half way met a failing statement, or a row of the
\* timeline of the same ticket by the same manager: from another of his requests, or
\* from an earlier place of its own form, which may repeat an id.  uq_activity_dedup
\* refuses the second row, and reassign_tickets does not swallow that as the other
\* handlers do.
THEOREM BreaksHaveCause == Spec => []BrokenOffHasCause
<1>1. BreakInv => BrokenOffHasCause
  BY DEF BreakInv, BrokenOff, Hands, BrokenOffHasCause
<1> QED BY <1>1, BreaksExplained, PTL

\* No manager hands the same ticket over with two requests, or twice with one.
HandedOverOnce ==
  /\ \A q, r \in Requests : q # r /\ job[q].kind = "reassign" /\ job[r].kind = "reassign"
       /\ job[q].actor = job[r].actor => Moved(job[q]) \cap Picked(job[r]) = {}
  /\ \A r \in Requests : job[r].kind = "reassign" =>
       \A i, k \in DOMAIN job[r].selected : job[r].selected[i] = job[r].selected[k] => i = k

\* As long as no statement fails and no manager hands a ticket over twice, be it in
\* one form, what the comment "Atomic Execution" in reassign_tickets says is so: a
\* reassignment that has ended moved all its tickets or none.
THEOREM AtomicUnlessDisturbed ==
  Spec => [](faults = 0 /\ HandedOverOnce => ReassignIsAtomic)
<1>1. IInv /\ BreakInv /\ AnsweredIsDone /\ faults = 0 /\ HandedOverOnce => ReassignIsAtomic
  <2> SUFFICES ASSUME IInv, BreakInv, AnsweredIsDone, faults = 0, HandedOverOnce,
                      NEW r \in Requests, job[r].kind = "reassign", pc[r] \in EndPCs
               PROVE  Moved(job[r]) \in {{}, Picked(job[r])}
    BY DEF ReassignIsAtomic
  <2>1. job[r].selected \in Seq(Ids) /\ job[r].moved \in Nat
    BY KindOfJob DEF IInv, TypeOK, ReassignJob
  <2>2. pc[r] # "failed"
    <3> SUFFICES ASSUME pc[r] = "failed" PROVE FALSE
      OBVIOUS
    <3>1. /\ job[r].moved \in DOMAIN job[r].selected
          /\ \/ Repeated(job[r])
             \/ \E q \in Requests \ {r} : Hands(q, job[r].actor, AtHand(job[r]))
      BY DEF BreakInv, BrokenOff
    <3>2. CASE Repeated(job[r])
      <4>1. PICK i \in 1 .. (job[r].moved - 1) : job[r].selected[i] = job[r].selected[job[r].moved]
        BY <3>2 DEF Repeated, AtHand
      <4>2. i \in DOMAIN job[r].selected /\ i # job[r].moved
        BY <2>1, <3>1, <4>1
      <4> QED BY <3>1, <4>1, <4>2 DEF HandedOverOnce
    <3>3. CASE \E q \in Requests \ {r} : Hands(q, job[r].actor, AtHand(job[r]))
      <4>1. PICK q \in Requests \ {r} : Hands(q, job[r].actor, AtHand(job[r]))
        BY <3>3
      <4>2. AtHand(job[r]) \in Picked(job[r])
        BY <3>1 DEF AtHand, Picked
      <4> QED BY <4>1, <4>2 DEF HandedOverOnce, Hands
    <3> QED BY <3>1, <3>2, <3>3
  <2>3. CASE pc[r] = "done"
    BY <2>1, <2>3 DEF AnsweredIsDone, Moved, Picked
  <2>4. CASE pc[r] = "rejected"
    BY <2>4 DEF AnsweredIsDone, Moved
  <2> QED BY <2>2, <2>3, <2>4 DEF EndPCs
<1> QED BY <1>1, BreaksExplained, AnswersAreTrue, Invariance, PTL
=============================================================================
