------------------------ MODULE TicketHistoryProofs ------------------------
(***************************************************************************)
(* Proofs of the properties of TicketLifecycle that relate the tables to   *)
(* what requests did: one ticket per submission, and a status for which    *)
(* the timeline or a request accounts.  Both use the invariant IInv of     *)
(* TicketLifecycleProofs.                                                  *)
(***************************************************************************)
EXTENDS TicketLifecycleProofs

-----------------------------------------------------------------------------
(* One ticket per submission *)

\* A create that has a ticket has the ticket of its own key.
Named(label, j, tk) ==
  j.kind = "create" /\ (label = "done" \/ j.id # NoId)
    => j.id \in DOMAIN tk /\ tk[j.id].key = j.key

AllNamed == \A r \in Requests : Named(pc[r], job[r], ticket)

KeysUnique == \A s, t \in Existing : ticket[s].key = ticket[t].key => s = t

KeysKept == /\ Existing \subseteq Existing'
            /\ \A t \in Existing : ticket'[t].key = ticket[t].key

LEMMA KeysStable ==
  ASSUME Existing' = Existing, KeysKept, KeysUnique
  PROVE  KeysUnique'
BY DEF KeysUnique, KeysKept, Existing

LEMMA SameTicketKeys ==
  ASSUME ticket' = ticket, KeysUnique
  PROVE  KeysKept /\ KeysUnique'
BY DEF KeysUnique, KeysKept, Existing

LEMMA NamedStable ==
  ASSUME KeysKept, NEW label, NEW j, Named(label, j, ticket)
  PROVE  Named(label, j, ticket')
BY DEF Named, KeysKept, Existing

LEMMA AppliedNamed ==
  ASSUME TypeOK, AllNamed, KeysKept, NEW r \in Requests, NEW label \in PCs, NEW j,
         JobFor(label, j), Named(label, j, ticket'), Applied(r, label, j)
  PROVE  AllNamed'
<1>1. \A q \in Requests : Named(pc[q], job[q], ticket')
  BY NamedStable DEF AllNamed
<1>2. Named("failed", job[r], ticket')
  BY <1>1 DEF Named
<1> QED BY <1>1, <1>2, AppliedType DEF AllNamed, TypeOK

LEMMA AnsweredNamed ==
  ASSUME TypeOK, AllNamed, KeysKept, NEW r \in Requests, NEW label \in PCs, NEW j,
         JobFor(label, j), Named(label, j, ticket'), Answered(r, label, j)
  PROVE  AllNamed'
<1>1. Applied(r, label, j)
  BY DEF Applied
<1> QED BY <1>1, AppliedNamed

LEMMA EndedNamed ==
  ASSUME TypeOK, AllNamed, KeysKept, NEW r \in Requests, NEW label \in EndPCs,
         Named(label, job[r], ticket'),
         Goto(r, label), job' = job, faults' = faults + 1
  PROVE  AllNamed'
<1>1. \A q \in Requests : Named(pc[q], job[q], ticket')
  BY NamedStable DEF AllNamed
<1> QED BY <1>1, EndedType DEF AllNamed, TypeOK

LEMMA GaveUpNamed ==
  ASSUME TypeOK, AllNamed, KeysKept, NEW r \in Requests, GaveUp(r)
  PROVE  AllNamed'
<1>1. Named("failed", job[r], ticket')
  <2>1. Named(pc[r], job[r], ticket')
    BY NamedStable DEF AllNamed
  <2> QED BY <2>1 DEF Named
<1> QED BY <1>1, EndedNamed DEF GaveUp, EndPCs

\* Whoever is not creating a ticket says nothing about submissions.
LEMMA OtherKinds ==
  ASSUME NEW j, j \in UpdateJob \cup ReassignJob, NEW label, NEW tk
  PROVE  Named(label, j, tk)
BY DEF Named, UpdateJob, ReassignJob

LEMMA NotAppliedNamed ==
  ASSUME TypeOK, AllNamed, KeysUnique, NEW r \in Requests, NotApplied(r)
  PROVE  AllNamed' /\ KeysUnique'
<1>1. KeysKept /\ KeysUnique'
  BY SameTicketKeys DEF NotApplied, tables
<1> QED BY <1>1, GaveUpNamed DEF NotApplied

\* A creation that compares departments has no ticket yet, and gets none by it.
LEMMA CheckAssigneeNamed ==
  ASSUME IInv, AllNamed, KeysUnique, NEW r \in Requests, CheckAssignee(r)
  PROVE  AllNamed' /\ KeysUnique'
<1>1. ~job[r].checked
  BY DEF CheckAssignee, IInv, JobsFit, JobFits
<1>2. /\ ticket' = ticket /\ pc[r] = "validate"
      /\ pc'[r] \in {"insert", "rejected", "failed"}
      /\ job[r] \in CreateJob
      /\ job'[r] = [job[r] EXCEPT !.checked = job'[r].checked]
      /\ \A q \in Requests : q # r => pc'[q] = pc[q] /\ job'[q] = job[q]
  BY <1>1, CheckAssigneeType DEF IInv, TypeOK, tables
<1>3. job'[r].id = job[r].id /\ job'[r].key = job[r].key /\ job[r].kind = "create"
  BY <1>2 DEF CreateJob
<1>4. KeysKept /\ KeysUnique'
  BY <1>2, SameTicketKeys
<1>5. Named(pc'[r], job'[r], ticket)
  BY <1>2, <1>3 DEF AllNamed, Named
<1> QED BY <1>2, <1>4, <1>5 DEF AllNamed

LEMMA InsertTicketNamed ==
  ASSUME IInv, AllNamed, KeysUnique, NEW r \in Requests, InsertTicket(r)
  PROVE  AllNamed' /\ KeysUnique'
<1>1. CASE NotApplied(r)
  BY <1>1, NotAppliedNamed DEF IInv
<1>2. CASE ~NotApplied(r)
  <2>1. PICK t \in Lowest(Ids \ Existing) :
          /\ pc[r] = "insert" /\ KeyFree(job[r].key) /\ PutRow(t, NewRow(job[r]))
          /\ Applied(r, "logCreate", [job[r] EXCEPT !.id = t])
    BY <1>2 DEF InsertTicket
  <2> DEFINE k == [job[r] EXCEPT !.id = t]
  <2>2. t \in Ids /\ t \notin Existing
    BY DEF Lowest
  <2>3. job[r] \in CreateJob
    BY <2>1 DEF IInv, TypeOK, ControlOK, CreatePCs
  <2>4. NewRow(job[r]) \in Row /\ NewRow(job[r]).key = job[r].key
    BY <2>3 DEF NewRow, Row, CreateJob, Statuses
  <2>5. /\ Existing' = Existing \cup {t} /\ ticket'[t] = NewRow(job[r])
        /\ \A s \in Existing : ticket'[s] = ticket[s]
    BY <2>1, <2>2, <2>4, PutRowType DEF IInv, TypeOK
  <2>6. KeysKept
    BY <2>5 DEF KeysKept
  <2>7. KeysUnique'
    BY <2>1, <2>4, <2>5 DEF KeysUnique, KeyFree
  <2>8. k \in CreateJob /\ k.id = t /\ k.key = job[r].key
    BY <2>2, <2>3 DEF CreateJob
  <2> HIDE DEF k
  <2>9. JobFor("logCreate", k) /\ "logCreate" \in PCs
    BY <2>8 DEF JobFor, Jobs, PCs, CreatePCs, UpdatePCs, ReassignPCs
  <2>10. Named("logCreate", k, ticket')
    BY <2>4, <2>5, <2>8 DEF Named, Existing
  <2>11. AllNamed'
    BY <2>1, <2>6, <2>9, <2>10, AppliedNamed DEF IInv, k
  <2> QED BY <2>7, <2>11
<1> QED BY <1>1, <1>2

LEMMA DuplicateTicketNamed ==
  ASSUME IInv, AllNamed, KeysUnique, NEW r \in Requests, DuplicateTicket(r)
  PROVE  AllNamed' /\ KeysUnique'
<1>1. KeysKept /\ KeysUnique' /\ ticket' = ticket
  BY SameTicketKeys DEF DuplicateTicket, tables
<1>2. PICK s \in Existing : /\ ticket[s].key = job[r].key
                            /\ \/ Answered(r, "done", [job[r] EXCEPT !.id = s])
                               \/ GaveUp(r)
  BY DEF DuplicateTicket
<1> DEFINE k == [job[r] EXCEPT !.id = s]
<1>3. k \in CreateJob /\ k.id = s /\ k.key = job[r].key
  BY DEF DuplicateTicket, IInv, TypeOK, TablesOK, ControlOK, CreatePCs, CreateJob
<1> HIDE DEF k
<1>4. JobFor("done", k) /\ "done" \in PCs
  BY <1>3 DEF JobFor, Jobs, PCs, EndPCs, CreatePCs, UpdatePCs, ReassignPCs
<1>5. Named("done", k, ticket')
  BY <1>1, <1>2, <1>3 DEF Named, Existing
<1>6. CASE Answered(r, "done", [job[r] EXCEPT !.id = s])
  BY <1>1, <1>4, <1>5, <1>6, AnsweredNamed DEF IInv, k
<1>7. CASE GaveUp(r)
  BY <1>1, <1>7, GaveUpNamed DEF IInv
<1> QED BY <1>2, <1>6, <1>7

LEMMA LogCreateNamed ==
  ASSUME IInv, AllNamed, KeysUnique, NEW r \in Requests, LogCreate(r)
  PROVE  AllNamed' /\ KeysUnique'
<1>1. CASE NotApplied(r)
  BY <1>1, NotAppliedNamed DEF IInv
<1>2. CASE ~NotApplied(r)
  <2>1. pc[r] = "logCreate" /\ ticket' = ticket /\ Applied(r, "allocMail", job[r])
    BY <1>2 DEF LogCreate
  <2>2. KeysKept /\ KeysUnique'
    BY <2>1, SameTicketKeys
  <2>3. JobFor("allocMail", job[r]) /\ "allocMail" \in PCs
    BY <2>1 DEF IInv, TypeOK, ControlOK, JobFor, Jobs, PCs, CreatePCs, UpdatePCs, ReassignPCs
  <2>4. Named("allocMail", job[r], ticket')
    BY <2>1, <2>2, NamedStable DEF AllNamed, Named
  <2> QED BY <2>1, <2>2, <2>3, <2>4, AppliedNamed DEF IInv
<1> QED BY <1>1, <1>2

LEMMA AllocMailNamed ==
  ASSUME IInv, AllNamed, KeysUnique, NEW r \in Requests, AllocMail(r)
  PROVE  AllNamed' /\ KeysUnique'
<1>1. pc[r] = "allocMail" /\ ticket' = ticket
  BY DEF AllocMail, NotApplied, tables
<1>2. KeysKept /\ KeysUnique'
  BY <1>1, SameTicketKeys
<1>3. job[r] \in CreateJob /\ job[r].id # NoId
  BY <1>1, LifecycleConstants
     DEF IInv, TypeOK, TablesOK, ControlOK, CreatePCs, JobsFit, JobFits, Existing
<1>4. JobFor("done", job[r]) /\ "done" \in PCs /\ "done" \in EndPCs
  BY <1>3 DEF JobFor, Jobs, PCs, EndPCs, CreatePCs, UpdatePCs, ReassignPCs
<1>5. Named("done", job[r], ticket')
  BY <1>1, <1>3 DEF AllNamed, Named
<1>6. CASE Answered(r, "done", job[r])
  BY <1>2, <1>4, <1>5, <1>6, AnsweredNamed DEF IInv
<1>7. CASE NotApplied(r)
  BY <1>7, NotAppliedNamed DEF IInv
<1>8. CASE faults' = faults + 1 /\ Goto(r, "done") /\ job' = job
  BY <1>2, <1>4, <1>5, <1>8, EndedNamed DEF IInv
<1> QED BY <1>6, <1>7, <1>8 DEF AllocMail

\* What a step of one request leaves to the others, and does to its own job.
Frame(r, j) == /\ \A q \in Requests : q # r => pc'[q] = pc[q] /\ job'[q] = job[q]
               /\ job'[r] \in {j, job[r]}

LEMMA AppliedFrame ==
  ASSUME ControlOK, NEW r \in Requests, NEW label, NEW j, Applied(r, label, j)
  PROVE  Frame(r, j)
BY DEF ControlOK, Applied, Answered, Resent, GaveUp, Goto, Frame

LEMMA AnsweredFrame ==
  ASSUME ControlOK, NEW r \in Requests, NEW label, NEW j, Answered(r, label, j)
  PROVE  Frame(r, j)
BY DEF ControlOK, Answered, Goto, Frame

LEMMA EndedFrame ==
  ASSUME ControlOK, NEW r \in Requests, NEW label, Goto(r, label), job' = job
  PROVE  Frame(r, job[r])
BY DEF ControlOK, Goto, Frame

LEMMA OthersNamed ==
  ASSUME AllNamed, KeysKept, NEW r \in Requests,
         NEW j \in UpdateJob \cup ReassignJob, job[r] \in UpdateJob \cup ReassignJob,
         Frame(r, j)
  PROVE  AllNamed'
<1>1. \A q \in Requests : Named(pc[q], job[q], ticket')
  BY NamedStable DEF AllNamed
<1>2. Named(pc'[r], job'[r], ticket')
  BY OtherKinds DEF Frame
<1> QED BY <1>1, <1>2 DEF AllNamed, Frame

LEMMA PutRowKeys ==
  ASSUME TypeOK, KeysUnique, NEW t \in Existing, NEW row \in Row,
         row.key = ticket[t].key, PutRow(t, row)
  PROVE  KeysKept /\ KeysUnique'
<1>1. t \in Ids
  BY DEF TypeOK, TablesOK
<1>2. /\ Existing' = Existing /\ ticket'[t] = row
      /\ \A s \in Existing : s # t => ticket'[s] = ticket[s]
  BY <1>1, PutRowType DEF TypeOK
<1>3. KeysKept
  BY <1>2 DEF KeysKept
<1> QED BY <1>2, <1>3, KeysStable

LEMMA UpdateNamed ==
  ASSUME IInv, AllNamed, KeysUnique, NEW r \in Requests,
         SetStatus(r) \/ LogStatus(r) \/ CloseMail(r)
  PROVE  AllNamed' /\ KeysUnique'
<1>1. pc[r] \in UpdatePCs
  BY DEF SetStatus, LogStatus, CloseMail, UpdatePCs
<1>2. job[r] \in UpdateJob /\ job[r].id \in Existing
  BY <1>1 DEF IInv, TypeOK, ControlOK, JobsFit, JobFits, Existing
<1>3. Frame(r, job[r])
  BY AppliedFrame, AnsweredFrame, EndedFrame
     DEF SetStatus, LogStatus, CloseMail, NotApplied, GaveUp, IInv, TypeOK
<1>4. KeysKept /\ KeysUnique'
  <2>1. CASE ticket' = ticket
    BY <2>1, SameTicketKeys
  <2>2. CASE PutRow(job[r].id, [ticket[job[r].id] EXCEPT !.status = job[r].to])
    <3> DEFINE row == [ticket[job[r].id] EXCEPT !.status = job[r].to]
    <3>1. row \in Row /\ row.key = ticket[job[r].id].key
      BY <1>2 DEF IInv, TypeOK, TablesOK, Row, UpdateJob
    <3> QED BY <1>2, <2>2, <3>1, PutRowKeys DEF IInv
  <2> QED BY <2>1, <2>2 DEF SetStatus, LogStatus, CloseMail, NotApplied, tables
<1> QED BY <1>2, <1>3, <1>4, OthersNamed

LEMMA CheckNamed ==
  ASSUME IInv, AllNamed, KeysUnique, NEW r \in Requests,
         CheckTicket(r) \/ CheckDepartments(r)
  PROVE  AllNamed' /\ KeysUnique'
<1>1. pc[r] = "check" /\ ticket' = ticket
  BY DEF CheckTicket, CheckDepartments, tables
<1>2. job[r] \in ReassignJob
  BY <1>1 DEF IInv, TypeOK, ControlOK, ReassignPCs
<1>3. KeysKept /\ KeysUnique'
  BY <1>1, SameTicketKeys
<1>4. CASE CheckDepartments(r)
  <2>1. Frame(r, job[r])
    BY <1>4, AnsweredFrame DEF CheckDepartments, IInv, TypeOK
  <2> QED BY <1>2, <1>3, <2>1, OthersNamed
<1>5. CASE CheckTicket(r)
  <2> DEFINE t == job[r].selected[Len(job[r].from) + 1]
             k == [job[r] EXCEPT !.from = Append(@, ticket[t].status)]
  <2>1. /\ Len(job[r].from) < Len(job[r].selected)
        /\ Answered(r, "check", k) \/ Answered(r, "rejected", job[r])
    BY <1>5 DEF CheckTicket
  <2>2. k \in ReassignJob
    BY <1>1, <2>1, CheckedTicket
  <2> HIDE DEF k
  <2>3. Frame(r, k) \/ Frame(r, job[r])
    BY <2>1, AnsweredFrame DEF IInv, TypeOK
  <2> QED BY <1>2, <1>3, <2>2, <2>3, OthersNamed
<1> QED BY <1>4, <1>5

LEMMA MoveNamed ==
  ASSUME IInv, AllNamed, KeysUnique, NEW r \in Requests, MoveTicket(r)
  PROVE  AllNamed' /\ KeysUnique'
<1>1. CASE NotApplied(r)
  BY <1>1, NotAppliedNamed DEF IInv
<1>2. CASE ~NotApplied(r)
  <2> DEFINE t == job[r].selected[job[r].moved + 1]
             row == [ticket[t] EXCEPT !.assignee = job[r].dst]
             k == [job[r] EXCEPT !.moved = @ + 1]
  <2>1. pc[r] = "move" /\ PutRow(t, row) /\ Applied(r, "logMove", k)
    BY <1>2 DEF MoveTicket
  <2>2. /\ job[r] \in ReassignJob /\ k \in ReassignJob
        /\ t \in Existing /\ row \in Row /\ ticket[t] \in Row
    BY <2>1, MovedTicket
  <2>3. row.key = ticket[t].key
    BY <2>2 DEF Row
  <2> HIDE DEF t, row, k
  <2>4. KeysKept /\ KeysUnique'
    BY <2>1, <2>2, <2>3, PutRowKeys DEF IInv
  <2>5. Frame(r, k)
    BY <2>1, AppliedFrame DEF IInv, TypeOK
  <2> QED BY <2>2, <2>4, <2>5, OthersNamed
<1> QED BY <1>1, <1>2

LEMMA LogMoveNamed ==
  ASSUME IInv, AllNamed, KeysUnique, NEW r \in Requests, LogMove(r) \/ Audit(r)
  PROVE  AllNamed' /\ KeysUnique'
<1>1. pc[r] \in ReassignPCs /\ ticket' = ticket
  BY DEF LogMove, Audit, ReassignPCs
<1>2. job[r] \in ReassignJob
  BY <1>1 DEF IInv, TypeOK, ControlOK
<1>3. KeysKept /\ KeysUnique'
  BY <1>1, SameTicketKeys
<1>4. Frame(r, job[r])
  BY AppliedFrame, AnsweredFrame, EndedFrame DEF LogMove, Audit, GaveUp, IInv, TypeOK
<1> QED BY <1>2, <1>3, <1>4, OthersNamed

LEMMA StartNamed ==
  ASSUME TypeOK, AllNamed, KeysUnique, NEW r \in Requests, NEW label, NEW j,
         Named(label, j, ticket), Start(r, label, j)
  PROVE  AllNamed' /\ KeysUnique'
<1>1. ticket' = ticket /\ Goto(r, label) /\ job' = [job EXCEPT ![r] = j]
  BY DEF Start, tables
<1>2. KeysKept /\ KeysUnique'
  BY <1>1, SameTicketKeys
<1>3. /\ \A q \in Requests : q # r => pc'[q] = pc[q] /\ job'[q] = job[q]
      /\ pc'[r] = label /\ job'[r] = j
  BY <1>1 DEF TypeOK, ControlOK, Goto
<1> QED BY <1>1, <1>2, <1>3 DEF AllNamed

LEMMA ArriveNamed ==
  ASSUME IInv, AllNamed, KeysUnique, NEW r \in Requests, Arrive(r)
  PROVE  AllNamed' /\ KeysUnique'
<1>1. \E label, j : Named(label, j, ticket) /\ Start(r, label, j)
  BY DEF Arrive, StartCreate, StartUpdate, StartReassign, Named
<1> QED BY <1>1, StartNamed DEF IInv

\* However often a form is posted or its INSERT sent, there is one ticket for it,
\* and whoever answered names that ticket.
THEOREM OneTicket == Spec => []OneTicketPerSubmission
<1> DEFINE Inv == AllNamed /\ KeysUnique
<1>1. Init => Inv
  <2> SUFFICES ASSUME Init PROVE Inv
    OBVIOUS
  <2>1. AllNamed
    BY DEF Init, AllNamed, Named, NoJob
  <2>2. KeysUnique
    BY LifecycleConstants DEF Init, KeysUnique, Existing
  <2> QED BY <2>1, <2>2
<1>2. IInv /\ Inv /\ [Next]_vars => Inv'
  <2> SUFFICES ASSUME IInv, Inv, [Next]_vars PROVE Inv'
    OBVIOUS
  <2>1. CASE UNCHANGED vars
    BY <2>1 DEF vars, tables, control, AllNamed, KeysUnique, Existing
  <2>2. CASE Quiet
    BY <2>2 DEF Quiet, vars, tables, control, AllNamed, KeysUnique, Existing
  <2>3. ASSUME NEW r \in Requests, Arrive(r) PROVE Inv'
    BY <2>3, ArriveNamed
  <2>4. ASSUME NEW r \in Requests, Step(r) PROVE Inv'
    BY <2>4, CheckAssigneeNamed, InsertTicketNamed, DuplicateTicketNamed, LogCreateNamed, AllocMailNamed,
       UpdateNamed, CheckNamed, MoveNamed, LogMoveNamed DEF Step
  <2> QED BY <2>1, <2>2, <2>3, <2>4 DEF Next
<1>3. IInv /\ Inv => OneTicketPerSubmission
  BY DEF IInv, AllNamed, Named, KeysUnique, OneTicketPerSubmission, Existing
<1> QED BY <1>1, <1>2, <1>3, Invariance, PTL DEF Spec

-----------------------------------------------------------------------------
(* The status of a ticket is accounted for *)

InTimeline(t, st) == \E i \in DOMAIN activity : activity[i].id = t /\ activity[i].to = st

\* r is the request that set the status st of t and has yet to log it, or failed.
Accounts(r, t, st) ==
  /\ job[r].kind = "update" /\ job[r].id = t /\ job[r].to = st
  /\ pc[r] \in {"setStatus", "logStatus", "failed"}

Accounted(t, st) ==
  st = "PENDING" \/ InTimeline(t, st) \/ \E r \in Requests : Accounts(r, t, st)

AllAccounted == \A t \in Existing : Accounted(t, ticket[t].status)

\* The timeline only ever gets longer.
LogKept == \A t \in Ids, st \in Statuses : InTimeline(t, st) => InTimeline(t, st)'

LEMMA AppendKeeps ==
  ASSUME NEW S, NEW s \in Seq(S), NEW e \in S
  PROVE  /\ DOMAIN s \subseteq DOMAIN Append(s, e)
         /\ \A i \in DOMAIN s : Append(s, e)[i] = s[i]
         /\ Len(s) + 1 \in DOMAIN Append(s, e) /\ Append(s, e)[Len(s) + 1] = e
OBVIOUS

LEMMA LogKeptByAppend ==
  ASSUME TablesOK, NEW row \in LogRows, activity' = Append(activity, row)
  PROVE  LogKept /\ InTimeline(row.id, row.to)'
<1>1. activity \in Seq(LogRows)
  BY DEF TablesOK, LogRows
<1> QED BY <1>1, AppendKeeps DEF LogKept, InTimeline

LEMMA LogKeptBySame == ASSUME UNCHANGED activity PROVE LogKept
BY DEF LogKept, InTimeline

\* A step after which the same statuses stand, the timeline has what it had, and
\* the request that took the step is no less accountable, or has logged.
LEMMA AccountedStable ==
  ASSUME IInv, AllAccounted, LogKept, NEW r \in Requests,
         \A q \in Requests : q # r => pc'[q] = pc[q] /\ job'[q] = job[q],
         \A t \in Existing, st \in Statuses :
           Accounts(r, t, st) => Accounts(r, t, st)' \/ InTimeline(t, st)',
         NEW t \in Existing
  PROVE  Accounted(t, ticket[t].status)'
           \/ ticket'[t].status # ticket[t].status
<1> SUFFICES ASSUME ticket'[t].status = ticket[t].status
             PROVE  Accounted(t, ticket[t].status)'
  OBVIOUS
<1> DEFINE st == ticket[t].status
<1>1. t \in Ids /\ st \in Statuses
  BY DEF IInv, TypeOK, TablesOK, Row
<1>2. CASE st = "PENDING"
  BY <1>2 DEF Accounted
<1>3. CASE InTimeline(t, st)
  BY <1>1, <1>3 DEF LogKept, Accounted, InTimeline
<1>4. CASE \E q \in Requests : Accounts(q, t, st)
  <2>1. PICK q \in Requests : Accounts(q, t, st)
    BY <1>4
  <2>2. CASE q # r
    BY <2>1, <2>2 DEF Accounts, Accounted
  <2>3. CASE q = r
    BY <1>1, <2>1, <2>3 DEF Accounts, Accounted, InTimeline
  <2> QED BY <2>2, <2>3
<1> QED BY <1>2, <1>3, <1>4 DEF AllAccounted, Accounted

Quits(r) == \A t \in Existing, st \in Statuses :
              Accounts(r, t, st) => Accounts(r, t, st)' \/ InTimeline(t, st)'

OthersFrame(r) == \A q \in Requests : q # r => pc'[q] = pc[q] /\ job'[q] = job[q]

LEMMA SameStatuses ==
  ASSUME IInv, AllAccounted, LogKept, NEW r \in Requests, OthersFrame(r), Quits(r),
         Existing' = Existing,
         \A t \in Existing : ticket'[t].status = ticket[t].status
  PROVE  AllAccounted'
<1> SUFFICES ASSUME NEW t \in Existing PROVE Accounted(t, ticket[t].status)'
  BY DEF AllAccounted
<1> QED BY AccountedStable DEF OthersFrame, Quits

\* Only an update on its way accounts for a status.
LEMMA NoAccount ==
  ASSUME NEW r \in Requests,
         job[r].kind # "update" \/ pc[r] \in {"idle", "closeMail"}
  PROVE  Quits(r)
BY DEF Quits, Accounts

LEMMA SamePut ==
  ASSUME TypeOK, NEW t \in Existing, NEW row \in Row, PutRow(t, row)
  PROVE  /\ Existing' = Existing /\ ticket'[t] = row
         /\ \A s \in Existing : s # t => ticket'[s] = ticket[s]
<1>1. t \in Ids
  BY DEF TypeOK, TablesOK
<1> QED BY <1>1, PutRowType DEF TypeOK

LEMMA CreateAccounted ==
  ASSUME IInv, AllAccounted, NEW r \in Requests,
         \/ CheckAssignee(r) \/ InsertTicket(r) \/ DuplicateTicket(r)
         \/ LogCreate(r) \/ AllocMail(r)
  PROVE  AllAccounted'
<1>1. pc[r] \in CreatePCs
  BY DEF CheckAssignee, InsertTicket, DuplicateTicket, LogCreate, AllocMail, CreatePCs
<1>2. job[r] \in CreateJob
  BY <1>1 DEF IInv, TypeOK, ControlOK
<1>3. Quits(r)
  BY <1>2, NoAccount DEF CreateJob
<1>4. OthersFrame(r)
  BY AppliedFrame, AnsweredFrame, EndedFrame
     DEF CheckAssignee, InsertTicket, DuplicateTicket, LogCreate, AllocMail, NotApplied,
         GaveUp, IInv, TypeOK, Frame, OthersFrame
<1>5. LogKept
  <2>1. CASE UNCHANGED activity
    BY <2>1, LogKeptBySame
  <2>2. CASE LogCreate(r) /\ ~UNCHANGED activity
    <3> DEFINE row == LogRow(job[r].id, job[r].actor, "NULL", "PENDING")
    <3>1. activity' = Append(activity, row) /\ pc[r] = "logCreate"
      BY <2>2 DEF LogCreate, PutLog, NotApplied, tables
    <3>2. job[r].id \in Ids
      BY <3>1 DEF IInv, JobsFit, JobFits, TypeOK, TablesOK, Existing
    <3>3. row \in LogRows
      BY <1>2, <3>2, LogRowType DEF CreateJob, Statuses
    <3> QED BY <3>1, <3>3, LogKeptByAppend DEF IInv, TypeOK
  <2> QED BY <2>1, <2>2
          DEF CheckAssignee, InsertTicket, DuplicateTicket, AllocMail, NotApplied, tables
<1>6. CASE ticket' = ticket
  BY <1>3, <1>4, <1>5, <1>6, SameStatuses DEF Existing
<1>7. CASE ticket' # ticket
  <2>1. PICK t \in Lowest(Ids \ Existing) : PutRow(t, NewRow(job[r]))
    BY <1>7 DEF CheckAssignee, InsertTicket, DuplicateTicket, LogCreate, AllocMail, NotApplied,
       tables
  <2>2. t \in Ids /\ t \notin Existing
    BY DEF Lowest
  <2>3. NewRow(job[r]) \in Row /\ NewRow(job[r]).status = "PENDING"
    BY <1>2 DEF NewRow, Row, CreateJob, Statuses
  <2>4. /\ Existing' = Existing \cup {t} /\ ticket'[t] = NewRow(job[r])
        /\ \A s \in Existing : ticket'[s] = ticket[s]
    BY <2>1, <2>2, <2>3, PutRowType DEF IInv, TypeOK
  <2>5. Accounted(t, ticket[t].status)'
    BY <2>3, <2>4 DEF Accounted
  <2>6. ASSUME NEW s \in Existing PROVE Accounted(s, ticket[s].status)'
    BY <1>3, <1>4, <1>5, <2>4, AccountedStable DEF OthersFrame, Quits
  <2>7. ASSUME NEW s \in Existing' PROVE Accounted(s, ticket[s].status)'
    BY <2>4, <2>5, <2>6
  <2> QED BY <2>7 DEF AllAccounted
<1> QED BY <1>6, <1>7

LEMMA SetStatusAccounted ==
  ASSUME IInv, AllAccounted, NEW r \in Requests, SetStatus(r)
  PROVE  AllAccounted'
<1> DEFINE j == job[r]
<1>1. pc[r] = "setStatus" /\ UNCHANGED activity
  BY DEF SetStatus, NotApplied, tables
<1>2. j \in UpdateJob /\ j.id \in Existing
  BY <1>1 DEF IInv, TypeOK, ControlOK, UpdatePCs, JobsFit, JobFits, Existing
<1>3. OthersFrame(r) /\ job'[r] = j
  BY AppliedFrame, EndedFrame
     DEF SetStatus, NotApplied, GaveUp, IInv, TypeOK, Frame, OthersFrame
<1>4. pc'[r] \in {"setStatus", "logStatus", "failed"}
  BY <1>1 DEF SetStatus, NotApplied, Applied, Answered, Resent, GaveUp, Goto, IInv,
              TypeOK, ControlOK
<1>5. Quits(r)
  BY <1>3, <1>4 DEF Quits, Accounts
<1>6. LogKept
  BY <1>1, LogKeptBySame
<1>7. CASE ticket' = ticket
  BY <1>3, <1>5, <1>6, <1>7, SameStatuses DEF Existing
<1>8. CASE PutRow(j.id, [ticket[j.id] EXCEPT !.status = j.to])
  <2> DEFINE row == [ticket[j.id] EXCEPT !.status = j.to]
  <2>1. row \in Row /\ row.status = j.to
    BY <1>2 DEF IInv, TypeOK, TablesOK, Row, UpdateJob
  <2>2. /\ Existing' = Existing /\ ticket'[j.id] = row
        /\ \A s \in Existing : s # j.id => ticket'[s] = ticket[s]
    BY <1>2, <1>8, <2>1, SamePut DEF IInv
  <2>3. Accounts(r, j.id, j.to)'
    BY <1>2, <1>3, <1>4 DEF Accounts, UpdateJob
  <2>4. Accounted(j.id, ticket[j.id].status)'
    BY <1>2, <1>3, <2>1, <2>2, <2>3 DEF Accounted, Accounts
  <2>5. ASSUME NEW s \in Existing, s # j.id PROVE Accounted(s, ticket[s].status)'
    BY <1>3, <1>5, <1>6, <2>2, <2>5, AccountedStable DEF OthersFrame, Quits
  <2> QED BY <1>3, <2>2, <2>4, <2>5 DEF AllAccounted
<1> QED BY <1>7, <1>8 DEF SetStatus, NotApplied, tables

LEMMA LogStatusAccounted ==
  ASSUME IInv, AllAccounted, NEW r \in Requests, LogStatus(r)
  PROVE  AllAccounted'
<1> DEFINE j == job[r]
<1>1. pc[r] = "logStatus" /\ ticket' = ticket
  BY DEF LogStatus, NotApplied, tables
<1>2. j \in UpdateJob /\ j.id \in Ids
  BY <1>1 DEF IInv, TypeOK, ControlOK, UpdatePCs, UpdateJob
<1>3. PICK row \in LogRows : row = LogRow(j.id, j.actor, j.from, j.to)
  BY <1>2, LogRowType DEF UpdateJob
<1>4. OthersFrame(r) /\ job'[r] = j
  BY AppliedFrame, EndedFrame
     DEF LogStatus, NotApplied, GaveUp, IInv, TypeOK, Frame, OthersFrame
<1>5. CASE NotApplied(r)
  <2>1. LogKept
    BY <1>5, LogKeptBySame DEF NotApplied, tables
  <2>2. pc'[r] = "failed"
    BY <1>5 DEF NotApplied, GaveUp, Goto, IInv, TypeOK, ControlOK
  <2>3. Quits(r)
    BY <1>4, <2>2 DEF Quits, Accounts
  <2> QED BY <1>1, <1>4, <2>1, <2>3, SameStatuses DEF Existing
<1>6. CASE PutLog(row)
  <2>1. LogKept /\ InTimeline(row.id, row.to)'
    <3>1. CASE activity' = Append(activity, row)
      BY <3>1, LogKeptByAppend DEF IInv, TypeOK
    <3>2. CASE Logged(row) /\ UNCHANGED activity
      BY <3>2, LogKeptBySame DEF Logged, InTimeline
    <3> QED BY <1>6, <3>1, <3>2 DEF PutLog
  <2>2. Quits(r)
    <3> SUFFICES ASSUME NEW t \in Existing, NEW st \in Statuses, Accounts(r, t, st)
                 PROVE  InTimeline(t, st)'
      BY DEF Quits
    <3>1. t = row.id /\ st = row.to
      BY <1>3 DEF Accounts, LogRow
    <3> QED BY <2>1, <3>1
  <2>3. LogKept /\ OthersFrame(r) /\ Existing' = Existing
    BY <1>1, <1>4, <2>1 DEF Existing
  <2> QED BY <1>1, <2>2, <2>3, SameStatuses
<1> QED BY <1>3, <1>5, <1>6 DEF LogStatus

LEMMA CloseMailAccounted ==
  ASSUME IInv, AllAccounted, NEW r \in Requests, CloseMail(r)
  PROVE  AllAccounted'
<1>1. pc[r] = "closeMail" /\ ticket' = ticket /\ UNCHANGED activity
  BY DEF CloseMail, NotApplied, tables
<1>2. OthersFrame(r)
  BY AnsweredFrame, EndedFrame
     DEF CloseMail, NotApplied, GaveUp, IInv, TypeOK, Frame, OthersFrame
<1>3. Quits(r) /\ LogKept
  BY <1>1, NoAccount, LogKeptBySame
<1> QED BY <1>1, <1>2, <1>3, SameStatuses DEF Existing

LEMMA ReassignAccounted ==
  ASSUME IInv, AllAccounted, NEW r \in Requests,
         \/ CheckTicket(r) \/ CheckDepartments(r) \/ MoveTicket(r)
         \/ LogMove(r) \/ Audit(r)
  PROVE  AllAccounted'
<1> DEFINE j == job[r]
<1>1. pc[r] \in ReassignPCs
  BY DEF CheckTicket, CheckDepartments, MoveTicket, LogMove, Audit, ReassignPCs
<1>2. j \in ReassignJob /\ JobFits(pc[r], j, ticket)
  BY <1>1 DEF IInv, TypeOK, ControlOK, JobsFit
<1>3. Quits(r)
  BY <1>2, NoAccount DEF ReassignJob
<1>4. OthersFrame(r)
  BY AppliedFrame, AnsweredFrame, EndedFrame
     DEF CheckTicket, CheckDepartments, MoveTicket, LogMove, Audit, NotApplied, GaveUp,
         IInv, TypeOK, Frame, OthersFrame
<1>5. LogKept
  <2>1. CASE UNCHANGED activity
    BY <2>1, LogKeptBySame
  <2>2. CASE LogMove(r) /\ ~UNCHANGED activity
    <3> DEFINE row == MoveRow(j, j.moved)
    <3>1. activity' = Append(activity, row) /\ pc[r] = "logMove"
      BY <2>2 DEF LogMove
    <3>2. j.moved \in DOMAIN j.selected /\ Len(j.from) = Len(j.selected)
      BY <1>2, <3>1 DEF ReassignJob, JobFits
    <3>3. row \in LogRows
      BY <1>2, <3>2, MoveRowType
    <3> QED BY <3>1, <3>3, LogKeptByAppend DEF IInv, TypeOK
  <2> QED BY <2>1, <2>2
          DEF CheckTicket, CheckDepartments, MoveTicket, Audit, NotApplied, tables
<1>6. Existing' = Existing /\ \A t \in Existing : ticket'[t].status = ticket[t].status
  <2>1. CASE ticket' = ticket
    BY <2>1 DEF Existing
  <2>2. CASE MoveTicket(r) /\ ticket' # ticket
    <3> DEFINE t == j.selected[j.moved + 1]
               row == [ticket[t] EXCEPT !.assignee = j.dst]
    <3>1. pc[r] = "move" /\ PutRow(t, row)
      BY <2>2 DEF MoveTicket, NotApplied, tables
    <3>2. t \in Existing /\ ticket[t] \in Row /\ row \in Row
      BY <3>1, MovedTicket
    <3>3. row.status = ticket[t].status
      BY <3>2 DEF Row
    <3> HIDE DEF t, row
    <3> QED BY <3>1, <3>2, <3>3, SamePut DEF IInv
  <2> QED BY <2>1, <2>2
          DEF CheckTicket, CheckDepartments, LogMove, Audit, NotApplied, tables
<1> QED BY <1>3, <1>4, <1>5, <1>6, SameStatuses

LEMMA ArriveAccounted ==
  ASSUME IInv, AllAccounted, NEW r \in Requests, Arrive(r)
  PROVE  AllAccounted'
<1>1. PICK label, j : Start(r, label, j)
  BY DEF Arrive, StartCreate, StartUpdate, StartReassign
<1>2. pc[r] = "idle" /\ UNCHANGED <<ticket, activity>>
  BY <1>1 DEF Start, tables
<1>3. OthersFrame(r)
  BY <1>1 DEF Start, Goto, IInv, TypeOK, ControlOK, OthersFrame
<1>4. Quits(r) /\ LogKept
  BY <1>2, NoAccount, LogKeptBySame
<1> QED BY <1>2, <1>3, <1>4, SameStatuses DEF Existing

\* However updates interleave and fail, no ticket has a status that neither the
\* timeline nor an update under way or failed explains.
THEOREM StatusExplained == Spec => []StatusAccountedFor
<1>1. Init => AllAccounted
  BY LifecycleConstants DEF Init, AllAccounted, Accounted, Existing
<1>2. IInv /\ AllAccounted /\ [Next]_vars => AllAccounted'
  <2> SUFFICES ASSUME IInv, AllAccounted, [Next]_vars PROVE AllAccounted'
    OBVIOUS
  <2>1. CASE UNCHANGED vars \/ Quiet
    BY <2>1 DEF Quiet, vars, tables, control, AllAccounted, Accounted, Accounts,
                InTimeline, Existing
  <2>2. ASSUME NEW r \in Requests, Arrive(r) PROVE AllAccounted'
    BY <2>2, ArriveAccounted
  <2>3. ASSUME NEW r \in Requests, Step(r) PROVE AllAccounted'
    BY <2>3, CreateAccounted, SetStatusAccounted, LogStatusAccounted,
       CloseMailAccounted, ReassignAccounted DEF Step
  <2> QED BY <2>1, <2>2, <2>3 DEF Next
<1>3. AllAccounted => StatusAccountedFor
  BY DEF AllAccounted, Accounted, Accounts, InTimeline, StatusAccountedFor
<1> QED BY <1>1, <1>2, <1>3, Invariance, PTL DEF Spec
=============================================================================
