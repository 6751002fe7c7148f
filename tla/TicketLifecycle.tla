-------------------------- MODULE TicketLifecycle --------------------------
(***************************************************************************)
(* The three handlers that write tickets - create_ticket,                  *)
(* update_ticket_status and reassign_tickets of db_services.py - run by    *)
(* concurrent worker threads on the shared tables helpdesk_tickets and     *)
(* helpdesk_ticket_activity.                                               *)
(*                                                                         *)
(* Connections are in autocommit, so a handler is as atomic as one of its  *)
(* SQL statements: it reads a row, decides by the rules of TicketRules on  *)
(* what it read, and writes the ticket by id in a later statement and the  *)
(* activity row in another.  Every request is one-shot: its pc says which  *)
(* statement comes next, its job holds the locals of the handler.          *)
(*                                                                         *)
(* A statement can fail.  With a lost connection, _execute_cursor sends it *)
(* again although the server may have applied it (MaxAttempts times in     *)
(* all); when it gives up, or the worker dies, the handler stops where it  *)
(* is and nothing is rolled back.  Attempts that were not applied change   *)
(* nothing and are left out.  Requests a handler refuses on its first      *)
(* reads leave no trace and are left out too.                              *)
(*                                                                         *)
(* An operator named ...Slip is no part of the specification: it is the    *)
(* operator below it with a plausible mistake, which a run has to notice.  *)
(***************************************************************************)
EXTENDS TicketRules, FiniteSets, Sequences

CONSTANTS
  Ids,          \* values of helpdesk_tickets.id, handed out in order
  NoId,         \* no ticket yet
  Seeds,        \* [a set of Ids -> Row], tickets created earlier
  Keys,         \* submission keys handed out with a ticket form
  KeyOwner,     \* [Keys -> Users], whom the form was rendered for
  Selections,   \* lists of tickets that may be posted for reassignment
  Requests,     \* the requests of a behaviour
  Threads,      \* how many requests are served at a time
  MaxAttempts,  \* executions of one statement (retries = 3)
  MaxFaults     \* bound on failed statements in a behaviour

\* A row of helpdesk_tickets.  A post without a submission key gets a fresh
\* uuid: the request itself stands for it.
Row == [status : Statuses, assignee : Users, creator : Users,
        category : Categories, key : Keys \cup Requests \cup Ids]

ASSUME LifecycleConstants ==
  /\ Ids \subseteq Nat /\ IsFiniteSet(Ids) /\ NoId \notin Ids
  /\ DOMAIN Seeds \subseteq Ids /\ Seeds \in [DOMAIN Seeds -> Row]
  /\ \A t \in DOMAIN Seeds : /\ Seeds[t].status = "PENDING"
                             /\ Seeds[t].key = t
                             /\ AssigneeFits(Seeds[t].assignee, Seeds[t].category)
  /\ KeyOwner \in [Keys -> Users] /\ Selections \subseteq Seq(Ids)
  /\ Keys \cap Requests = {} /\ Keys \cap Ids = {} /\ Requests \cap Ids = {}
  /\ IsFiniteSet(Requests)
  /\ Threads \in Nat /\ MaxAttempts \in Nat /\ MaxFaults \in Nat

VARIABLES
  ticket,       \* the rows: [set of ids -> Row]
  activity,     \* rows of helpdesk_ticket_activity, oldest first
  audit,        \* requests with a TICKETS_REASSIGNED audit event
  allocMails,   \* [Ids -> SUBSET Users], who was told of being allocated
  closureMails, \* [Ids -> Nat], closure notifications dispatched
  pc,           \* next statement of each request
  job,          \* locals of each request
  tries,        \* failed attempts of the statement at pc
  faults,       \* failed statements so far
  past          \* history: [Ids -> set of the rows the ticket has had]

tables == <<ticket, past, activity, audit>>
mails == <<allocMails, closureMails>>
control == <<pc, job, tries, faults>>
vars == <<tables, mails, control>>

CreateJob == [kind : {"create"}, actor : Users, category : Categories,
              key : Keys \cup Requests, assignee : Users, id : Ids \cup {NoId},
              checked : BOOLEAN]            \* his department was compared
UpdateJob == [kind : {"update"}, actor : Users, id : Ids,
              from : Statuses, to : Statuses]
ReassignJob == [kind : {"reassign"}, actor : Users, src : Users, dst : Users,
                selected : Seq(Ids),        \* ticket_ids, as posted
                from : Seq(Statuses),       \* valid_tickets so far, as read
                moved : Nat]                \* how many have been written
NoJob == [kind |-> "none"]

\* The tickets of a form, and those written so far.
Picked(j) == {j.selected[i] : i \in DOMAIN j.selected}
Moved(j) == {j.selected[i] : i \in 1 .. j.moved}

CreatePCs == {"validate", "insert", "logCreate", "allocMail"}
UpdatePCs == {"setStatus", "logStatus", "closeMail"}
ReassignPCs == {"check", "move", "logMove", "audit"}
EndPCs == {"done", "failed", "rejected"}

Running(r) == pc[r] \in CreatePCs \cup UpdatePCs \cup ReassignPCs
Existing == DOMAIN ticket
Lowest(S) == {t \in S : \A s \in S : t <= s}

LogRow(t, u, from, to) == [id |-> t, by |-> u, from |-> from, to |-> to]
LoggedSlip(row) == \E i \in DOMAIN activity : activity[i].id = row.id
Logged(row) == \E i \in DOMAIN activity : activity[i] = row

-----------------------------------------------------------------------------
Init ==
  /\ ticket = Seeds
  /\ past = [t \in Ids |-> IF t \in DOMAIN Seeds THEN {Seeds[t]} ELSE {}]
  /\ activity = << >>
  /\ audit = {}
  /\ allocMails = [t \in Ids |-> {}]
  /\ closureMails = [t \in Ids |-> 0]
  /\ pc = [r \in Requests |-> "idle"]
  /\ job = [r \in Requests |-> NoJob]
  /\ tries = [r \in Requests |-> 0]
  /\ faults = 0

-----------------------------------------------------------------------------
(* How a statement ends.  Each operator says what happens to the request;  *)
(* the action that uses it says what happened to the tables.               *)

Goto(r, label) ==
  /\ pc' = [pc EXCEPT ![r] = label]
  /\ tries' = [tries EXCEPT ![r] = 0]

\* Applied, and the handler knows it.
Answered(r, label, j) ==
  /\ Goto(r, label)
  /\ job' = [job EXCEPT ![r] = j]
  /\ UNCHANGED faults

\* Applied, the answer was lost, and the statement will be sent again.
Resent(r) ==
  /\ faults < MaxFaults /\ tries[r] + 1 < MaxAttempts
  /\ faults' = faults + 1
  /\ tries' = [tries EXCEPT ![r] = @ + 1]
  /\ UNCHANGED <<pc, job>>

\* The error reaches the handler, which ends, or the worker dies.
GaveUp(r) ==
  /\ faults < MaxFaults
  /\ faults' = faults + 1
  /\ Goto(r, "failed")
  /\ UNCHANGED job

\* A statement that was applied: it succeeded, is sent again, or its error
\* ends the handler.
Applied(r, label, j) == Answered(r, label, j) \/ Resent(r) \/ GaveUp(r)

\* The error of a statement that was not applied ends the handler.
NotApplied(r) == GaveUp(r) /\ UNCHANGED <<tables, mails>>

\* A thread takes up a request.
Start(r, label, j) ==
  /\ pc[r] = "idle"
  /\ Cardinality({q \in Requests : Running(q)}) < Threads
  /\ Goto(r, label)
  /\ job' = [job EXCEPT ![r] = j]
  /\ UNCHANGED <<tables, mails, faults>>

\* INSERT or UPDATE of one row of helpdesk_tickets.
PutRow(t, row) ==
  /\ ticket' = [s \in Existing \cup {t} |-> IF s = t THEN row ELSE ticket[s]]
  /\ past' = [past EXCEPT ![t] = @ \cup {row}]

\* INSERT of an activity row.  uq_activity_dedup refuses an equal row of the
\* same second, which both ticket handlers take for success; a row whose
\* from_status is NULL is never refused.
PutLog(row) ==
  \/ activity' = Append(activity, row)
  \/ row.from # "NULL" /\ Logged(row) /\ UNCHANGED activity

-----------------------------------------------------------------------------
(* create_ticket *)

\* The load routing counts; it leaves out tickets on hold.
Load(u) == Cardinality({t \in Existing : /\ ticket[t].assignee = u
                                         /\ ticket[t].status \in ActiveStatuses})

\* A bound of the model: there is an id left for every ticket being created.
Room == Cardinality({r \in Requests : pc[r] \in {"validate", "insert"}})
          < Cardinality(Ids \ Existing)

StartCreate(r) ==
  Room /\ \E u \in Users, c \in Categories, b \in Blocks \cup {NoBlock},
     k \in Keys \cup {r} :
    /\ k \in Keys => u = KeyOwner[k]
    /\ \E a \in CreateAssignees(c, b, [v \in Users |-> Load(v)]) :
         Start(r, "validate", [kind |-> "create", actor |-> u, category |-> c, key |-> k,
                               assignee |-> a, id |-> NoId, checked |-> FALSE])

\* The department of the chosen assignee is asked of get_user, which answers
\* None when its queries fail: then nothing is compared and the handler goes on.
CheckAssignee(r) ==
  LET j == job[r]
  IN  /\ pc[r] = "validate"
      /\ \/ /\ AssigneeFits(j.assignee, j.category)
            /\ Answered(r, "insert", [j EXCEPT !.checked = TRUE])
         \/ /\ ~AssigneeFits(j.assignee, j.category)
            /\ Answered(r, "rejected", j)
         \/ GaveUp(r)
         \/ faults < MaxFaults /\ faults' = faults + 1 /\ Goto(r, "insert") /\ UNCHANGED job
      /\ UNCHANGED <<tables, mails>>

\* uq_tickets_submission_key lets a row in.
KeyFreeSlip(k) == TRUE
KeyFree(k) == \A s \in Existing : ticket[s].key # k

NewRow(j) == [status |-> "PENDING", assignee |-> j.assignee,
              creator |-> j.actor, category |-> j.category, key |-> j.key]

InsertTicketSlip(r) ==   \* the id of the new row is not kept
  pc[r] = "insert" /\ KeyFree(job[r].key) /\ \E t \in Lowest(Ids \ Existing) :
    /\ PutRow(t, NewRow(job[r])) /\ Applied(r, "logCreate", job[r])
    /\ UNCHANGED <<activity, audit, mails>>

InsertTicket(r) ==
  pc[r] = "insert" /\ KeyFree(job[r].key) /\ \E t \in Lowest(Ids \ Existing) :
    /\ \/ PutRow(t, NewRow(job[r])) /\ Applied(r, "logCreate", [job[r] EXCEPT !.id = t])
          /\ UNCHANGED <<activity, audit, mails>>
       \/ NotApplied(r)

\* uq_tickets_submission_key refuses the row: the handler answers with the
\* ticket that has the key, and does nothing else.
DuplicateTicket(r) ==
  /\ pc[r] = "insert"
  /\ \E s \in Existing :
       /\ ticket[s].key = job[r].key
       /\ \/ Answered(r, "done", [job[r] EXCEPT !.id = s])
          \/ GaveUp(r)
  /\ UNCHANGED <<tables, mails>>

LogCreate(r) ==
  /\ pc[r] = "logCreate"
  /\ \/ PutLog(LogRow(job[r].id, job[r].actor, "NULL", "PENDING"))
        /\ Applied(r, "allocMail", job[r])
        /\ UNCHANGED <<ticket, past, audit, mails>>
     \/ NotApplied(r)

\* The notifications are best effort: an error is swallowed, the request ends.
AllocMail(r) ==
  /\ pc[r] = "allocMail"
  /\ \/ allocMails' = [allocMails EXCEPT ![job[r].id] = @ \cup {job[r].assignee}]
        /\ Answered(r, "done", job[r])
        /\ UNCHANGED <<tables, closureMails>>
     \/ NotApplied(r)
     \/ faults < MaxFaults /\ faults' = faults + 1 /\ Goto(r, "done")
        /\ UNCHANGED <<tables, mails, job>>

-----------------------------------------------------------------------------
(* update_ticket_status, with the statuses its routes accept *)

RawStatuses == Statuses \cup {"CLOSED", "RESOLVE", "INPROGRESS", "ONHOLD"}

Normalised(raw) == CASE raw \in {"CLOSED", "RESOLVE"} -> "RESOLVED"
                     [] raw = "INPROGRESS" -> "IN_PROGRESS"
                     [] raw = "ONHOLD" -> "ON_HOLD"
                     [] OTHER -> raw

StartUpdateSlip(r) ==    \* the permission, but not the transition, is checked
  \E u \in Users, t \in Existing, to \in Statuses :
    /\ Role[u] \in CARoles /\ ticket[t].assignee = u
    /\ Start(r, "setStatus", [kind |-> "update", actor |-> u, id |-> t,
                             from |-> ticket[t].status, to |-> to])

\* The handler reads the ticket, and decides on what it read.
StartUpdate(r) ==
  \E u \in Users, t \in Existing, raw \in RawStatuses :
    /\ MayUpdate(u, ticket[t], Normalised(raw))
    /\ Start(r, "setStatus",
             [kind |-> "update", actor |-> u, id |-> t,
              from |-> ticket[t].status, to |-> Normalised(raw)])

\* UPDATE helpdesk_tickets SET status = ... WHERE id = ...
SetStatus(r) ==
  LET j == job[r]
  IN  /\ pc[r] = "setStatus"
      /\ \/ PutRow(j.id, [ticket[j.id] EXCEPT !.status = j.to])
            /\ Applied(r, "logStatus", j)
            /\ UNCHANGED <<activity, audit, mails>>
         \/ NotApplied(r)

LogStatusSlip(r) ==      \* every status is announced as a closure
  LET j == job[r]
  IN  /\ pc[r] = "logStatus" /\ PutLog(LogRow(j.id, j.actor, j.from, j.to))
      /\ Applied(r, "closeMail", j)
      /\ UNCHANGED <<ticket, past, audit, mails>>

QuietSlip(r) ==          \* only a ticket in progress is announced as closed
  LET j == job[r]
  IN  /\ pc[r] = "logStatus" /\ PutLog(LogRow(j.id, j.actor, j.from, j.to))
      /\ Applied(r, IF j.from = "IN_PROGRESS" THEN "closeMail" ELSE "done", j)
      /\ UNCHANGED <<ticket, past, audit, mails>>

LogStatus(r) ==
  LET j == job[r]
  IN  /\ pc[r] = "logStatus"
      /\ \/ PutLog(LogRow(j.id, j.actor, j.from, j.to))
            /\ Applied(r, IF j.to = "RESOLVED" THEN "closeMail" ELSE "done", j)
            /\ UNCHANGED <<ticket, past, audit, mails>>
         \/ NotApplied(r)

CloseMail(r) ==
  /\ pc[r] = "closeMail"
  /\ \/ closureMails' = [closureMails EXCEPT ![job[r].id] = @ + 1]
        /\ Answered(r, "done", job[r])
        /\ UNCHANGED <<tables, allocMails>>
     \/ NotApplied(r)
     \/ faults < MaxFaults /\ faults' = faults + 1 /\ Goto(r, "done")
        /\ UNCHANGED <<tables, mails, job>>

-----------------------------------------------------------------------------
(* reassign_tickets: tickets are taken in the order of the form, in which  *)
(* nothing keeps one from occurring twice                                   *)

StartReassign(r) ==
  \E m \in Users, src \in Users, dst \in Users, s \in Selections \ {<< >>} :
    /\ MayReassign(m, src, dst)
    /\ \A i \in DOMAIN s : s[i] \in Existing
    /\ Start(r, "check", [kind |-> "reassign", actor |-> m, src |-> src, dst |-> dst,
                          selected |-> s, from |-> << >>, moved |-> 0])

CheckTicketSlip(r) ==    \* the ticket is read but not validated
  LET j == job[r]
  IN  /\ pc[r] = "check" /\ Len(j.from) < Len(j.selected)
      /\ Answered(r, "check",
           [j EXCEPT !.from = Append(@, ticket[j.selected[Len(@) + 1]].status)])
      /\ UNCHANGED <<tables, mails>>

CheckLoopSlip(r) ==      \* the loop does not advance
  /\ pc[r] = "check" /\ Len(job[r].from) < Len(job[r].selected)
  /\ UNCHANGED vars

\* get_ticket of the next selected ticket, and its validation.
CheckTicket(r) ==
  LET j == job[r]
      t == j.selected[Len(j.from) + 1]
  IN  /\ pc[r] = "check" /\ Len(j.from) < Len(j.selected)
      /\ IF Reassignable(j.actor, j.src, ticket[t])
         THEN Answered(r, "check", [j EXCEPT !.from = Append(@, ticket[t].status)])
         ELSE Answered(r, "rejected", j)
      /\ UNCHANGED <<tables, mails>>

CheckDepartmentsSlip(r) ==   \* they are not compared
  /\ pc[r] = "check" /\ Len(job[r].from) = Len(job[r].selected)
  /\ Answered(r, "move", job[r])
  /\ UNCHANGED <<tables, mails>>

\* All of them read: the departments are compared last.
CheckDepartments(r) ==
  LET j == job[r]
  IN  /\ pc[r] = "check" /\ Len(j.from) = Len(j.selected)
      /\ IF \A t \in Picked(j) : AssigneeFits(j.dst, ticket[t].category)
         THEN Answered(r, "move", j)
         ELSE Answered(r, "rejected", j)
      /\ UNCHANGED <<tables, mails>>

MoveTicketSlip(r) ==     \* the timeline is left out
  LET j == job[r]
      t == j.selected[j.moved + 1]
  IN  /\ pc[r] = "move" /\ PutRow(t, [ticket[t] EXCEPT !.assignee = j.dst])
      /\ Applied(r, IF j.moved + 1 = Len(j.selected) THEN "audit" ELSE "move",
                 [j EXCEPT !.moved = @ + 1])
      /\ UNCHANGED <<activity, audit, mails>>

\* UPDATE helpdesk_tickets SET assigned_to = ... WHERE id = ...
MoveTicket(r) ==
  LET j == job[r]
      t == j.selected[j.moved + 1]
  IN  /\ pc[r] = "move"
      /\ \/ PutRow(t, [ticket[t] EXCEPT !.assignee = j.dst])
            /\ Applied(r, "logMove", [j EXCEPT !.moved = @ + 1])
            /\ UNCHANGED <<activity, audit, mails>>
         \/ NotApplied(r)

\* The row of the i-th ticket of the form: the status it had when it was read.
MoveRow(j, i) == LogRow(j.selected[i], j.actor, j.from[i], j.from[i])

\* The activity row of the ticket just moved.  Here a duplicate is not taken
\* for success: it ends the handler like any other error.
LogMove(r) ==
  LET j    == job[r]
      row  == MoveRow(j, j.moved)
      next == IF j.moved = Len(j.selected) THEN "audit" ELSE "move"
  IN  /\ pc[r] = "logMove"
      /\ UNCHANGED <<ticket, past, audit, mails>>
      /\ \/ activity' = Append(activity, row) /\ Applied(r, next, j)
         \/ Logged(row) /\ UNCHANGED activity /\ Answered(r, "failed", j)
         \/ UNCHANGED activity /\ GaveUp(r)

\* log_audit_event swallows every error.
Audit(r) ==
  /\ pc[r] = "audit"
  /\ \/ audit' = audit \cup {r} /\ Answered(r, "done", job[r])
     \/ UNCHANGED audit /\ faults < MaxFaults /\ faults' = faults + 1
        /\ Goto(r, "done") /\ UNCHANGED job
     \/ UNCHANGED audit /\ GaveUp(r)
  /\ UNCHANGED <<ticket, past, activity, mails>>

-----------------------------------------------------------------------------
Step(r) ==
  \/ CheckAssignee(r)
  \/ InsertTicket(r) \/ DuplicateTicket(r) \/ LogCreate(r) \/ AllocMail(r)
  \/ SetStatus(r) \/ LogStatus(r) \/ CloseMail(r)
  \/ CheckTicket(r) \/ CheckDepartments(r)
  \/ MoveTicket(r) \/ LogMove(r) \/ Audit(r)

Arrive(r) == StartCreate(r) \/ StartUpdate(r) \/ StartReassign(r)

\* Every request has ended: the behaviour may stop.
Quiet == (\A r \in Requests : pc[r] \in EndPCs) /\ UNCHANGED vars

Next == (\E r \in Requests : Arrive(r) \/ Step(r)) \/ Quiet

Spec == Init /\ [][Next]_vars

\* A thread that serves a request goes on with it; nobody has to send one.
FairSpec == Spec /\ \A r \in Requests : WF_vars(Step(r))

-----------------------------------------------------------------------------
(* What the handlers guarantee *)

TablesOK ==
  /\ Existing \subseteq Ids /\ ticket \in [Existing -> Row]
  /\ past \in [Ids -> SUBSET Row]
  /\ activity \in Seq([id : Ids, by : Users, from : Statuses \cup {"NULL"},
                       to : Statuses])
  /\ audit \subseteq Requests
  /\ allocMails \in [Ids -> SUBSET Users] /\ closureMails \in [Ids -> Nat]

ControlOK ==
  /\ pc \in [Requests -> {"idle"} \cup CreatePCs \cup UpdatePCs \cup ReassignPCs
                         \cup EndPCs]
  /\ job \in [Requests -> CreateJob \cup UpdateJob \cup ReassignJob \cup {NoJob}]
  /\ \A r \in Requests :
       /\ pc[r] \in CreatePCs => job[r] \in CreateJob
       /\ pc[r] \in UpdatePCs => job[r] \in UpdateJob
       /\ pc[r] \in ReassignPCs => job[r] \in ReassignJob
  /\ tries \in [Requests -> Nat] /\ faults \in Nat

TypeOK == TablesOK /\ ControlOK

\* A form posted twice, or an INSERT sent twice, makes one ticket, and every
\* create that answered names the ticket of its own submission.
OneTicketPerSubmission ==
  /\ \A s, t \in Existing : ticket[s].key = ticket[t].key => s = t
  /\ \A r \in Requests :
       job[r].kind = "create" /\ (pc[r] = "done" \/ job[r].id # NoId)
         => job[r].id \in Existing /\ ticket[job[r].id].key = job[r].key

\* The status of a ticket is never without an explanation: it is PENDING, or
\* the timeline has a row with it, or the request that set it is still on its
\* way to the timeline or failed on it.
StatusAccountedFor ==
  \A t \in Existing :
    \/ ticket[t].status = "PENDING"
    \/ \E i \in DOMAIN activity : activity[i].id = t /\ activity[i].to = ticket[t].status
    \/ \E r \in Requests : /\ job[r].kind = "update" /\ job[r].id = t
                           /\ job[r].to = ticket[t].status
                           /\ pc[r] \in {"setStatus", "logStatus", "failed"}

\* Every status a ticket has had was allowed by a status it had: it is PENDING, or
\* a transition leads to it from another one, however updates overtake each other.
StatusesHaveCause ==
  \A t \in Ids : \A row \in past[t] :
    \/ row.status = "PENDING"
    \/ \E seen \in past[t] : <<seen.status, row.status>> \in ALLOWED_TRANSITIONS

\* A ticket is never lost, keeps what it was opened with, and is never PENDING
\* again, although every UPDATE is by id and whatever became of the row.
TicketsEndure ==
  [][\A t \in Existing :
       /\ t \in Existing'
       /\ ticket'[t].creator = ticket[t].creator
       /\ ticket'[t].category = ticket[t].category
       /\ ticket'[t].key = ticket[t].key
       /\ ticket'[t].status = "PENDING" => ticket[t].status = "PENDING"]_ticket

\* The creation that made this row never learned the assignee's department: the
\* query that asks for it failed.
Unchecked(row) ==
  \E r \in Requests :
    /\ job[r].kind = "create" /\ ~job[r].checked
    /\ pc[r] \notin {"validate", "rejected"}
    /\ job[r].key = row.key /\ job[r].assignee = row.assignee

\* Whoever a ticket belongs to is of the category's department (or of none),
\* however creations and reassignments interleave, but for whom a creation put
\* there unchecked because a query failed: a reassignment never takes a ticket
\* out of its department, whatever fails.
AssigneeInDepartment ==
  \A t \in Existing :
    \/ AssigneeFits(ticket[t].assignee, ticket[t].category)
    \/ faults > 0 /\ Unchecked(ticket[t])

\* Nobody is told that a ticket is closed unless the timeline shows the closure,
\* and a ticket has no more closure notifications than requests that closed it.
ClosureMailHasCause ==
  \A t \in Ids :
    /\ closureMails[t] > 0 =>
         \E i \in DOMAIN activity : activity[i].id = t /\ activity[i].to = "RESOLVED"
    /\ closureMails[t] <= Cardinality({r \in Requests :
         /\ job[r].kind = "update" /\ job[r].id = t /\ job[r].to = "RESOLVED"
         /\ pc[r] \in {"done", "failed"}})

\* An audit event of a reassignment is written only when every selected ticket
\* has been given to the new assignee and the timeline shows it.
AuditedReassignIsComplete ==
  \A r \in audit : \A i \in DOMAIN job[r].selected :
    /\ \E row \in past[job[r].selected[i]] : row.assignee = job[r].dst
    /\ Logged(MoveRow(job[r], i))

\* A request that was answered with success has left what it stands for, however
\* its statements were resent and others wrote between them: the status or the
\* assignee was written, the timeline shows it, and a closure was announced unless
\* a statement failed.  One that was refused has moved nothing.
AnsweredIsDone ==
  \A r \in Requests :
    LET j == job[r]
    IN  /\ j.kind = "update" /\ pc[r] = "done" =>
             /\ \E row \in past[j.id] : row.status = j.to
             /\ Logged(LogRow(j.id, j.actor, j.from, j.to))
             /\ j.to = "RESOLVED" /\ faults = 0 => closureMails[j.id] > 0
        /\ j.kind = "reassign" /\ pc[r] = "done" =>
             /\ j.moved = Len(j.selected)
             /\ \A i \in DOMAIN j.selected :
                  /\ \E row \in past[j.selected[i]] : row.assignee = j.dst
                  /\ Logged(MoveRow(j, i))
        /\ j.kind = "reassign" /\ pc[r] = "rejected" => j.moved = 0

\* Every request a thread has taken up ends.
RequestsEnd == \A r \in Requests : Running(r) ~> pc[r] \in EndPCs

\* Whoever resolves a ticket has its creator told, unless a statement fails.
ResolvedIsAnnounced ==
  \A r \in Requests : \A t \in Ids :
    (pc[r] = "setStatus" /\ job[r].id = t /\ job[r].to = "RESOLVED")
      ~> closureMails[t] > 0 \/ faults > 0

-----------------------------------------------------------------------------
(* What the repository says of the handlers, and the code does not keep *)

\* "Enforce valid status transitions" (update_ticket_status): a ticket's status
\* only ever changes along ALLOWED_TRANSITIONS.
TransitionsEnforced ==
  [][\A t \in Existing : ticket'[t].status # ticket[t].status
       => <<ticket[t].status, ticket'[t].status>> \in ALLOWED_TRANSITIONS]_ticket

\* "Atomic Execution" (reassign_tickets): a reassignment that has ended moved
\* all the selected tickets or none.
ReassignIsAtomic ==
  \A r \in Requests :
    job[r].kind = "reassign" /\ pc[r] \in EndPCs => Moved(job[r]) \in {{}, Picked(job[r])}

-----------------------------------------------------------------------------
(* The promise of the component, see TicketBoard *)

Board == INSTANCE TicketBoard WITH ticket <- ticket, past <- past

\* However requests interleave and statements fail, the tickets change like a
\* board whose every step was allowed by a row the ticket has had.
ImplementsStaleBoard == Board!StaleSpec

\* With one thread they change like a board whose every step is allowed by the
\* ticket as it is.
ImplementsAtomicBoard == Board!AtomicSpec
=============================================================================
