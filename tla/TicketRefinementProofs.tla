----------------------- MODULE TicketRefinementProofs -----------------------
(***************************************************************************)
(* The handlers of TicketLifecycle implement the stale board of            *)
(* TicketBoard, for every value of the constants, and with one thread the  *)
(* atomic one; what follows from that for the history of a ticket.         *)
(*                                                                         *)
(* A write maps to a step of the board, everything else to a stutter.  The *)
(* board step names the row it was decided on, which the handler no longer *)
(* has when it writes: AllJustified says that a row the ticket has had     *)
(* justifies every write that is still to come.  With one thread it is the *)
(* present row, since nobody else is between a read and a write.           *)
(***************************************************************************)
EXTENDS TicketLifecycleProofs, FiniteSetTheorems

\* The rows in ps justify what a request at label with the locals j may write.
Justified(label, j, ps) ==
  /\ label = "setStatus" => \E seen \in ps[j.id] : MayUpdate(j.actor, seen, j.to)
  /\ label \in {"check", "move", "logMove"} =>
       /\ MayReassign(j.actor, j.src, j.dst)
       /\ \A i \in DOMAIN j.from :
            \E seen \in ps[j.selected[i]] : Reassignable(j.actor, j.src, seen)

AllJustified == \A r \in Requests : Justified(pc[r], job[r], past)

RowsKept == \A t \in Existing : ticket[t] \in past[t]

History == AllJustified /\ RowsKept

PastGrows == \A t \in Ids : past[t] \subseteq past'[t]

-----------------------------------------------------------------------------
(* The histories of the tickets *)

LEMMA SameRows ==
  ASSUME UNCHANGED <<ticket, past>>, RowsKept
  PROVE  PastGrows /\ RowsKept'
BY DEF PastGrows, RowsKept, Existing

LEMMA PutRowKeepsRows ==
  ASSUME TypeOK, RowsKept, NEW t \in Ids, NEW row \in Row, PutRow(t, row)
  PROVE  PastGrows /\ RowsKept'
<1>1. /\ past'[t] = past[t] \cup {row}
      /\ \A s \in Ids : s # t => past'[s] = past[s]
  BY DEF TypeOK, TablesOK, PutRow
<1>2. PastGrows
  BY <1>1 DEF PastGrows
<1>3. /\ Existing' = Existing \cup {t} /\ ticket'[t] = row
      /\ \A s \in Existing : s # t => ticket'[s] = ticket[s]
  BY PutRowType DEF TypeOK
<1>4. Existing \subseteq Ids
  BY DEF TypeOK, TablesOK
<1>5. RowsKept'
  BY <1>1, <1>3, <1>4 DEF RowsKept
<1> QED BY <1>2, <1>5

-----------------------------------------------------------------------------
(* The justifications *)

\* A step of r that brings it to label with the locals j, leaves it where it is,
\* or ends it.
Moves(r, label, j) ==
  /\ \A q \in Requests : q # r => pc'[q] = pc[q] /\ job'[q] = job[q]
  /\ \/ pc'[r] = label /\ job'[r] = j
     \/ pc'[r] = pc[r] /\ job'[r] = job[r]
     \/ pc'[r] \in EndPCs

LEMMA AppliedMoves ==
  ASSUME TypeOK, NEW r \in Requests, NEW label, NEW j, Applied(r, label, j)
  PROVE  Moves(r, label, j)
BY DEF TypeOK, ControlOK, Applied, Answered, Resent, GaveUp, Goto, Moves, EndPCs

LEMMA AnsweredMoves ==
  ASSUME TypeOK, NEW r \in Requests, NEW label, NEW j, Answered(r, label, j)
  PROVE  Moves(r, label, j)
BY DEF TypeOK, ControlOK, Answered, Goto, Moves

LEMMA EndedMoves ==
  ASSUME TypeOK, NEW r \in Requests, NEW label \in EndPCs, Goto(r, label), job' = job,
         NEW l, NEW j
  PROVE  Moves(r, l, j)
BY DEF TypeOK, ControlOK, Goto, Moves

LEMMA GaveUpMoves ==
  ASSUME TypeOK, NEW r \in Requests, GaveUp(r), NEW l, NEW j
  PROVE  Moves(r, l, j)
BY EndedMoves DEF GaveUp, EndPCs

LEMMA JustifiedStable ==
  ASSUME IInv, PastGrows, NEW q \in Requests, Justified(pc[q], job[q], past)
  PROVE  Justified(pc[q], job[q], past')
<1>1. pc[q] = "setStatus" => job[q].id \in Ids
  BY DEF IInv, TypeOK, ControlOK, UpdatePCs, UpdateJob
<1>2. pc[q] \in {"check", "move", "logMove"} =>
        \A i \in DOMAIN job[q].from : job[q].selected[i] \in Ids
  <2> SUFFICES ASSUME pc[q] \in {"check", "move", "logMove"}, NEW i \in DOMAIN job[q].from
               PROVE  job[q].selected[i] \in Ids
    OBVIOUS
  <2>1. job[q] \in ReassignJob /\ Len(job[q].from) <= Len(job[q].selected)
    BY DEF IInv, TypeOK, ControlOK, ReassignPCs, JobsFit, JobFits
  <2> QED BY <2>1 DEF ReassignJob
<1> QED BY <1>1, <1>2 DEF Justified, PastGrows

LEMMA StepJustified ==
  ASSUME IInv, AllJustified, PastGrows, NEW r \in Requests, NEW label, NEW j,
         Justified(label, j, past'), Moves(r, label, j)
  PROVE  AllJustified'
<1>1. \A q \in Requests : Justified(pc[q], job[q], past')
  BY JustifiedStable DEF AllJustified
<1>2. Justified(pc'[r], job'[r], past')
  BY <1>1 DEF Moves, Justified, EndPCs
<1> QED BY <1>1, <1>2 DEF AllJustified, Moves

\* Most steps lead where nothing is left to justify.
LEMMA FreeStep ==
  ASSUME IInv, AllJustified, PastGrows, NEW r \in Requests, NEW label, NEW j,
         label \notin {"setStatus", "check", "move", "logMove"}, Moves(r, label, j)
  PROVE  AllJustified'
<1>1. Justified(label, j, past')
  BY DEF Justified
<1> QED BY <1>1, StepJustified

-----------------------------------------------------------------------------
(* Every step keeps the history, and is a step of the board or a stutter *)

Mapped == [Board!StaleNext]_<<ticket, past>>

\* A step that writes no ticket and leaves nothing to justify.
LEMMA IdleStep ==
  ASSUME IInv, History, UNCHANGED <<ticket, past>>, NEW r \in Requests,
         NEW label, NEW j, Justified(label, j, past), Moves(r, label, j)
  PROVE  History' /\ Mapped
<1>1. PastGrows /\ RowsKept'
  BY SameRows DEF History
<1>2. Justified(label, j, past')
  OBVIOUS
<1> QED BY <1>1, <1>2, StepJustified DEF History, Mapped

LEMMA NotAppliedMapped ==
  ASSUME IInv, History, NEW r \in Requests, NotApplied(r)
  PROVE  History' /\ Mapped
<1>1. Moves(r, pc[r], job[r]) /\ Justified(pc[r], job[r], past)
  BY GaveUpMoves DEF NotApplied, IInv, History, AllJustified
<1> QED BY <1>1, IdleStep DEF NotApplied, tables

\* A write that a row allows is a step of the board decided on that row.
LEMMA MoveAllowed ==
  ASSUME NEW t, NEW u, NEW seen, NEW to, MayUpdate(u, seen, to),
         PutRow(t, [ticket[t] EXCEPT !.status = to])
  PROVE  Board!Move(t, u, seen, to)
<1>1. Board!MayUpdate(u, seen, to)
  BY DEF MayUpdate, Board!MayUpdate, CARoles, Board!CARoles,
         ALLOWED_TRANSITIONS, Board!ALLOWED_TRANSITIONS
<1>2. Board!Put(t, [ticket[t] EXCEPT !.status = to])
  BY DEF PutRow, Existing, Board!Put
<1> QED BY <1>1, <1>2 DEF Board!Move

LEMMA HandOverAllowed ==
  ASSUME NEW t, NEW m, NEW src, NEW dst, NEW seen,
         MayReassign(m, src, dst), Reassignable(m, src, seen),
         AssigneeFits(dst, ticket[t].category),
         PutRow(t, [ticket[t] EXCEPT !.assignee = dst])
  PROVE  Board!HandOver(t, m, seen, dst)
<1>1. seen.assignee = src
  BY DEF Reassignable
<1>2. Board!MayReassign(m, seen.assignee, dst)
  BY <1>1 DEF MayReassign, SameDeptName, ManagerRoles, Board!MayReassign,
              Board!SameDeptName, Board!ManagerRoles
<1>3. Board!Reassignable(m, seen.assignee, seen)
  BY <1>1 DEF Reassignable, SameDeptName, Board!Reassignable, Board!SameDeptName
<1>4. Board!AssigneeFits(dst, ticket[t].category)
  BY DEF AssigneeFits, departments_match, Board!AssigneeFits, Board!departments_match
<1>5. Board!Put(t, [ticket[t] EXCEPT !.assignee = dst])
  BY DEF PutRow, Existing, Board!Put
<1> QED BY <1>2, <1>3, <1>4, <1>5 DEF Board!HandOver

\* The board and the handlers have one routing.
LEMMA SameCandidates == ASSUME NEW c PROVE Board!Candidates(c) = Candidates(c)
BY DEF Candidates, MappedCAs, FallbackAssignee, CARoles, ManagerRoles, Board!Candidates,
       Board!MappedCAs, Board!FallbackAssignee, Board!CARoles, Board!ManagerRoles

\* An INSERT that is applied opens a ticket.
LEMMA InsertOpens ==
  ASSUME IInv, NEW r \in Requests, InsertTicket(r)
  PROVE  UNCHANGED <<ticket, past>> \/ Board!Opening
<1>1. CASE NotApplied(r)
  BY <1>1 DEF NotApplied, tables
<1>2. CASE ~NotApplied(r)
  <2>1. PICK t \in Lowest(Ids \ Existing) :
          pc[r] = "insert" /\ KeyFree(job[r].key) /\ PutRow(t, NewRow(job[r]))
    BY <1>2 DEF InsertTicket
  <2> DEFINE row == NewRow(job[r])
  <2>2. t \in Ids /\ t \notin Existing
    BY DEF Lowest
  <2>3. job[r] \in CreateJob /\ job[r].assignee \in Candidates(job[r].category)
    BY <2>1 DEF IInv, TypeOK, ControlOK, CreatePCs, JobsFit, JobFits
  <2>4. /\ row \in Row /\ row.status = "PENDING" /\ row.key = job[r].key
        /\ row.assignee = job[r].assignee /\ row.category = job[r].category
    BY <2>3 DEF NewRow, Row, CreateJob, Statuses
  <2>5. ticket'[t] = row /\ Existing' = Existing \cup {t}
    BY <2>1, <2>2, <2>4, PutRowType DEF IInv, TypeOK
  <2>6. Board!Open(t, row)
    <3>1. row.assignee \in Candidates(row.category)
      BY <2>3, <2>4
    <3>2. row.assignee \in Board!Candidates(row.category)
      BY <3>1, SameCandidates
    <3>3. Board!Put(t, row)
      BY <2>1 DEF PutRow, Existing, Board!Put
    <3>4. \A s \in DOMAIN ticket : ticket[s].key # row.key
      BY <2>1, <2>4 DEF KeyFree, Existing
    <3> QED BY <2>4, <3>2, <3>3, <3>4 DEF Board!Open
  <2>7. t \in (Ids \cap DOMAIN ticket') \ DOMAIN ticket
    BY <2>2, <2>5 DEF Existing
  <2>8. ticket'[t] \in Row /\ Board!Open(t, ticket'[t])
    BY <2>4, <2>5, <2>6
  <2> QED BY <2>7, <2>8 DEF Board!Opening
<1> QED BY <1>1, <1>2

LEMMA InsertTicketMapped ==
  ASSUME IInv, History, NEW r \in Requests, InsertTicket(r)
  PROVE  History' /\ Mapped
<1>1. CASE NotApplied(r)
  BY <1>1, NotAppliedMapped
<1>2. CASE ~NotApplied(r)
  <2>1. PICK t \in Lowest(Ids \ Existing) :
          /\ pc[r] = "insert" /\ KeyFree(job[r].key) /\ PutRow(t, NewRow(job[r]))
          /\ Applied(r, "logCreate", [job[r] EXCEPT !.id = t])
    BY <1>2 DEF InsertTicket
  <2> DEFINE row == NewRow(job[r])
  <2>2. t \in Ids /\ t \notin Existing
    BY DEF Lowest
  <2>3. job[r] \in CreateJob
    BY <2>1 DEF IInv, TypeOK, ControlOK, CreatePCs
  <2>4. /\ row \in Row /\ row.status = "PENDING" /\ row.key = job[r].key
        /\ row.assignee = job[r].assignee /\ row.category = job[r].category
    BY <2>3 DEF NewRow, Row, CreateJob, Statuses
  <2>5. PastGrows /\ RowsKept'
    BY <2>1, <2>2, <2>4, PutRowKeepsRows DEF IInv, History
  <2>6. AllJustified'
    BY <2>1, <2>5, AppliedMoves, FreeStep DEF IInv, History
  <2>7. UNCHANGED <<ticket, past>> \/ Board!Opening
    BY InsertOpens
  <2> QED BY <2>5, <2>6, <2>7 DEF History, Mapped, Board!StaleNext
<1> QED BY <1>1, <1>2

\* Where a creation goes on without having written a ticket.
CreateLabels == {"insert", "allocMail", "done", "rejected"}

LEMMA CheckAssigneeMoves ==
  ASSUME IInv, NEW r \in Requests, CheckAssignee(r)
  PROVE  \E j : Moves(r, "insert", j) \/ Moves(r, "rejected", j)
<1>1. ~job[r].checked
  BY DEF CheckAssignee, IInv, JobsFit, JobFits
<1> QED BY <1>1, CheckAssigneeType DEF IInv, TypeOK, Moves, EndPCs

LEMMA CreateMapped ==
  ASSUME IInv, History, NEW r \in Requests,
         CheckAssignee(r) \/ DuplicateTicket(r) \/ LogCreate(r) \/ AllocMail(r)
  PROVE  History' /\ Mapped
<1>1. UNCHANGED <<ticket, past>>
  BY DEF CheckAssignee, DuplicateTicket, LogCreate, AllocMail, NotApplied, tables
<1>2. \E label \in CreateLabels : \E j : Moves(r, label, j)
  <2>1. CASE CheckAssignee(r)
    BY <2>1, CheckAssigneeMoves DEF CreateLabels
  <2>2. CASE DuplicateTicket(r) \/ LogCreate(r) \/ AllocMail(r)
    BY <2>2, AnsweredMoves, AppliedMoves, GaveUpMoves, EndedMoves
       DEF DuplicateTicket, LogCreate, AllocMail, NotApplied, EndPCs, IInv, CreateLabels
  <2> QED BY <2>1, <2>2
<1>3. \A label \in CreateLabels : \A j : Justified(label, j, past)
  BY DEF Justified, CreateLabels
<1> QED BY <1>1, <1>2, <1>3, IdleStep

LEMMA LoggingMapped ==
  ASSUME IInv, History, NEW r \in Requests, LogStatus(r) \/ CloseMail(r) \/ Audit(r)
  PROVE  History' /\ Mapped
<1>1. UNCHANGED <<ticket, past>>
  BY DEF LogStatus, CloseMail, Audit, NotApplied, tables
<1>2. Moves(r, "done", job[r]) \/ Moves(r, "closeMail", job[r])
  BY AnsweredMoves, AppliedMoves, GaveUpMoves, EndedMoves
     DEF LogStatus, CloseMail, Audit, NotApplied, EndPCs, IInv
<1>3. Justified("done", job[r], past) /\ Justified("closeMail", job[r], past)
  BY DEF Justified
<1> QED BY <1>1, <1>2, <1>3, IdleStep

LEMMA SetStatusMapped ==
  ASSUME IInv, History, NEW r \in Requests, SetStatus(r)
  PROVE  History' /\ Mapped
<1> DEFINE j == job[r]
           t == job[r].id
           row == [ticket[t] EXCEPT !.status = j.to]
<1>1. CASE NotApplied(r)
  BY <1>1, NotAppliedMapped
<1>2. CASE ~NotApplied(r)
  <2>1. pc[r] = "setStatus" /\ PutRow(t, row) /\ Applied(r, "logStatus", j)
    BY <1>2 DEF SetStatus
  <2>2. j \in UpdateJob /\ t \in Existing /\ t \in Ids
    BY <2>1 DEF IInv, TypeOK, TablesOK, ControlOK, UpdatePCs, UpdateJob, JobsFit,
                JobFits, Existing
  <2>3. row \in Row
    BY <2>2 DEF IInv, TypeOK, TablesOK, Row, UpdateJob
  <2>4. PastGrows /\ RowsKept'
    BY <2>1, <2>2, <2>3, PutRowKeepsRows DEF IInv, History
  <2>5. AllJustified'
    BY <2>1, <2>4, AppliedMoves, FreeStep DEF IInv, History
  <2>6. PICK seen \in past[t] : MayUpdate(j.actor, seen, j.to)
    BY <2>1 DEF History, AllJustified, Justified
  <2>7. Board!Move(t, j.actor, seen, j.to)
    BY <2>1, <2>6, MoveAllowed
  <2>8. j.actor \in Users /\ j.to \in Board!Statuses /\ t \in DOMAIN ticket
    BY <2>2 DEF UpdateJob, Statuses, Board!Statuses, Existing
  <2>9. Board!StaleNext
    BY <2>6, <2>7, <2>8 DEF Board!StaleNext, Board!Step
  <2> QED BY <2>4, <2>5, <2>9 DEF History, Mapped
<1> QED BY <1>1, <1>2

LEMMA CheckTicketMapped ==
  ASSUME IInv, History, NEW r \in Requests, CheckTicket(r)
  PROVE  History' /\ Mapped
<1> DEFINE j == job[r]
<1> DEFINE t == j.selected[Len(j.from) + 1]
           k == [j EXCEPT !.from = Append(@, ticket[t].status)]
<1>1. /\ pc[r] = "check" /\ Len(j.from) < Len(j.selected) /\ UNCHANGED <<ticket, past>>
      /\ IF Reassignable(j.actor, j.src, ticket[t])
         THEN Answered(r, "check", k)
         ELSE Answered(r, "rejected", j)
  BY DEF CheckTicket, tables
<1>2. CASE ~Reassignable(j.actor, j.src, ticket[t])
  <2>1. Moves(r, "rejected", j) /\ Justified("rejected", j, past)
    BY <1>1, <1>2, AnsweredMoves DEF IInv, Justified
  <2> QED BY <1>1, <2>1, IdleStep
<1>3. CASE Reassignable(j.actor, j.src, ticket[t])
  <2>1. j \in ReassignJob /\ t \in Existing /\ ticket[t].status \in Statuses
    BY <1>1, CheckedTicket
  <2>2. /\ k.actor = j.actor /\ k.src = j.src /\ k.dst = j.dst /\ k.selected = j.selected
        /\ \A i \in DOMAIN k.from : i \in DOMAIN j.from \/ k.selected[i] = t
    <3>1. k.actor = j.actor /\ k.src = j.src /\ k.dst = j.dst /\ k.selected = j.selected
      BY <2>1 DEF ReassignJob
    <3>2. k.from = Append(j.from, ticket[t].status) /\ j.from \in Seq(Statuses)
      BY <2>1 DEF ReassignJob
    <3>3. \A i \in DOMAIN k.from : i \in DOMAIN j.from \/ i = Len(j.from) + 1
      BY <2>1, <3>2
    <3> HIDE DEF k
    <3> QED BY <3>1, <3>3
  <2>3. /\ MayReassign(j.actor, j.src, j.dst)
        /\ \A i \in DOMAIN j.from :
             \E seen \in past[j.selected[i]] : Reassignable(j.actor, j.src, seen)
    BY <1>1 DEF History, AllJustified, Justified
  <2>4. \E seen \in past[t] : Reassignable(j.actor, j.src, seen)
    BY <1>3, <2>1 DEF History, RowsKept
  <2> HIDE DEF k, t
  <2>5. Justified("check", k, past)
    BY <2>2, <2>3, <2>4 DEF Justified
  <2>6. Moves(r, "check", k)
    BY <1>1, <1>3, AnsweredMoves DEF IInv, k
  <2> QED BY <1>1, <2>5, <2>6, IdleStep
<1> QED BY <1>2, <1>3

LEMMA CheckDepartmentsMapped ==
  ASSUME IInv, History, NEW r \in Requests, CheckDepartments(r)
  PROVE  History' /\ Mapped
<1> DEFINE j == job[r]
<1>1. /\ pc[r] = "check" /\ UNCHANGED <<ticket, past>>
      /\ Answered(r, "move", j) \/ Answered(r, "rejected", j)
  BY DEF CheckDepartments, tables
<1>2. Justified("move", j, past) /\ Justified("rejected", j, past)
  BY <1>1 DEF History, AllJustified, Justified
<1>3. Moves(r, "move", j) \/ Moves(r, "rejected", j)
  BY <1>1, AnsweredMoves DEF IInv
<1> QED BY <1>1, <1>2, <1>3, IdleStep

LEMMA LogMoveMapped ==
  ASSUME IInv, History, NEW r \in Requests, LogMove(r)
  PROVE  History' /\ Mapped
<1> DEFINE j == job[r]
<1>1. pc[r] = "logMove" /\ UNCHANGED <<ticket, past>>
  BY DEF LogMove
<1>2. \A label \in {"audit", "move", "failed"} : Justified(label, j, past)
  BY <1>1 DEF History, AllJustified, Justified
<1>3. \E label \in {"audit", "move", "failed"} : Moves(r, label, j)
  BY AppliedMoves, AnsweredMoves, GaveUpMoves DEF LogMove, IInv
<1> QED BY <1>1, <1>2, <1>3, IdleStep

LEMMA MoveTicketMapped ==
  ASSUME IInv, History, NEW r \in Requests, MoveTicket(r)
  PROVE  History' /\ Mapped
<1> DEFINE j == job[r]
<1>1. CASE NotApplied(r)
  BY <1>1, NotAppliedMapped
<1>2. CASE ~NotApplied(r)
  <2> DEFINE i == j.moved + 1
             t == j.selected[i]
             row == [ticket[t] EXCEPT !.assignee = j.dst]
             k == [j EXCEPT !.moved = i]
  <2>1. pc[r] = "move" /\ PutRow(t, row) /\ Applied(r, "logMove", k)
    BY <1>2 DEF MoveTicket
  <2>2. /\ j \in ReassignJob /\ i \in DOMAIN j.selected
        /\ t \in Existing /\ t \in Ids /\ row \in Row
        /\ AssigneeFits(j.dst, ticket[t].category)
    BY <2>1, MovedTicket
  <2>3. i \in DOMAIN j.from
    BY <2>1, <2>2 DEF IInv, JobsFit, JobFits, ReassignJob
  <2>4. PastGrows /\ RowsKept'
    BY <2>1, <2>2, PutRowKeepsRows DEF IInv, History
  <2>5. /\ MayReassign(j.actor, j.src, j.dst)
        /\ \A n \in DOMAIN j.from :
             \E seen \in past[j.selected[n]] : Reassignable(j.actor, j.src, seen)
    BY <2>1 DEF History, AllJustified, Justified
  <2>6. AllJustified'
    <3>1. /\ k.actor = j.actor /\ k.src = j.src /\ k.dst = j.dst
          /\ k.from = j.from /\ k.selected = j.selected
      BY <2>2 DEF ReassignJob
    <3>2. Justified("move", j, past')
      BY <2>1, <2>4, JustifiedStable DEF History, AllJustified
    <3> HIDE DEF k
    <3>3. Justified("logMove", k, past')
      BY <3>1, <3>2 DEF Justified
    <3> QED BY <2>1, <2>4, <3>3, AppliedMoves, StepJustified DEF IInv, History
  <2>7. PICK seen \in past[t] : Reassignable(j.actor, j.src, seen)
    BY <2>3, <2>5
  <2>8. Board!HandOver(t, j.actor, seen, j.dst)
    BY <2>1, <2>2, <2>5, <2>7, HandOverAllowed
  <2>9. j.actor \in Users /\ j.dst \in Users /\ t \in DOMAIN ticket
    BY <2>2 DEF ReassignJob, Existing
  <2>10. Board!StaleNext
    BY <2>7, <2>8, <2>9 DEF Board!StaleNext, Board!Step
  <2> QED BY <2>4, <2>6, <2>10 DEF History, Mapped
<1> QED BY <1>1, <1>2

-----------------------------------------------------------------------------
(* A request is taken up: what it decides, it decides on the row it reads *)

LEMMA StartMapped ==
  ASSUME IInv, History, NEW r \in Requests, NEW label, NEW j,
         Justified(label, j, past), Start(r, label, j)
  PROVE  History' /\ Mapped
<1>1. UNCHANGED <<ticket, past>> /\ Answered(r, label, j)
  BY DEF Start, tables, Answered
<1> QED BY <1>1, AnsweredMoves, IdleStep DEF IInv

LEMMA ArriveMapped ==
  ASSUME IInv, History, NEW r \in Requests, Arrive(r)
  PROVE  History' /\ Mapped
<1>1. CASE StartCreate(r)
  <2>1. \E j : Start(r, "validate", j)
    BY <1>1 DEF StartCreate
  <2>2. \A j : Justified("validate", j, past)
    BY DEF Justified
  <2> QED BY <2>1, <2>2, StartMapped
<1>2. CASE StartUpdate(r)
  <2>1. PICK u \in Users, t \in Existing, raw \in RawStatuses :
          /\ MayUpdate(u, ticket[t], Normalised(raw))
          /\ Start(r, "setStatus",
                   [kind |-> "update", actor |-> u, id |-> t,
                    from |-> ticket[t].status, to |-> Normalised(raw)])
    BY <1>2 DEF StartUpdate
  <2> DEFINE j == [kind |-> "update", actor |-> u, id |-> t,
                   from |-> ticket[t].status, to |-> Normalised(raw)]
  <2>2. Justified("setStatus", j, past)
    BY <2>1 DEF Justified, History, RowsKept
  <2> QED BY <2>1, <2>2, StartMapped
<1>3. CASE StartReassign(r)
  <2>1. PICK m \in Users, src \in Users, dst \in Users, s \in Selections :
          /\ MayReassign(m, src, dst)
          /\ Start(r, "check", [kind |-> "reassign", actor |-> m, src |-> src, dst |-> dst,
                                selected |-> s, from |-> << >>, moved |-> 0])
    BY <1>3 DEF StartReassign
  <2> DEFINE j == [kind |-> "reassign", actor |-> m, src |-> src, dst |-> dst,
                   selected |-> s, from |-> << >>, moved |-> 0]
  <2>2. Justified("check", j, past)
    BY <2>1 DEF Justified
  <2> QED BY <2>1, <2>2, StartMapped
<1> QED BY <1>1, <1>2, <1>3 DEF Arrive

-----------------------------------------------------------------------------
(* The theorem *)

LEMMA NextMapped ==
  ASSUME IInv, History, [Next]_vars
  PROVE  History' /\ Mapped
<1>1. CASE UNCHANGED vars
  BY <1>1 DEF vars, tables, control, History, AllJustified, RowsKept, Existing, Mapped
<1>2. CASE Quiet
  BY <1>2 DEF Quiet, vars, tables, control, History, AllJustified, RowsKept, Existing,
              Mapped
<1>3. ASSUME NEW r \in Requests, Arrive(r) PROVE History' /\ Mapped
  BY <1>3, ArriveMapped
<1>4. ASSUME NEW r \in Requests, Step(r) PROVE History' /\ Mapped
  BY <1>4, InsertTicketMapped, CreateMapped, LoggingMapped, SetStatusMapped,
     CheckTicketMapped, CheckDepartmentsMapped, LogMoveMapped, MoveTicketMapped DEF Step
<1> QED BY <1>1, <1>2, <1>3, <1>4 DEF Next

LEMMA InitHistory == ASSUME Init PROVE History
<1>1. AllJustified
  BY DEF Init, AllJustified, Justified
<1>2. RowsKept
  BY LifecycleConstants DEF Init, RowsKept, Existing
<1> QED BY <1>1, <1>2 DEF History

\* However requests interleave, statements fail and are sent again, every change
\* of a ticket is one that a row the ticket has had allows: nobody writes a status
\* or an assignee he was never entitled to write.
THEOREM StaleBoardImplemented == Spec => ImplementsStaleBoard
<1>1. Init => History /\ Board!Init
  BY InitHistory DEF Init, Board!Init
<1>2. IInv /\ History /\ [Next]_vars => History' /\ [Board!StaleNext]_Board!board
  BY NextMapped DEF Mapped, Board!board
<1> QED BY <1>1, <1>2, Invariance, PTL DEF Spec, ImplementsStaleBoard, Board!StaleSpec
-----------------------------------------------------------------------------
(* One thread *)

\* At most one request is on its way.
Alone == \A p, q \in Requests : Running(p) /\ Running(q) => p = q

\* What a request at label with the locals j has decided still holds of the rows
\* tk, except where it wrote itself and the answer was lost.
Fresh(label, j, tk) ==
  /\ label = "setStatus" =>
       MayUpdate(j.actor, tk[j.id], j.to) \/ tk[j.id].status = j.to
  /\ label \in {"check", "move", "logMove"} =>
       \A i \in DOMAIN j.from : \/ Reassignable(j.actor, j.src, tk[j.selected[i]])
                                \/ tk[j.selected[i]].assignee = j.dst

Undisturbed == Alone /\ \A r \in Requests : Fresh(pc[r], job[r], ticket)

MappedNow == [Board!AtomicNext]_<<ticket, past>>

LEMMA NothingDecided ==
  ASSUME NEW label, label \notin {"setStatus", "check", "move", "logMove"}, NEW j, NEW tk
  PROVE  Fresh(label, j, tk)
BY DEF Fresh

\* Only the request that is on its way moves, so only its decision is at stake.
LEMMA RunningStep ==
  ASSUME Undisturbed, NEW r \in Requests, Running(r), NEW label, NEW j,
         Moves(r, label, j), Fresh(label, j, ticket'), Fresh(pc[r], job[r], ticket')
  PROVE  Undisturbed'
<1>1. \A q \in Requests : q # r => ~Running(q) /\ pc'[q] = pc[q] /\ job'[q] = job[q]
  BY DEF Undisturbed, Alone, Moves
<1>2. Alone'
  BY <1>1 DEF Alone, Running
<1>3. ASSUME NEW q \in Requests PROVE Fresh(pc'[q], job'[q], ticket')
  <2>1. CASE q # r
    BY <1>1, <2>1, NothingDecided DEF Running, UpdatePCs, ReassignPCs
  <2>2. CASE q = r
    BY <2>2, NothingDecided DEF Moves, EndPCs
  <2> QED BY <2>1, <2>2
<1> QED BY <1>2, <1>3 DEF Undisturbed

\* A statement that reads, or writes no ticket.
LEMMA ReadingStep ==
  ASSUME Undisturbed, NEW r \in Requests, Running(r), NEW label, NEW j,
         Moves(r, label, j), Fresh(label, j, ticket), UNCHANGED <<ticket, past>>
  PROVE  Undisturbed' /\ MappedNow
<1>1. Fresh(label, j, ticket') /\ Fresh(pc[r], job[r], ticket')
  BY DEF Undisturbed
<1> QED BY <1>1, RunningStep DEF MappedNow

\* The row is there already: nothing changes.
LEMMA SameRow ==
  ASSUME TypeOK, RowsKept, NEW t \in Existing, PutRow(t, ticket[t])
  PROVE  UNCHANGED <<ticket, past>>
<1>1. t \in Ids /\ Existing \cup {t} = Existing /\ ticket[t] \in past[t]
  BY DEF TypeOK, TablesOK, RowsKept
<1>2. ticket' = ticket
  <2>1. ticket = [s \in Existing |-> ticket[s]]
    BY DEF TypeOK, TablesOK
  <2>2. ticket' = [s \in Existing |-> ticket[s]]
    BY <1>1 DEF PutRow
  <2> QED BY <2>1, <2>2
<1>3. past' = past
  <2>1. past' = [past EXCEPT ![t] = past[t] \cup {ticket[t]}] /\ past \in [Ids -> SUBSET Row]
    BY DEF PutRow, TypeOK, TablesOK
  <2>2. past[t] \cup {ticket[t]} = past[t]
    BY <1>1
  <2> QED BY <1>1, <2>1, <2>2
<1> QED BY <1>2, <1>3

LEMMA InsertTicketSerial ==
  ASSUME IInv, Undisturbed, NEW r \in Requests, InsertTicket(r)
  PROVE  Undisturbed' /\ MappedNow
<1>1. pc[r] = "insert" /\ Running(r)
  BY DEF InsertTicket, Running, CreatePCs
<1>2. \E j : Moves(r, "logCreate", j)
  BY AppliedMoves, GaveUpMoves DEF InsertTicket, NotApplied, IInv
<1>3. Undisturbed'
  BY <1>1, <1>2, RunningStep, NothingDecided
<1>4. MappedNow
  BY InsertOpens DEF MappedNow, Board!AtomicNext
<1> QED BY <1>3, <1>4

LEMMA CreateSerial ==
  ASSUME IInv, Undisturbed, NEW r \in Requests,
         CheckAssignee(r) \/ DuplicateTicket(r) \/ LogCreate(r) \/ AllocMail(r)
  PROVE  Undisturbed' /\ MappedNow
<1>1. UNCHANGED <<ticket, past>> /\ Running(r)
  BY DEF CheckAssignee, DuplicateTicket, LogCreate, AllocMail, NotApplied, tables, Running,
         CreatePCs
<1>2. \E label \in CreateLabels : \E j : Moves(r, label, j)
  <2>1. CASE CheckAssignee(r)
    BY <2>1, CheckAssigneeMoves DEF CreateLabels
  <2>2. CASE DuplicateTicket(r) \/ LogCreate(r) \/ AllocMail(r)
    BY <2>2, AnsweredMoves, AppliedMoves, GaveUpMoves, EndedMoves
       DEF DuplicateTicket, LogCreate, AllocMail, NotApplied, EndPCs, IInv, CreateLabels
  <2> QED BY <2>1, <2>2
<1>3. \A label \in CreateLabels : \A j : Fresh(label, j, ticket)
  BY NothingDecided DEF CreateLabels
<1> QED BY <1>1, <1>2, <1>3, ReadingStep

LEMMA LoggingSerial ==
  ASSUME IInv, Undisturbed, NEW r \in Requests, LogStatus(r) \/ CloseMail(r) \/ Audit(r)
  PROVE  Undisturbed' /\ MappedNow
<1>1. UNCHANGED <<ticket, past>> /\ Running(r)
  BY DEF LogStatus, CloseMail, Audit, NotApplied, tables, Running, UpdatePCs, ReassignPCs
<1>2. Moves(r, "done", job[r]) \/ Moves(r, "closeMail", job[r])
  BY AnsweredMoves, AppliedMoves, GaveUpMoves, EndedMoves
     DEF LogStatus, CloseMail, Audit, NotApplied, EndPCs, IInv
<1>3. Fresh("done", job[r], ticket) /\ Fresh("closeMail", job[r], ticket)
  BY NothingDecided
<1> QED BY <1>1, <1>2, <1>3, ReadingStep

\* The UPDATE writes what the row as it is allows, or writes it once more.
LEMMA SetStatusSerial ==
  ASSUME IInv, History, Undisturbed, NEW r \in Requests, SetStatus(r)
  PROVE  Undisturbed' /\ MappedNow
<1> DEFINE j == job[r]
           t == job[r].id
           row == [ticket[t] EXCEPT !.status = j.to]
<1>1. pc[r] = "setStatus" /\ Running(r) /\ Fresh("setStatus", j, ticket)
  BY DEF SetStatus, Running, UpdatePCs, Undisturbed
<1>2. CASE NotApplied(r)
  <2>1. Moves(r, "failed", j) /\ Fresh("failed", j, ticket)
    BY <1>2, GaveUpMoves, NothingDecided DEF NotApplied, IInv
  <2> QED BY <1>1, <1>2, <2>1, ReadingStep DEF NotApplied, tables
<1>3. CASE ~NotApplied(r)
  <2>1. PutRow(t, row) /\ Applied(r, "logStatus", j)
    BY <1>3 DEF SetStatus
  <2>2. j \in UpdateJob /\ t \in Existing /\ t \in Ids /\ ticket[t] \in Row
    BY <1>1 DEF IInv, TypeOK, TablesOK, ControlOK, UpdatePCs, UpdateJob, JobsFit,
                JobFits, Existing
  <2>3. row \in Row /\ row.status = j.to
    BY <2>2 DEF Row, UpdateJob
  <2>4. ticket'[t] = row
    BY <2>1, <2>2, <2>3, PutRowType DEF IInv, TypeOK
  <2>5. Undisturbed'
    <3>1. Fresh("setStatus", j, ticket') /\ Fresh("logStatus", j, ticket')
      BY <2>3, <2>4 DEF Fresh
    <3>2. Moves(r, "logStatus", j)
      BY <2>1, AppliedMoves DEF IInv
    <3> QED BY <1>1, <3>1, <3>2, RunningStep
  <2>6. CASE ticket[t].status = j.to
    <3>1. row = ticket[t]
      BY <2>2, <2>6 DEF Row
    <3> QED BY <2>1, <2>2, <2>5, <3>1, SameRow DEF IInv, History, MappedNow
  <2>7. CASE MayUpdate(j.actor, ticket[t], j.to)
    <3>1. Board!MayUpdate(j.actor, ticket[t], j.to)
      BY <2>7 DEF MayUpdate, Board!MayUpdate, CARoles, Board!CARoles,
                  ALLOWED_TRANSITIONS, Board!ALLOWED_TRANSITIONS
    <3>2. Board!Move(t, j.actor, ticket[t], j.to)
      BY <2>1, <3>1 DEF Board!Move, PutRow, Existing, Board!Put
    <3>3. j.actor \in Users /\ j.to \in Board!Statuses /\ t \in DOMAIN ticket
      BY <2>2 DEF UpdateJob, Statuses, Board!Statuses, Existing
    <3> QED BY <2>5, <3>2, <3>3 DEF MappedNow, Board!AtomicNext, Board!Step
  <2> QED BY <1>1, <2>6, <2>7 DEF Fresh
<1> QED BY <1>2, <1>3

LEMMA CheckSerial ==
  ASSUME IInv, Undisturbed, NEW r \in Requests, CheckTicket(r) \/ CheckDepartments(r)
  PROVE  Undisturbed' /\ MappedNow
<1> DEFINE j == job[r]
<1>1. /\ pc[r] = "check" /\ Running(r) /\ UNCHANGED <<ticket, past>>
      /\ Fresh("check", j, ticket) /\ j \in ReassignJob
  BY DEF CheckTicket, CheckDepartments, tables, Running, ReassignPCs, Undisturbed, IInv,
         TypeOK, ControlOK
<1>2. Fresh("move", j, ticket) /\ Fresh("rejected", j, ticket)
  BY <1>1 DEF Fresh
<1>3. CASE CheckDepartments(r)
  <2>1. Moves(r, "move", j) \/ Moves(r, "rejected", j)
    BY <1>3, AnsweredMoves DEF CheckDepartments, IInv
  <2> QED BY <1>1, <1>2, <2>1, ReadingStep
<1>4. CASE CheckTicket(r)
  <2> DEFINE t == j.selected[Len(j.from) + 1]
             k == [j EXCEPT !.from = Append(@, ticket[t].status)]
  <2>1. /\ Len(j.from) < Len(j.selected)
        /\ IF Reassignable(j.actor, j.src, ticket[t])
           THEN Answered(r, "check", k)
           ELSE Answered(r, "rejected", j)
    BY <1>4 DEF CheckTicket
  <2>2. CASE ~Reassignable(j.actor, j.src, ticket[t])
    <3>1. Moves(r, "rejected", j)
      BY <2>1, <2>2, AnsweredMoves DEF IInv
    <3> QED BY <1>1, <1>2, <3>1, ReadingStep
  <2>3. CASE Reassignable(j.actor, j.src, ticket[t])
    <3>1. /\ k.actor = j.actor /\ k.src = j.src /\ k.dst = j.dst /\ k.selected = j.selected
          /\ \A i \in DOMAIN k.from : i \in DOMAIN j.from \/ k.selected[i] = t
      <4>1. ticket[t].status \in Statuses
        BY <1>1, <2>1, CheckedTicket
      <4>2. k.actor = j.actor /\ k.src = j.src /\ k.dst = j.dst /\ k.selected = j.selected
        BY <1>1 DEF ReassignJob
      <4>3. k.from = Append(j.from, ticket[t].status) /\ j.from \in Seq(Statuses)
        BY <1>1 DEF ReassignJob
      <4>4. \A i \in DOMAIN k.from : i \in DOMAIN j.from \/ i = Len(j.from) + 1
        BY <4>1, <4>3
      <4> HIDE DEF k
      <4> QED BY <4>2, <4>4
    <3>2. Moves(r, "check", k)
      BY <2>1, <2>3, AnsweredMoves DEF IInv
    <3> HIDE DEF k, t
    <3>3. Fresh("check", k, ticket)
      BY <1>1, <2>3, <3>1 DEF Fresh
    <3> QED BY <1>1, <3>2, <3>3, ReadingStep
  <2> QED BY <2>2, <2>3
<1> QED BY <1>3, <1>4

LEMMA LogMoveSerial ==
  ASSUME IInv, Undisturbed, NEW r \in Requests, LogMove(r)
  PROVE  Undisturbed' /\ MappedNow
<1> DEFINE j == job[r]
<1>1. /\ pc[r] = "logMove" /\ Running(r) /\ UNCHANGED <<ticket, past>>
      /\ Fresh("logMove", j, ticket)
  BY DEF LogMove, Running, ReassignPCs, Undisturbed
<1>2. \A label \in {"audit", "move", "failed"} : Fresh(label, j, ticket)
  BY <1>1 DEF Fresh
<1>3. \E label \in {"audit", "move", "failed"} : Moves(r, label, j)
  BY AppliedMoves, AnsweredMoves, GaveUpMoves DEF LogMove, IInv
<1> QED BY <1>1, <1>2, <1>3, ReadingStep

\* The same for the UPDATE of a reassignment, one ticket at a time.
LEMMA MoveTicketSerial ==
  ASSUME IInv, History, Undisturbed, NEW r \in Requests, MoveTicket(r)
  PROVE  Undisturbed' /\ MappedNow
<1> DEFINE j == job[r]
<1>1. pc[r] = "move" /\ Running(r) /\ Fresh("move", j, ticket)
  BY DEF MoveTicket, Running, ReassignPCs, Undisturbed
<1>2. CASE NotApplied(r)
  <2>1. Moves(r, "failed", j) /\ Fresh("failed", j, ticket)
    BY <1>2, GaveUpMoves, NothingDecided DEF NotApplied, IInv
  <2> QED BY <1>1, <1>2, <2>1, ReadingStep DEF NotApplied, tables
<1>3. CASE ~NotApplied(r)
  <2> DEFINE i == j.moved + 1
             t == j.selected[i]
             row == [ticket[t] EXCEPT !.assignee = j.dst]
             k == [j EXCEPT !.moved = i]
  <2>1. PutRow(t, row) /\ Applied(r, "logMove", k)
    BY <1>3 DEF MoveTicket
  <2>2. /\ j \in ReassignJob /\ i \in DOMAIN j.selected
        /\ t \in Existing /\ t \in Ids /\ ticket[t] \in Row /\ row \in Row
        /\ AssigneeFits(j.dst, ticket[t].category)
    BY <1>1, MovedTicket
  <2>3. row.assignee = j.dst
    BY <2>2 DEF Row
  <2>4. ticket'[t] = row /\ \A s \in Existing : s # t => ticket'[s] = ticket[s]
    BY <2>1, <2>2, <2>3, PutRowType DEF IInv, TypeOK
  <2>5. /\ MayReassign(j.actor, j.src, j.dst)
        /\ i \in DOMAIN j.from /\ \A n \in DOMAIN j.from : j.selected[n] \in Existing
    BY <1>1, <2>2 DEF History, AllJustified, Justified, IInv, JobsFit, JobFits, ReassignJob,
                      ReassignPCs, Existing
  <2>6. Undisturbed'
    <3>1. /\ k.actor = j.actor /\ k.src = j.src /\ k.dst = j.dst
          /\ k.selected = j.selected /\ k.from = j.from
      BY <2>2 DEF ReassignJob
    <3> HIDE DEF k
    <3>2. \A n \in DOMAIN j.from : \/ Reassignable(j.actor, j.src, ticket'[j.selected[n]])
                                   \/ ticket'[j.selected[n]].assignee = j.dst
      <4>1. \A n \in DOMAIN j.from : \/ Reassignable(j.actor, j.src, ticket[j.selected[n]])
                                     \/ ticket[j.selected[n]].assignee = j.dst
        BY <1>1 DEF Fresh
      <4> HIDE DEF t, row
      <4> QED BY <2>3, <2>4, <2>5, <4>1
    <3>3. Fresh("move", j, ticket') /\ Fresh("logMove", k, ticket')
      BY <3>1, <3>2 DEF Fresh
    <3>4. Moves(r, "logMove", k)
      BY <2>1, AppliedMoves DEF IInv
    <3> QED BY <1>1, <3>3, <3>4, RunningStep
  <2>7. CASE ticket[t].assignee = j.dst
    <3>1. row = ticket[t]
      BY <2>2, <2>7 DEF Row
    <3> QED BY <2>1, <2>2, <2>6, <3>1, SameRow DEF IInv, History, MappedNow
  <2>8. CASE Reassignable(j.actor, j.src, ticket[t])
    <3>1. Board!HandOver(t, j.actor, ticket[t], j.dst)
      BY <2>1, <2>2, <2>5, <2>8, HandOverAllowed
    <3>2. j.actor \in Users /\ j.dst \in Users /\ t \in DOMAIN ticket
      BY <2>2 DEF ReassignJob, Existing
    <3> QED BY <2>6, <3>1, <3>2 DEF MappedNow, Board!AtomicNext, Board!Step
  <2> QED BY <1>1, <2>2, <2>5, <2>7, <2>8 DEF Fresh
<1> QED BY <1>2, <1>3

\* With one thread, nobody is on his way when a request is taken up.
LEMMA ArriveSerial ==
  ASSUME Threads <= 1, IInv, History, Undisturbed, NEW r \in Requests, Arrive(r)
  PROVE  Undisturbed' /\ MappedNow
<1>1. PICK label, j : Start(r, label, j) /\ Fresh(label, j, ticket)
  <2>1. CASE StartCreate(r)
    BY <2>1, NothingDecided DEF StartCreate
  <2>2. CASE StartUpdate(r)
    <3>1. PICK u \in Users, t \in Existing, raw \in RawStatuses :
            /\ MayUpdate(u, ticket[t], Normalised(raw))
            /\ Start(r, "setStatus",
                     [kind |-> "update", actor |-> u, id |-> t,
                      from |-> ticket[t].status, to |-> Normalised(raw)])
      BY <2>2 DEF StartUpdate
    <3> QED BY <3>1 DEF Fresh
  <2>3. CASE StartReassign(r)
    <3>1. PICK m \in Users, src \in Users, dst \in Users, s \in Selections :
            Start(r, "check", [kind |-> "reassign", actor |-> m, src |-> src, dst |-> dst,
                               selected |-> s, from |-> << >>, moved |-> 0])
      BY <2>3 DEF StartReassign
    <3> QED BY <3>1 DEF Fresh
  <2> QED BY <2>1, <2>2, <2>3 DEF Arrive
<1>2. \A q \in Requests : ~Running(q)
  <2> DEFINE S == {q \in Requests : Running(q)}
  <2>1. Cardinality(S) < Threads
    BY <1>1 DEF Start
  <2>2. IsFiniteSet(S) /\ Cardinality(S) \in Nat /\ Threads \in Nat
    BY LifecycleConstants, FS_Subset, FS_CardinalityType
  <2>3. Cardinality(S) = 0
    BY <2>1, <2>2
  <2>4. S = {}
    BY <2>2, <2>3, FS_EmptySet
  <2> QED BY <2>4
<1>3. UNCHANGED <<ticket, past>> /\ Moves(r, label, j)
  BY <1>1, AnsweredMoves DEF Start, tables, Answered, IInv
<1>4. \A q \in Requests : q # r => ~Running(q)' /\ Fresh(pc'[q], job'[q], ticket')
  BY <1>2, <1>3 DEF Moves, Running, Undisturbed
<1>5. Fresh(pc'[r], job'[r], ticket')
  BY <1>1, <1>3, NothingDecided DEF Moves, Undisturbed, EndPCs
<1> QED BY <1>3, <1>4, <1>5 DEF Undisturbed, Alone, MappedNow

LEMMA NextSerial ==
  ASSUME Threads <= 1, IInv, History, Undisturbed, [Next]_vars
  PROVE  Undisturbed' /\ MappedNow
<1>1. CASE UNCHANGED vars \/ Quiet
  BY <1>1 DEF Quiet, vars, tables, control, Undisturbed, Alone, Running, MappedNow
<1>2. ASSUME NEW r \in Requests, Arrive(r) PROVE Undisturbed' /\ MappedNow
  BY <1>2, ArriveSerial
<1>3. ASSUME NEW r \in Requests, Step(r) PROVE Undisturbed' /\ MappedNow
  BY <1>3, InsertTicketSerial, CreateSerial, LoggingSerial, SetStatusSerial, CheckSerial,
     LogMoveSerial, MoveTicketSerial DEF Step
<1> QED BY <1>1, <1>2, <1>3 DEF Next

\* With one thread the handlers are the board whose every step is allowed by the
\* ticket as it is, although statements fail and are sent again.
THEOREM SerialBoardImplemented ==
  ASSUME Threads <= 1
  PROVE  Spec => ImplementsAtomicBoard
<1>1. Init => History /\ Undisturbed /\ Board!Init
  <2> SUFFICES ASSUME Init PROVE History /\ Undisturbed /\ Board!Init
    OBVIOUS
  <2>1. History
    BY InitHistory
  <2>2. \A r \in Requests : pc[r] = "idle"
    BY DEF Init
  <2>3. Undisturbed
    BY <2>2, NothingDecided DEF Undisturbed, Alone, Running, CreatePCs, UpdatePCs,
                                ReassignPCs
  <2>4. Board!Init
    BY DEF Init, Board!Init
  <2> QED BY <2>1, <2>3, <2>4
<1>2. IInv /\ History /\ [Next]_vars => History'
  BY NextMapped
<1>3. IInv /\ History /\ Undisturbed /\ [Next]_vars
        => Undisturbed' /\ [Board!AtomicNext]_Board!board
  BY NextSerial DEF MappedNow, Board!board
<1> QED BY <1>1, <1>2, <1>3, Invariance, PTL
        DEF Spec, ImplementsAtomicBoard, Board!AtomicSpec

-----------------------------------------------------------------------------
(* What the board says of a ticket *)

LEMMA NoWayBack == ASSUME NEW from, NEW to, <<from, to>> \in ALLOWED_TRANSITIONS
                   PROVE  from # to /\ to # "PENDING"
BY DEF ALLOWED_TRANSITIONS

\* A step leaves a row as it was, or is an allowed move of it, or hands it over.
LEMMA StepOnRow ==
  ASSUME TypeOK, NEW t \in Existing, NEW s \in Existing, NEW seen, Board!Step(s, seen)
  PROVE  /\ t \in Existing'
         /\ \/ ticket'[t] = ticket[t]
            \/ /\ t = s
               /\ \/ \E to \in Statuses : /\ ticket'[t] = [ticket[t] EXCEPT !.status = to]
                                         /\ <<seen.status, to>> \in ALLOWED_TRANSITIONS
                  \/ \E dst \in Users : ticket'[t] = [ticket[t] EXCEPT !.assignee = dst]
<1>1. PICK u \in Users : \/ \E to \in Board!Statuses : Board!Move(s, u, seen, to)
                         \/ \E dst \in Users : Board!HandOver(s, u, seen, dst)
  BY DEF Board!Step
<1>2. ASSUME NEW row, Board!Put(s, row)
      PROVE  t \in Existing' /\ ticket'[t] = IF t = s THEN row ELSE ticket[t]
  BY <1>2 DEF Board!Put, Existing
<1>3. ASSUME NEW to \in Board!Statuses, Board!Move(s, u, seen, to)
      PROVE  to \in Statuses /\ <<seen.status, to>> \in ALLOWED_TRANSITIONS
  BY <1>3 DEF Board!Move, Board!MayUpdate, ALLOWED_TRANSITIONS,
              Board!ALLOWED_TRANSITIONS, Statuses, Board!Statuses
<1>4. ASSUME NEW to \in Board!Statuses, Board!Move(s, u, seen, to)
      PROVE  /\ t \in Existing'
             /\ ticket'[t] = IF t = s THEN [ticket[t] EXCEPT !.status = to] ELSE ticket[t]
  BY <1>2, <1>4 DEF Board!Move
<1>5. ASSUME NEW dst \in Users, Board!HandOver(s, u, seen, dst)
      PROVE  /\ t \in Existing'
             /\ ticket'[t] = IF t = s THEN [ticket[t] EXCEPT !.assignee = dst] ELSE ticket[t]
  BY <1>2, <1>5 DEF Board!HandOver
<1> QED BY <1>1, <1>3, <1>4, <1>5

LEMMA OpeningOnRow ==
  ASSUME NEW t \in Existing, Board!Opening
  PROVE  t \in Existing' /\ ticket'[t] = ticket[t]
BY DEF Board!Opening, Board!Open, Board!Put, Existing

\* The theorem for TransitionsEnforced.  It is violated by two threads: with one,
\* the check of update_ticket_status is as good as a check of the row it writes.
THEOREM SerialTransitions ==
  ASSUME Threads <= 1
  PROVE  Spec => TransitionsEnforced
<1> DEFINE Enforced == \A t \in Existing : ticket'[t].status # ticket[t].status
             => <<ticket[t].status, ticket'[t].status>> \in ALLOWED_TRANSITIONS
<1>1. TypeOK /\ [Board!AtomicNext]_Board!board => [Enforced]_ticket
  <2> SUFFICES ASSUME TypeOK, Board!AtomicNext, NEW t \in Existing,
                      ticket'[t].status # ticket[t].status
               PROVE  <<ticket[t].status, ticket'[t].status>> \in ALLOWED_TRANSITIONS
    BY DEF Board!board
  <2>1. ticket[t] \in Row
    BY DEF TypeOK, TablesOK
  <2>2. CASE Board!Opening
    BY <2>2, OpeningOnRow
  <2>3. ASSUME NEW s \in Existing, Board!Step(s, ticket[s])
        PROVE  <<ticket[t].status, ticket'[t].status>> \in ALLOWED_TRANSITIONS
    BY <2>1, <2>3, StepOnRow DEF Row
  <2> QED BY <2>2, <2>3 DEF Board!AtomicNext, Existing
<1> QED BY <1>1, SerialBoardImplemented, TypeCorrect, PTL
        DEF ImplementsAtomicBoard, Board!AtomicSpec, TransitionsEnforced

\* Of TransitionsEnforced this much is left when handlers overtake each other: a
\* status comes from a status the ticket has had by an allowed transition.
THEOREM StatusesCaused == Spec => []StatusesHaveCause
<1>1. Init => StatusesHaveCause
  <2> SUFFICES ASSUME Init, NEW t \in Ids, NEW row \in past[t] PROVE row.status = "PENDING"
    BY DEF StatusesHaveCause
  <2> QED BY LifecycleConstants DEF Init
<1>2. TypeOK /\ RowsKept /\ StatusesHaveCause /\ [Board!StaleNext]_Board!board
        => StatusesHaveCause'
  <2> SUFFICES ASSUME TypeOK, RowsKept, StatusesHaveCause, Board!StaleNext,
                      NEW t \in Ids, NEW row \in past'[t]
               PROVE  \/ row.status = "PENDING"
                      \/ \E seen \in past'[t] :
                           <<seen.status, row.status>> \in ALLOWED_TRANSITIONS
    BY DEF StatusesHaveCause, Board!board
  <2>1. ASSUME NEW s, NEW new, Board!Put(s, new)
        PROVE  past[t] \subseteq past'[t] /\ (row \in past[t] \/ (t = s /\ row = new))
    BY <2>1 DEF Board!Put, TypeOK, TablesOK
  <2>2. ASSUME past[t] \subseteq past'[t], NEW old \in past[t], row.status = old.status
        PROVE  \/ row.status = "PENDING"
               \/ \E seen \in past'[t] :
                    <<seen.status, row.status>> \in ALLOWED_TRANSITIONS
    BY <2>2 DEF StatusesHaveCause
  <2>3. CASE Board!Opening
    BY <2>1, <2>2, <2>3 DEF Board!Opening, Board!Open
  <2>4. ASSUME NEW s \in Existing, NEW seen \in past[s], NEW u \in Users,
               NEW to \in Board!Statuses, Board!Move(s, u, seen, to)
        PROVE  \/ row.status = "PENDING"
               \/ \E old \in past'[t] :
                    <<old.status, row.status>> \in ALLOWED_TRANSITIONS
    <3>1. <<seen.status, to>> \in ALLOWED_TRANSITIONS
      BY <2>4 DEF Board!Move, Board!MayUpdate, ALLOWED_TRANSITIONS,
                  Board!ALLOWED_TRANSITIONS
    <3>2. [ticket[s] EXCEPT !.status = to].status = to
      BY DEF TypeOK, TablesOK, Row
    <3>3. \/ row \in past[t]
          \/ t = s /\ row = [ticket[s] EXCEPT !.status = to]
      BY <2>1, <2>4 DEF Board!Move
    <3>4. past[t] \subseteq past'[t]
      BY <2>1, <2>4 DEF Board!Move
    <3> QED BY <2>2, <2>4, <3>1, <3>2, <3>3, <3>4
  <2>5. ASSUME NEW s \in Existing, NEW seen \in past[s], NEW u \in Users,
               NEW dst \in Users, Board!HandOver(s, u, seen, dst)
        PROVE  \/ row.status = "PENDING"
               \/ \E old \in past'[t] :
                    <<old.status, row.status>> \in ALLOWED_TRANSITIONS
    <3>1. [ticket[s] EXCEPT !.assignee = dst].status = ticket[s].status
      BY DEF TypeOK, TablesOK, Row
    <3>2. ticket[s] \in past[s]
      BY DEF RowsKept
    <3>3. past[t] \subseteq past'[t]
      BY <2>1, <2>5 DEF Board!HandOver
    <3>4. \/ row \in past[t]
          \/ t = s /\ row = [ticket[s] EXCEPT !.assignee = dst]
      BY <2>1, <2>5 DEF Board!HandOver
    <3> QED BY <2>2, <3>1, <3>2, <3>3, <3>4
  <2> QED BY <2>3, <2>4, <2>5 DEF Board!StaleNext, Board!Step, Existing
<1>3. IInv /\ History /\ [Next]_vars => History' /\ [Board!StaleNext]_Board!board
  BY NextMapped DEF Mapped, Board!board
<1>4. IInv /\ History => TypeOK /\ RowsKept
  BY DEF IInv, History
<1>5. Init => History
  BY InitHistory
<1> QED BY <1>1, <1>2, <1>3, <1>4, <1>5, Invariance, PTL DEF Spec

\* Rows are written by id and never deleted: what a ticket was opened with stays,
\* and no update, however late, makes it PENDING again.
THEOREM TicketsStay == Spec => TicketsEndure
<1> DEFINE Stays(t) == /\ t \in Existing'
                       /\ ticket'[t].creator = ticket[t].creator
                       /\ ticket'[t].category = ticket[t].category
                       /\ ticket'[t].key = ticket[t].key
                       /\ ticket'[t].status = "PENDING" => ticket[t].status = "PENDING"
<1>1. TypeOK /\ [Board!StaleNext]_Board!board => [\A t \in Existing : Stays(t)]_ticket
  <2> SUFFICES ASSUME TypeOK, Board!StaleNext, NEW t \in Existing PROVE Stays(t)
    BY DEF Board!board
  <2>1. ticket[t] \in Row
    BY DEF TypeOK, TablesOK
  <2>2. CASE Board!Opening
    BY <2>2, OpeningOnRow
  <2>3. ASSUME NEW s \in Existing, NEW seen, Board!Step(s, seen) PROVE Stays(t)
    <3>1. ASSUME NEW to \in Statuses, ticket'[t] = [ticket[t] EXCEPT !.status = to],
                 <<seen.status, to>> \in ALLOWED_TRANSITIONS, t \in Existing'
          PROVE  Stays(t)
      BY <2>1, <3>1, NoWayBack DEF Row
    <3>2. ASSUME NEW dst \in Users, ticket'[t] = [ticket[t] EXCEPT !.assignee = dst],
                 t \in Existing'
          PROVE  Stays(t)
      BY <2>1, <3>2 DEF Row
    <3>3. ASSUME ticket'[t] = ticket[t], t \in Existing' PROVE Stays(t)
      BY <3>3
    <3> HIDE DEF Stays
    <3> QED BY <2>3, <3>1, <3>2, <3>3, StepOnRow
  <2> QED BY <2>2, <2>3 DEF Board!StaleNext, Existing
<1> QED BY <1>1, StaleBoardImplemented, TypeCorrect, PTL
        DEF ImplementsStaleBoard, Board!StaleSpec, TicketsEndure
=============================================================================
