----------------------- MODULE TicketLifecycleProofs -----------------------
(***************************************************************************)
(* Proofs about TicketLifecycle, for every number of users, categories,    *)
(* tickets, requests, threads and failures.                                *)
(*                                                                         *)
(* IInv is the inductive invariant everything rests on.  Beside the types  *)
(* it says what a request on its way knows of the tables (JobsFit), so     *)
(* that what a handler checked before it wrote still holds when it writes; *)
(* DInv adds that a creation that compared nothing has met with a failure. *)
(* Of the rules there is one theorem, that routing finds an assignee.      *)
(***************************************************************************)
EXTENDS TicketLifecycle, FiniteSetTheorems, WellFoundedInduction, TLAPS

PCs == {"idle"} \cup CreatePCs \cup UpdatePCs \cup ReassignPCs \cup EndPCs
Jobs == CreateJob \cup UpdateJob \cup ReassignJob \cup {NoJob}

\* A job is of the kind its statement belongs to.
JobFor(label, j) ==
  /\ j \in Jobs
  /\ label \in CreatePCs => j \in CreateJob
  /\ label \in UpdatePCs => j \in UpdateJob
  /\ label \in ReassignPCs => j \in ReassignJob

\* What a request whose next statement is label knows of the rows tk.  The last
\* three conjuncts carry routing and the department check to the statement that
\* writes.
JobFits(label, j, tk) ==
  /\ label \in {"logCreate", "allocMail"} \cup UpdatePCs => j.id \in DOMAIN tk
  /\ label \in ReassignPCs => /\ \A i \in DOMAIN j.selected : j.selected[i] \in DOMAIN tk
                              /\ j.selected # << >>
                              /\ Len(j.from) <= Len(j.selected)
  /\ label = "idle" => j = NoJob
  /\ label = "check" => j.moved = 0
  /\ label \in {"move", "logMove", "audit"} => Len(j.from) = Len(j.selected)
  /\ label = "move" => j.moved < Len(j.selected)
  /\ label = "logMove" => j.moved \in 1 .. Len(j.selected)
  /\ label = "audit" => j.moved = Len(j.selected)
  /\ label = "validate" => ~j.checked
  /\ label \in {"validate", "insert"} => j.assignee \in Candidates(j.category)
  /\ label = "insert" /\ j.checked => AssigneeFits(j.assignee, j.category)
  /\ label \in {"move", "logMove"} =>
       \A i \in DOMAIN j.selected : AssigneeFits(j.dst, tk[j.selected[i]].category)

JobsFit == \A r \in Requests : JobFits(pc[r], job[r], ticket)

IInv == TypeOK /\ JobsFit

\* Rows are never deleted, and a ticket keeps its category.
Grows == /\ Existing \subseteq Existing'
         /\ \A t \in Existing : ticket'[t].category = ticket[t].category

-----------------------------------------------------------------------------
(* What the end of a statement does to the control of the handlers *)

LEMMA GotoType ==
  ASSUME ControlOK, NEW r \in Requests, NEW label \in PCs, Goto(r, label)
  PROVE  /\ pc' \in [Requests -> PCs] /\ tries' \in [Requests -> Nat]
         /\ pc'[r] = label
         /\ \A q \in Requests : q # r => pc'[q] = pc[q]
BY DEF ControlOK, Goto, PCs

LEMMA AnsweredType ==
  ASSUME ControlOK, NEW r \in Requests, NEW label \in PCs, NEW j,
         JobFor(label, j), Answered(r, label, j)
  PROVE  /\ ControlOK'
         /\ pc'[r] = label /\ job'[r] = j
         /\ \A q \in Requests : q # r => pc'[q] = pc[q] /\ job'[q] = job[q]
<1>1. /\ pc' \in [Requests -> PCs] /\ tries' \in [Requests -> Nat]
      /\ pc'[r] = label
      /\ \A q \in Requests : q # r => pc'[q] = pc[q]
  BY GotoType DEF Answered
<1>2. /\ job' \in [Requests -> Jobs] /\ job'[r] = j
      /\ \A q \in Requests : q # r => job'[q] = job[q]
  BY DEF ControlOK, Answered, JobFor, Jobs
<1>3. \A q \in Requests : JobFor(pc'[q], job'[q])
  BY <1>1, <1>2 DEF ControlOK, JobFor, Jobs
<1>4. faults' \in Nat
  BY DEF ControlOK, Answered
<1> QED BY <1>1, <1>2, <1>3, <1>4 DEF ControlOK, JobFor, PCs, Jobs

LEMMA ResentType ==
  ASSUME ControlOK, NEW r \in Requests, Resent(r)
  PROVE  ControlOK' /\ pc' = pc /\ job' = job
BY DEF ControlOK, Resent

LEMMA EndedType ==
  ASSUME ControlOK, NEW r \in Requests, NEW label \in EndPCs,
         Goto(r, label), job' = job, faults' = faults + 1
  PROVE  /\ ControlOK' /\ pc'[r] = label
         /\ \A q \in Requests : q # r => pc'[q] = pc[q]
<1>1. /\ pc' \in [Requests -> PCs] /\ tries' \in [Requests -> Nat]
      /\ pc'[r] = label
      /\ \A q \in Requests : q # r => pc'[q] = pc[q]
  BY GotoType DEF PCs, EndPCs
<1>2. faults' \in Nat
  BY DEF ControlOK
<1>3. \A q \in Requests : JobFor(pc'[q], job'[q])
  BY <1>1 DEF ControlOK, JobFor, Jobs, CreatePCs, UpdatePCs, ReassignPCs, EndPCs
<1> QED BY <1>1, <1>2, <1>3 DEF ControlOK, JobFor, PCs, Jobs

\* The comparison of departments: the job is as it was, but for the mark that
\* it was made; without the mark the insert comes next after a failure only.
LEMMA CheckAssigneeType ==
  ASSUME ControlOK, NEW r \in Requests, ~job[r].checked, CheckAssignee(r)
  PROVE  /\ ControlOK' /\ UNCHANGED <<tables, mails>>
         /\ pc[r] = "validate" /\ pc'[r] \in {"insert", "rejected", "failed"}
         /\ job[r] \in CreateJob /\ job'[r] \in CreateJob
         /\ job'[r] = [job[r] EXCEPT !.checked = job'[r].checked]
         /\ job'[r].checked => AssigneeFits(job[r].assignee, job[r].category)
         /\ \/ faults' = faults /\ (pc'[r] # "rejected" => job'[r].checked)
            \/ faults' = faults + 1
         /\ \A q \in Requests : q # r => pc'[q] = pc[q] /\ job'[q] = job[q]
<1> DEFINE k == [job[r] EXCEPT !.checked = TRUE]
<1>1. /\ pc[r] = "validate" /\ UNCHANGED <<tables, mails>>
      /\ \/ /\ AssigneeFits(job[r].assignee, job[r].category)
            /\ Answered(r, "insert", k)
         \/ Answered(r, "rejected", job[r])
         \/ GaveUp(r)
         \/ faults' = faults + 1 /\ Goto(r, "insert") /\ UNCHANGED job
  BY DEF CheckAssignee
<1>2. job[r] \in CreateJob
  BY <1>1 DEF ControlOK, CreatePCs
<1>3. k \in CreateJob /\ k.checked /\ job[r] = [job[r] EXCEPT !.checked = FALSE]
      /\ k = [job[r] EXCEPT !.checked = k.checked]
      /\ job[r] = [job[r] EXCEPT !.checked = job[r].checked]
  BY <1>2 DEF CreateJob
<1> HIDE DEF k
<1>4. JobFor("insert", k) /\ JobFor("rejected", job[r]) /\ {"insert", "rejected"} \subseteq PCs
  BY <1>2, <1>3 DEF JobFor, Jobs, PCs, EndPCs, CreatePCs, UpdatePCs, ReassignPCs
<1>5. CASE AssigneeFits(job[r].assignee, job[r].category) /\ Answered(r, "insert", k)
  <2>1. /\ ControlOK' /\ pc'[r] = "insert" /\ job'[r] = k
        /\ \A q \in Requests : q # r => pc'[q] = pc[q] /\ job'[q] = job[q]
    BY <1>4, <1>5, AnsweredType
  <2> QED BY <1>1, <1>2, <1>3, <1>5, <2>1 DEF Answered
<1>6. CASE Answered(r, "rejected", job[r])
  <2>1. /\ ControlOK' /\ pc'[r] = "rejected" /\ job'[r] = job[r]
        /\ \A q \in Requests : q # r => pc'[q] = pc[q] /\ job'[q] = job[q]
    BY <1>4, <1>6, AnsweredType
  <2> QED BY <1>1, <1>2, <1>3, <1>6, <2>1 DEF Answered
<1>7. CASE GaveUp(r)
  <2>1. /\ ControlOK' /\ pc'[r] = "failed" /\ job' = job
        /\ \A q \in Requests : q # r => pc'[q] = pc[q]
    BY <1>7, EndedType DEF GaveUp, EndPCs
  <2> QED BY <1>1, <1>2, <1>3, <1>7, <2>1 DEF GaveUp
<1>8. CASE faults' = faults + 1 /\ Goto(r, "insert") /\ UNCHANGED job
  <2>1. /\ pc' \in [Requests -> PCs] /\ tries' \in [Requests -> Nat]
        /\ pc'[r] = "insert"
        /\ \A q \in Requests : q # r => pc'[q] = pc[q]
    BY <1>4, <1>8, GotoType
  <2>2. \A q \in Requests : JobFor(pc'[q], job'[q])
    BY <1>2, <1>8, <2>1 DEF ControlOK, JobFor, Jobs, CreatePCs, UpdatePCs, ReassignPCs
  <2>3. ControlOK'
    BY <1>8, <2>1, <2>2 DEF ControlOK, JobFor, PCs, Jobs
  <2> QED BY <1>1, <1>2, <1>3, <1>8, <2>1, <2>3
<1> QED BY <1>1, <1>5, <1>6, <1>7, <1>8

\* The request either has gone on, or is where it was, or has ended.
LEMMA AppliedType ==
  ASSUME ControlOK, NEW r \in Requests, NEW label \in PCs, NEW j,
         JobFor(label, j), Applied(r, label, j)
  PROVE  /\ ControlOK'
         /\ \A q \in Requests : q # r => pc'[q] = pc[q] /\ job'[q] = job[q]
         /\ \/ pc'[r] = label /\ job'[r] = j
            \/ pc'[r] = pc[r] /\ job'[r] = job[r]
            \/ pc'[r] = "failed" /\ job'[r] = job[r]
BY AnsweredType, ResentType, EndedType DEF Applied, GaveUp, EndPCs

-----------------------------------------------------------------------------
(* What other requests know stays true while the tables grow *)

LEMMA FitsStable ==
  ASSUME TypeOK, Grows, NEW q \in Requests, JobFits(pc[q], job[q], ticket)
  PROVE  JobFits(pc[q], job[q], ticket')
BY DEF JobFits, Grows, Existing, TypeOK, ControlOK, ReassignPCs, ReassignJob

LEMMA AppliedFits ==
  ASSUME TypeOK, JobsFit, Grows, NEW r \in Requests, NEW label \in PCs, NEW j,
         JobFor(label, j), JobFits(label, j, ticket'), Applied(r, label, j)
  PROVE  ControlOK' /\ JobsFit'
<1>1. JobFits("failed", job[r], ticket')
  BY DEF JobFits, UpdatePCs, ReassignPCs
<1>2. \A q \in Requests : JobFits(pc[q], job[q], ticket')
  BY FitsStable DEF JobsFit
<1> QED BY AppliedType, <1>1, <1>2 DEF TypeOK, JobsFit

LEMMA AnsweredFits ==
  ASSUME TypeOK, JobsFit, Grows, NEW r \in Requests, NEW label \in PCs, NEW j,
         JobFor(label, j), JobFits(label, j, ticket'), Answered(r, label, j)
  PROVE  ControlOK' /\ JobsFit'
<1>1. Applied(r, label, j)
  BY DEF Applied
<1> QED BY <1>1, AppliedFits

LEMMA EndedFits ==
  ASSUME TypeOK, JobsFit, Grows, NEW r \in Requests, NEW label \in EndPCs,
         Goto(r, label), job' = job, faults' = faults + 1
  PROVE  ControlOK' /\ JobsFit'
<1>1. JobFits(label, job[r], ticket')
  BY DEF JobFits, UpdatePCs, ReassignPCs, EndPCs
<1>2. \A q \in Requests : JobFits(pc[q], job[q], ticket')
  BY FitsStable DEF JobsFit
<1> QED BY EndedType, <1>1, <1>2 DEF TypeOK, JobsFit

LEMMA NotAppliedFits ==
  ASSUME IInv, NEW r \in Requests, NotApplied(r)
  PROVE  IInv'
<1>1. Grows /\ TablesOK'
  BY DEF NotApplied, tables, mails, Grows, IInv, TypeOK, TablesOK, Existing
<1>2. ControlOK' /\ JobsFit'
  BY <1>1, EndedFits DEF NotApplied, GaveUp, EndPCs, IInv
<1> QED BY <1>1, <1>2 DEF IInv, TypeOK

LEMMA PutRowType ==
  ASSUME TablesOK, NEW t \in Ids, NEW row \in Row, PutRow(t, row)
  PROVE  /\ Existing' = Existing \cup {t} /\ Existing' \subseteq Ids
         /\ ticket' \in [Existing' -> Row]
         /\ ticket'[t] = row
         /\ \A s \in Existing : s # t => ticket'[s] = ticket[s]
         /\ past' \in [Ids -> SUBSET Row]
BY DEF TablesOK, PutRow, Existing

LogRows == [id : Ids, by : Users, from : Statuses \cup {"NULL"}, to : Statuses]

LEMMA AppendType ==
  ASSUME NEW S, NEW s \in Seq(S), NEW e \in S
  PROVE  Append(s, e) \in Seq(S)
OBVIOUS

LEMMA PutLogType ==
  ASSUME TablesOK, NEW row \in LogRows, PutLog(row)
  PROVE  activity' \in Seq(LogRows)
<1>1. activity \in Seq(LogRows)
  BY DEF TablesOK, LogRows
<1> QED BY <1>1, AppendType DEF PutLog

LEMMA LogRowType ==
  ASSUME NEW t \in Ids, NEW u \in Users, NEW from \in Statuses \cup {"NULL"},
         NEW to \in Statuses
  PROVE  LogRow(t, u, from, to) \in LogRows
BY DEF LogRow, LogRows

-----------------------------------------------------------------------------
(* Routing only ever names users *)

LEMMA LeastLoadedSubset ==
  ASSUME NEW cas, NEW load
  PROVE  select_least_loaded_ca(cas, load) \subseteq cas
BY DEF select_least_loaded_ca

LEMMA MappedUsers ==
  ASSUME NEW rows \in SUBSET Mappings
  PROVE  MappedCAs(rows) \subseteq Users
<1> SUFFICES ASSUME NEW m \in rows PROVE m.ca \in Users
  BY DEF MappedCAs
<1> QED BY ConstantsOK

LEMMA RoutedUsers ==
  ASSUME NEW c \in Categories, NEW block, NEW load
  PROVE  CreateAssignees(c, block, load) \subseteq Users
<1> DEFINE mine     == {m \in Mappings : m.category = c}
           specific == IF block = NoBlock THEN {}
                       ELSE {m \in mine : m.block \in Aliases[block] \ {AllBlocks}}
           general  == IF block = NoBlock THEN {}
                       ELSE {m \in mine : m.block = AllBlocks}
           pool     == IF specific # {} THEN specific
                       ELSE IF general # {} THEN general ELSE mine
<1>1. pool \in SUBSET Mappings
  OBVIOUS
<1>2. select_least_loaded_ca(MappedCAs(pool), load) \subseteq Users
  <2>1. MappedCAs(pool) \subseteq Users
    BY <1>1, MappedUsers
  <2> QED BY <2>1, LeastLoadedSubset
<1>3. {DefaultCA[c]} \ {NoUser} \subseteq Users
  BY ConstantsOK
<1>4. resolve_assigned_ca(c, block, load) \subseteq Users
  <2> HIDE DEF pool
  <2>1. resolve_assigned_ca(c, block, load) =
          IF pool # {} THEN select_least_loaded_ca(MappedCAs(pool), load)
          ELSE {DefaultCA[c]} \ {NoUser}
    BY DEF resolve_assigned_ca, pool
  <2> QED BY <2>1, <1>2, <1>3
<1>5. FallbackAssignee(c) \subseteq Users
  BY ConstantsOK DEF FallbackAssignee
<1> QED BY <1>4, <1>5 DEF CreateAssignees

-----------------------------------------------------------------------------
(* There is a lowest id, a least loaded assignee, an assignee at all *)

Below == {p \in Nat \X Nat : p[1] < p[2]}

LEMMA LeastOfNaturals ==
  ASSUME NEW T, T \subseteq Nat, T # {}
  PROVE  \E x \in T : \A y \in T : x <= y
<1>1. IsWellFoundedOn(Below, Nat)
  BY NatLessThanWellFounded DEF OpToRel, Below
<1>2. \E x \in T : \A y \in T : ~ (<<y, x>> \in Below)
  BY <1>1, WFMin, Zenon
<1>3. PICK x \in T : \A y \in T : ~ (<<y, x>> \in Below)
  BY <1>2
<1>4. ASSUME NEW y \in T PROVE x <= y
  <2>1. x \in Nat /\ y \in Nat /\ ~ (<<y, x>> \in Below)
    BY <1>3
  <2>2. ~ (y < x)
    BY <2>1 DEF Below
  <2> QED BY <2>1, <2>2
<1> QED BY <1>4

LEMMA LowestExists ==
  ASSUME NEW S, S \subseteq Nat, S # {}
  PROVE  Lowest(S) # {}
BY LeastOfNaturals DEF Lowest

LEMMA LeastLoadedExists ==
  ASSUME NEW cas, cas \subseteq Users, cas # {}, NEW load \in [Users -> Nat]
  PROVE  select_least_loaded_ca(cas, load) # {}
<1> DEFINE loads == {load[u] : u \in cas}
<1>1. loads \subseteq Nat /\ loads # {}
  OBVIOUS
<1>2. PICK n \in loads : \A m \in loads : n <= m
  BY <1>1, LeastOfNaturals
<1>3. PICK u \in cas : load[u] = n
  OBVIOUS
<1>4. \A v \in cas : load[u] <= load[v]
  BY <1>2, <1>3
<1> QED BY <1>4 DEF select_least_loaded_ca

\* Routing names a candidate, whatever the block and the load.
LEMMA RoutedCandidates ==
  ASSUME NEW c \in Categories, NEW block, NEW load \in [Users -> Nat]
  PROVE  CreateAssignees(c, block, load) \subseteq Candidates(c)
<1> DEFINE mine     == {m \in Mappings : m.category = c}
           specific == IF block = NoBlock THEN {}
                       ELSE {m \in mine : m.block \in Aliases[block] \ {AllBlocks}}
           general  == IF block = NoBlock THEN {}
                       ELSE {m \in mine : m.block = AllBlocks}
           pool     == IF specific # {} THEN specific
                       ELSE IF general # {} THEN general ELSE mine
           resolved == resolve_assigned_ca(c, block, load)
<1>1. pool \subseteq mine /\ (mine # {} => pool # {})
  OBVIOUS
<1>2. resolved = IF pool # {} THEN select_least_loaded_ca(MappedCAs(pool), load)
                 ELSE {DefaultCA[c]} \ {NoUser}
  <2> HIDE DEF pool
  <2> QED BY DEF resolve_assigned_ca, pool
<1>3. Candidates(c) = IF MappedCAs(mine) # {} THEN MappedCAs(mine)
                      ELSE IF DefaultCA[c] # NoUser THEN {DefaultCA[c]}
                      ELSE FallbackAssignee(c)
  BY DEF Candidates
<1>4. CreateAssignees(c, block, load) = IF resolved # {} THEN resolved
                                        ELSE FallbackAssignee(c)
  BY DEF CreateAssignees
<1> HIDE DEF resolved, pool, mine
<1>5. MappedCAs(pool) \subseteq MappedCAs(mine) /\ (mine = {} => MappedCAs(mine) = {})
  BY <1>1 DEF MappedCAs
<1>6. CASE pool # {}
  <2>1. MappedCAs(pool) \subseteq Users /\ MappedCAs(pool) # {}
    BY <1>1, <1>6, MappedUsers DEF MappedCAs, mine
  <2>2. resolved # {} /\ resolved \subseteq MappedCAs(mine)
    BY <1>2, <1>5, <1>6, <2>1, LeastLoadedSubset, LeastLoadedExists
  <2> QED BY <1>3, <1>4, <2>2
<1>7. CASE pool = {}
  BY <1>1, <1>2, <1>3, <1>4, <1>5, <1>7
<1> QED BY <1>6, <1>7

LEMMA LoadCounts ==
  ASSUME TypeOK
  PROVE  [v \in Users |-> Load(v)] \in [Users -> Nat]
<1> SUFFICES ASSUME NEW v \in Users PROVE Load(v) \in Nat
  OBVIOUS
<1>1. IsFiniteSet({t \in Existing : /\ ticket[t].assignee = v
                                    /\ ticket[t].status \in ActiveStatuses})
  BY LifecycleConstants, FS_Subset DEF TypeOK, TablesOK
<1> QED BY <1>1, FS_CardinalityType DEF Load

\* Who may be assigned to the tickets of a category without breaking its department:
\* its mapped assignees and its default.
PeopleFit(c) ==
  /\ \A m \in Mappings : m.category = c => AssigneeFits(m.ca, c)
  /\ DefaultCA[c] # NoUser => AssigneeFits(DefaultCA[c], c)

\* Somebody is mapped, is the default, or has the role in the department: in the
\* view, that is, which does not show it of an assignee who is a teacher.
PeopleThere(c) ==
  \/ \E m \in Mappings : m.category = c
  \/ DefaultCA[c] # NoUser
  \/ \E u \in Active : ViewRole[u] \in CARoles /\ Dept[u] = CatDept[c]

\* create_ticket chooses first and checks the department after: a category whose
\* people are of its department is routed to somebody, from any block and under
\* any load, and whoever that is passes the check.
THEOREM RoutingFindsSomebody ==
  ASSUME NEW c \in Categories, NEW block, NEW load \in [Users -> Nat],
         PeopleFit(c), PeopleThere(c)
  PROVE  /\ CreateAssignees(c, block, load) # {}
         /\ \A u \in CreateAssignees(c, block, load) : AssigneeFits(u, c)
<1> DEFINE mine     == {m \in Mappings : m.category = c}
           specific == IF block = NoBlock THEN {}
                       ELSE {m \in mine : m.block \in Aliases[block] \ {AllBlocks}}
           general  == IF block = NoBlock THEN {}
                       ELSE {m \in mine : m.block = AllBlocks}
           pool     == IF specific # {} THEN specific
                       ELSE IF general # {} THEN general ELSE mine
           resolved == resolve_assigned_ca(c, block, load)
<1>1. /\ pool \subseteq mine /\ mine \subseteq Mappings
      /\ mine # {} => pool # {}
      /\ \A m \in pool : AssigneeFits(m.ca, c)
  BY DEF PeopleFit
<1>2. resolved = IF pool # {} THEN select_least_loaded_ca(MappedCAs(pool), load)
                 ELSE {DefaultCA[c]} \ {NoUser}
  <2> HIDE DEF pool
  <2> QED BY DEF resolve_assigned_ca, pool
<1> HIDE DEF pool, resolved
<1>3. CASE pool # {}
  <2>1. MappedCAs(pool) \subseteq Users /\ MappedCAs(pool) # {}
    BY <1>1, <1>3, MappedUsers DEF MappedCAs
  <2>2. PICK u : u \in select_least_loaded_ca(MappedCAs(pool), load)
    BY <2>1, LeastLoadedExists
  <2>3. u \in resolved /\ resolved \subseteq MappedCAs(pool)
    BY <1>2, <1>3, <2>2, LeastLoadedSubset
  <2>4. \A v \in MappedCAs(pool) : AssigneeFits(v, c)
    BY <1>1 DEF MappedCAs
  <2> QED BY <2>3, <2>4 DEF CreateAssignees, resolved
<1>4. CASE pool = {} /\ DefaultCA[c] # NoUser
  <2>1. resolved = {DefaultCA[c]} /\ AssigneeFits(DefaultCA[c], c)
    BY <1>2, <1>4 DEF PeopleFit
  <2> QED BY <2>1 DEF CreateAssignees, resolved
<1>5. CASE pool = {} /\ DefaultCA[c] = NoUser
  <2>1. CreateAssignees(c, block, load) = FallbackAssignee(c)
    BY <1>2, <1>5 DEF CreateAssignees, resolved
  <2>2. PICK u \in Active : ViewRole[u] \in CARoles /\ Dept[u] = CatDept[c]
    BY <1>1, <1>5 DEF PeopleThere
  <2>3. u \in FallbackAssignee(c) /\ \A v \in FallbackAssignee(c) : Dept[v] = CatDept[c]
    BY <2>2 DEF FallbackAssignee
  <2>4. \A v \in FallbackAssignee(c) : AssigneeFits(v, c)
    BY <2>3, ConstantsOK DEF AssigneeFits, departments_match
  <2> QED BY <2>1, <2>3, <2>4
<1> QED BY <1>3, <1>4, <1>5

-----------------------------------------------------------------------------
(* Every action keeps the invariant *)

LEMMA InitIInv == ASSUME Init PROVE IInv
<1>1. TablesOK
  BY LifecycleConstants DEF Init, TablesOK, Existing, Row
<1>2. ControlOK
  BY DEF Init, ControlOK, NoJob, CreatePCs, UpdatePCs, ReassignPCs
<1>3. JobsFit
  BY DEF Init, JobsFit, JobFits, UpdatePCs, ReassignPCs
<1> QED BY <1>1, <1>2, <1>3 DEF IInv, TypeOK

\* A thread that takes up a request changes no table.
LEMMA StartKeeps ==
  ASSUME IInv, NEW r \in Requests, NEW label \in PCs, NEW j,
         JobFor(label, j), JobFits(label, j, ticket), Start(r, label, j)
  PROVE  IInv'
<1>1. UNCHANGED <<tables, mails>> /\ Answered(r, label, j)
  BY DEF Start, Answered
<1>2. Grows /\ TablesOK' /\ ticket' = ticket
  BY <1>1 DEF tables, mails, Grows, IInv, TypeOK, TablesOK, Existing
<1>3. ControlOK' /\ JobsFit'
  BY <1>1, <1>2, AnsweredFits DEF IInv
<1> QED BY <1>2, <1>3 DEF IInv, TypeOK

LEMMA StartCreateKeeps ==
  ASSUME IInv, NEW r \in Requests, StartCreate(r)
  PROVE  IInv'
<1>1. PICK u \in Users, c \in Categories, b \in Blocks \cup {NoBlock},
           k \in Keys \cup {r} :
        \E a \in CreateAssignees(c, b, [v \in Users |-> Load(v)]) :
          Start(r, "validate", [kind |-> "create", actor |-> u, category |-> c, key |-> k,
                                assignee |-> a, id |-> NoId, checked |-> FALSE])
  BY DEF StartCreate
<1>2. PICK a \in CreateAssignees(c, b, [v \in Users |-> Load(v)]) :
        Start(r, "validate", [kind |-> "create", actor |-> u, category |-> c, key |-> k,
                              assignee |-> a, id |-> NoId, checked |-> FALSE])
  BY <1>1
<1> DEFINE j == [kind |-> "create", actor |-> u, category |-> c, key |-> k,
                 assignee |-> a, id |-> NoId, checked |-> FALSE]
<1>3. a \in Candidates(c)
  BY RoutedCandidates, LoadCounts DEF IInv
<1>4. a \in Users
  BY RoutedUsers
<1>5. j \in CreateJob
  BY <1>4 DEF CreateJob
<1>6. JobFor("validate", j) /\ JobFits("validate", j, ticket) /\ "validate" \in PCs
  BY <1>3, <1>5 DEF JobFor, Jobs, JobFits, PCs, CreatePCs, UpdatePCs, ReassignPCs
<1> QED BY <1>2, <1>6, StartKeeps

LEMMA CheckAssigneeKeeps ==
  ASSUME IInv, NEW r \in Requests, CheckAssignee(r)
  PROVE  IInv'
<1>1. ~job[r].checked /\ JobFits("validate", job[r], ticket)
  BY DEF CheckAssignee, IInv, JobsFit, JobFits
<1>2. /\ ControlOK' /\ UNCHANGED <<tables, mails>>
      /\ pc'[r] \in {"insert", "rejected", "failed"}
      /\ job[r] \in CreateJob
      /\ job'[r] = [job[r] EXCEPT !.checked = job'[r].checked]
      /\ job'[r].checked => AssigneeFits(job[r].assignee, job[r].category)
      /\ \A q \in Requests : q # r => pc'[q] = pc[q] /\ job'[q] = job[q]
  BY <1>1, CheckAssigneeType DEF IInv, TypeOK
<1>3. job'[r].assignee = job[r].assignee /\ job'[r].category = job[r].category
  BY <1>2 DEF CreateJob
<1>4. TablesOK' /\ ticket' = ticket
  BY <1>2 DEF tables, mails, IInv, TypeOK, TablesOK, Existing
<1>5. JobFits(pc'[r], job'[r], ticket)
  BY <1>1, <1>2, <1>3 DEF JobFits, UpdatePCs, ReassignPCs
<1>6. JobsFit'
  BY <1>2, <1>4, <1>5 DEF IInv, JobsFit
<1> QED BY <1>2, <1>4, <1>6 DEF IInv, TypeOK

LEMMA StartUpdateKeeps ==
  ASSUME IInv, NEW r \in Requests, StartUpdate(r)
  PROVE  IInv'
<1>1. PICK u \in Users, t \in Existing, raw \in RawStatuses :
        Start(r, "setStatus", [kind |-> "update", actor |-> u, id |-> t,
                               from |-> ticket[t].status, to |-> Normalised(raw)])
  BY DEF StartUpdate
<1> DEFINE j == [kind |-> "update", actor |-> u, id |-> t,
                 from |-> ticket[t].status, to |-> Normalised(raw)]
<1>2. Normalised(raw) \in Statuses
  BY DEF Normalised, RawStatuses, Statuses
<1>3. t \in Ids /\ ticket[t].status \in Statuses
  BY DEF IInv, TypeOK, TablesOK, Row
<1>4. j \in UpdateJob
  BY <1>2, <1>3 DEF UpdateJob
<1>5. JobFor("setStatus", j) /\ JobFits("setStatus", j, ticket) /\ "setStatus" \in PCs
  BY <1>4 DEF JobFor, Jobs, JobFits, PCs, CreatePCs, UpdatePCs, ReassignPCs, Existing
<1> QED BY <1>1, <1>5, StartKeeps

LEMMA StartReassignKeeps ==
  ASSUME IInv, NEW r \in Requests, StartReassign(r)
  PROVE  IInv'
<1>1. PICK m \in Users, src \in Users, dst \in Users, s \in Selections \ {<< >>} :
        /\ \A i \in DOMAIN s : s[i] \in Existing
        /\ Start(r, "check", [kind |-> "reassign", actor |-> m, src |-> src, dst |-> dst,
                              selected |-> s, from |-> << >>, moved |-> 0])
  BY DEF StartReassign
<1> DEFINE j == [kind |-> "reassign", actor |-> m, src |-> src, dst |-> dst,
                 selected |-> s, from |-> << >>, moved |-> 0]
<1>2. s \in Seq(Ids) /\ << >> \in Seq(Statuses) /\ Len(<< >>) <= Len(s)
  BY LifecycleConstants
<1>3. j \in ReassignJob
  BY <1>2 DEF ReassignJob
<1>4. JobFor("check", j) /\ "check" \in PCs
  BY <1>3 DEF JobFor, Jobs, PCs, CreatePCs, UpdatePCs, ReassignPCs
<1>5. JobFits("check", j, ticket)
  BY <1>1, <1>2 DEF JobFits, CreatePCs, UpdatePCs, ReassignPCs, Existing
<1> QED BY <1>1, <1>4, <1>5, StartKeeps

\* A written row leaves the other tickets alone.
LEMMA PutRowGrows ==
  ASSUME IInv, NEW t \in Ids, NEW row \in Row, PutRow(t, row),
         t \in Existing => row.category = ticket[t].category,
         UNCHANGED <<activity, audit, mails>>
  PROVE  /\ Grows /\ TablesOK'
         /\ Existing' = Existing \cup {t} /\ ticket'[t] = row
<1>1. /\ Existing' = Existing \cup {t} /\ Existing' \subseteq Ids
      /\ ticket' \in [Existing' -> Row]
      /\ ticket'[t] = row
      /\ \A s \in Existing : s # t => ticket'[s] = ticket[s]
      /\ past' \in [Ids -> SUBSET Row]
  BY PutRowType DEF IInv, TypeOK
<1>2. Grows
  BY <1>1 DEF Grows
<1>3. TablesOK'
  BY <1>1 DEF IInv, TypeOK, TablesOK, mails
<1> QED BY <1>1, <1>2, <1>3

\* A statement that writes anything but a ticket.
LEMMA NoTicketGrows ==
  ASSUME IInv, ticket' = ticket
  PROVE  Grows
BY DEF Grows, Existing

LEMMA InsertTicketKeeps ==
  ASSUME IInv, NEW r \in Requests, InsertTicket(r)
  PROVE  IInv'
<1>1. CASE NotApplied(r)
  BY <1>1, NotAppliedFits
<1>2. CASE ~NotApplied(r)
  <2>1. PICK t \in Lowest(Ids \ Existing) :
          /\ pc[r] = "insert" /\ PutRow(t, NewRow(job[r]))
          /\ Applied(r, "logCreate", [job[r] EXCEPT !.id = t])
          /\ UNCHANGED <<activity, audit, mails>>
    BY <1>2 DEF InsertTicket
  <2>2. t \in Ids /\ t \notin Existing
    BY DEF Lowest
  <2>3. job[r] \in CreateJob
    BY <2>1 DEF IInv, TypeOK, ControlOK, CreatePCs
  <2>5. NewRow(job[r]) \in Row
    BY <2>3 DEF NewRow, Row, CreateJob, Statuses
  <2>6. Grows /\ TablesOK' /\ t \in Existing'
    BY <2>1, <2>2, <2>5, PutRowGrows
  <2>7. [job[r] EXCEPT !.id = t] \in CreateJob /\ [job[r] EXCEPT !.id = t].id = t
    BY <2>2, <2>3 DEF CreateJob
  <2>8. JobFor("logCreate", [job[r] EXCEPT !.id = t]) /\ "logCreate" \in PCs
    BY <2>7 DEF JobFor, Jobs, PCs, CreatePCs, UpdatePCs, ReassignPCs
  <2>9. JobFits("logCreate", [job[r] EXCEPT !.id = t], ticket')
    BY <2>6, <2>7 DEF JobFits, UpdatePCs, ReassignPCs, Existing
  <2>10. ControlOK' /\ JobsFit'
    BY <2>1, <2>6, <2>8, <2>9, AppliedFits DEF IInv
  <2> QED BY <2>6, <2>10 DEF IInv, TypeOK
<1> QED BY <1>1, <1>2

LEMMA DuplicateTicketKeeps ==
  ASSUME IInv, NEW r \in Requests, DuplicateTicket(r)
  PROVE  IInv'
<1>1. UNCHANGED <<tables, mails>>
  BY DEF DuplicateTicket
<1>2. Grows /\ TablesOK'
  BY <1>1, NoTicketGrows DEF tables, mails, IInv, TypeOK, TablesOK, Existing
<1>3. PICK s \in Existing : \/ Answered(r, "done", [job[r] EXCEPT !.id = s])
                            \/ GaveUp(r)
  BY DEF DuplicateTicket
<1>4. job[r] \in CreateJob /\ s \in Ids
  BY DEF DuplicateTicket, IInv, TypeOK, TablesOK, ControlOK, CreatePCs
<1>5. JobFor("done", [job[r] EXCEPT !.id = s]) /\ "done" \in PCs
  BY <1>4 DEF JobFor, Jobs, CreateJob, PCs, EndPCs, CreatePCs, UpdatePCs, ReassignPCs
<1>6. JobFits("done", [job[r] EXCEPT !.id = s], ticket')
  BY DEF JobFits, UpdatePCs, ReassignPCs
<1>7. ControlOK' /\ JobsFit'
  BY <1>2, <1>3, <1>5, <1>6, AnsweredFits, EndedFits DEF IInv, GaveUp, EndPCs
<1> QED BY <1>2, <1>7 DEF IInv, TypeOK

LEMMA LogCreateKeeps ==
  ASSUME IInv, NEW r \in Requests, LogCreate(r)
  PROVE  IInv'
<1>1. CASE NotApplied(r)
  BY <1>1, NotAppliedFits
<1>2. CASE ~NotApplied(r)
  <2>1. /\ pc[r] = "logCreate"
        /\ PutLog(LogRow(job[r].id, job[r].actor, "NULL", "PENDING"))
        /\ Applied(r, "allocMail", job[r])
        /\ UNCHANGED <<ticket, past, audit, mails>>
    BY <1>2 DEF LogCreate
  <2>2. job[r] \in CreateJob /\ job[r].id \in Existing
    BY <2>1 DEF IInv, TypeOK, ControlOK, CreatePCs, JobsFit, JobFits, Existing
  <2>3. LogRow(job[r].id, job[r].actor, "NULL", "PENDING") \in LogRows
    BY <2>2, LogRowType DEF CreateJob, IInv, TypeOK, TablesOK, Statuses
  <2>4. activity' \in Seq(LogRows)
    BY <2>1, <2>3, PutLogType DEF IInv, TypeOK
  <2>5. Grows /\ TablesOK'
    BY <2>1, <2>4, NoTicketGrows DEF mails, IInv, TypeOK, TablesOK, Existing, LogRows
  <2>6. JobFor("allocMail", job[r]) /\ "allocMail" \in PCs
    BY <2>2 DEF JobFor, Jobs, PCs, CreatePCs, UpdatePCs, ReassignPCs
  <2>7. JobFits("allocMail", job[r], ticket')
    BY <2>1, <2>2 DEF JobFits, UpdatePCs, ReassignPCs, Existing
  <2>8. ControlOK' /\ JobsFit'
    BY <2>1, <2>5, <2>6, <2>7, AppliedFits DEF IInv
  <2> QED BY <2>5, <2>8 DEF IInv, TypeOK
<1> QED BY <1>1, <1>2

LEMMA AllocMailKeeps ==
  ASSUME IInv, NEW r \in Requests, AllocMail(r)
  PROVE  IInv'
<1>1. job[r] \in CreateJob /\ job[r].id \in Ids
  BY DEF AllocMail, IInv, TypeOK, TablesOK, ControlOK, CreatePCs, JobsFit, JobFits, Existing
<1>2. ticket' = ticket /\ UNCHANGED <<past, activity, audit, closureMails>>
  BY DEF AllocMail, NotApplied, tables, mails
<1>3. allocMails' \in [Ids -> SUBSET Users]
  BY <1>1 DEF AllocMail, NotApplied, mails, IInv, TypeOK, TablesOK, CreateJob
<1>4. Grows /\ TablesOK'
  BY <1>2, <1>3, NoTicketGrows DEF IInv, TypeOK, TablesOK, Existing
<1>5. JobFor("done", job[r]) /\ JobFits("done", job[r], ticket') /\ "done" \in PCs
  BY <1>1 DEF JobFor, Jobs, JobFits, PCs, EndPCs, CreatePCs, UpdatePCs, ReassignPCs
<1>6. ControlOK' /\ JobsFit'
  BY <1>4, <1>5, AnsweredFits, EndedFits
     DEF AllocMail, NotApplied, GaveUp, IInv, EndPCs
<1> QED BY <1>4, <1>6 DEF IInv, TypeOK

LEMMA SetStatusKeeps ==
  ASSUME IInv, NEW r \in Requests, SetStatus(r)
  PROVE  IInv'
<1>1. CASE NotApplied(r)
  BY <1>1, NotAppliedFits
<1>2. CASE ~NotApplied(r)
  <2> DEFINE j == job[r]
             row == [ticket[j.id] EXCEPT !.status = j.to]
  <2>1. /\ pc[r] = "setStatus" /\ PutRow(j.id, row)
        /\ Applied(r, "logStatus", j) /\ UNCHANGED <<activity, audit, mails>>
    BY <1>2 DEF SetStatus
  <2>2. j \in UpdateJob /\ j.id \in Existing /\ j.id \in Ids
    BY <2>1 DEF IInv, TypeOK, TablesOK, ControlOK, UpdatePCs, JobsFit, JobFits, Existing
  <2>3. ticket[j.id] \in Row
    BY <2>2 DEF IInv, TypeOK, TablesOK
  <2>4. row \in Row /\ row.category = ticket[j.id].category
    BY <2>2, <2>3 DEF Row, UpdateJob
  <2> HIDE DEF row
  <2>6. Grows /\ TablesOK'
    BY <2>1, <2>2, <2>4, PutRowGrows
  <2>7. JobFor("logStatus", j) /\ JobFits("logStatus", j, ticket') /\ "logStatus" \in PCs
    BY <2>2, <2>6 DEF JobFor, Jobs, JobFits, Grows, Existing, PCs, CreatePCs,
                      UpdatePCs, ReassignPCs
  <2>8. ControlOK' /\ JobsFit'
    BY <2>1, <2>6, <2>7, AppliedFits DEF IInv
  <2> QED BY <2>6, <2>8 DEF IInv, TypeOK
<1> QED BY <1>1, <1>2

LEMMA LogStatusKeeps ==
  ASSUME IInv, NEW r \in Requests, LogStatus(r)
  PROVE  IInv'
<1>1. CASE NotApplied(r)
  BY <1>1, NotAppliedFits
<1>2. CASE ~NotApplied(r)
  <2> DEFINE j == job[r]
             label == IF j.to = "RESOLVED" THEN "closeMail" ELSE "done"
  <2>1. /\ pc[r] = "logStatus" /\ PutLog(LogRow(j.id, j.actor, j.from, j.to))
        /\ Applied(r, label, j) /\ UNCHANGED <<ticket, past, audit, mails>>
    BY <1>2 DEF LogStatus
  <2>2. j \in UpdateJob /\ j.id \in Existing
    BY <2>1 DEF IInv, TypeOK, ControlOK, UpdatePCs, JobsFit, JobFits, Existing
  <2>3. LogRow(j.id, j.actor, j.from, j.to) \in LogRows
    BY <2>2, LogRowType DEF UpdateJob
  <2>4. activity' \in Seq(LogRows)
    BY <2>1, <2>3, PutLogType DEF IInv, TypeOK
  <2>5. Grows /\ TablesOK'
    BY <2>1, <2>4, NoTicketGrows DEF mails, IInv, TypeOK, TablesOK, Existing, LogRows
  <2>6. JobFor(label, j) /\ JobFits(label, j, ticket') /\ label \in PCs
    BY <2>1, <2>2 DEF JobFor, Jobs, JobFits, Existing, PCs, EndPCs, CreatePCs,
                      UpdatePCs, ReassignPCs
  <2> HIDE DEF label
  <2>7. ControlOK' /\ JobsFit'
    BY <2>1, <2>5, <2>6, AppliedFits DEF IInv
  <2> QED BY <2>5, <2>7 DEF IInv, TypeOK
<1> QED BY <1>1, <1>2

LEMMA CloseMailKeeps ==
  ASSUME IInv, NEW r \in Requests, CloseMail(r)
  PROVE  IInv'
<1>1. job[r] \in UpdateJob
  BY DEF CloseMail, IInv, TypeOK, ControlOK, UpdatePCs
<1>2. ticket' = ticket /\ UNCHANGED <<past, activity, audit, allocMails>>
  BY DEF CloseMail, NotApplied, tables, mails
<1>3. closureMails' \in [Ids -> Nat]
  <2>1. closureMails \in [Ids -> Nat] /\ job[r].id \in Ids
    BY <1>1 DEF IInv, TypeOK, TablesOK, UpdateJob
  <2>2. \/ closureMails' = closureMails
        \/ closureMails' = [closureMails EXCEPT ![job[r].id] = @ + 1]
    BY DEF CloseMail, NotApplied, mails
  <2> QED BY <2>1, <2>2
<1>4. Grows /\ TablesOK'
  BY <1>2, <1>3, NoTicketGrows DEF IInv, TypeOK, TablesOK, Existing
<1>5. JobFor("done", job[r]) /\ JobFits("done", job[r], ticket') /\ "done" \in PCs
  BY <1>1 DEF JobFor, Jobs, JobFits, PCs, EndPCs, CreatePCs, UpdatePCs, ReassignPCs
<1>6. ControlOK' /\ JobsFit'
  BY <1>4, <1>5, AnsweredFits, EndedFits
     DEF CloseMail, NotApplied, GaveUp, IInv, EndPCs
<1> QED BY <1>4, <1>6 DEF IInv, TypeOK

\* The next ticket to check and the next one to write are tickets there are, and
\* the job that has dealt with them is a job again.
LEMMA CheckedTicket ==
  ASSUME IInv, NEW r \in Requests, pc[r] = "check", Len(job[r].from) < Len(job[r].selected)
  PROVE  LET j == job[r]
             t == j.selected[Len(j.from) + 1]
         IN  /\ j \in ReassignJob /\ t \in Existing /\ t \in Ids
             /\ ticket[t].status \in Statuses
             /\ [j EXCEPT !.from = Append(@, ticket[t].status)] \in ReassignJob
<1> DEFINE j == job[r]
           t == j.selected[Len(j.from) + 1]
<1>1. j \in ReassignJob /\ JobFits("check", j, ticket)
  BY DEF IInv, TypeOK, ControlOK, ReassignPCs, JobsFit
<1>2. Len(j.from) + 1 \in DOMAIN j.selected
  BY <1>1 DEF ReassignJob
<1>3. t \in Existing /\ t \in Ids /\ ticket[t].status \in Statuses
  BY <1>1, <1>2 DEF JobFits, ReassignPCs, Existing, IInv, TypeOK, TablesOK, Row
<1>4. Append(j.from, ticket[t].status) \in Seq(Statuses)
  BY <1>1, <1>3 DEF ReassignJob
<1> HIDE DEF t
<1> QED BY <1>1, <1>3, <1>4 DEF t, ReassignJob

LEMMA MovedTicket ==
  ASSUME IInv, NEW r \in Requests, pc[r] = "move"
  PROVE  LET j == job[r]
             t == j.selected[j.moved + 1]
             row == [ticket[t] EXCEPT !.assignee = j.dst]
         IN  /\ j \in ReassignJob /\ j.moved + 1 \in DOMAIN j.selected
             /\ t \in Existing /\ t \in Ids /\ ticket[t] \in Row /\ row \in Row
             /\ AssigneeFits(j.dst, ticket[t].category)
             /\ [j EXCEPT !.moved = @ + 1] \in ReassignJob
<1> DEFINE j == job[r]
           t == j.selected[j.moved + 1]
<1>1. j \in ReassignJob /\ JobFits("move", j, ticket)
  BY DEF IInv, TypeOK, ControlOK, ReassignPCs, JobsFit
<1>2. j.moved + 1 \in DOMAIN j.selected
  BY <1>1 DEF JobFits, ReassignJob
<1>3. t \in Existing /\ t \in Ids /\ AssigneeFits(j.dst, ticket[t].category)
  BY <1>1, <1>2 DEF JobFits, ReassignPCs, Existing, IInv, TypeOK, TablesOK
<1>4. ticket[t] \in Row
  BY <1>3 DEF IInv, TypeOK, TablesOK
<1> HIDE DEF t
<1>5. [j EXCEPT !.moved = @ + 1] \in ReassignJob
  BY <1>1 DEF ReassignJob
<1> QED BY <1>1, <1>2, <1>3, <1>4, <1>5 DEF t, Row, ReassignJob

\* The checks of a reassignment write no table.
LEMMA CheckTicketKeeps ==
  ASSUME IInv, NEW r \in Requests, CheckTicket(r)
  PROVE  IInv'
<1> DEFINE j == job[r]
           t == j.selected[Len(j.from) + 1]
           k == [j EXCEPT !.from = Append(@, ticket[t].status)]
<1>1. /\ pc[r] = "check" /\ UNCHANGED <<tables, mails>> /\ Len(j.from) < Len(j.selected)
      /\ Answered(r, "check", k) \/ Answered(r, "rejected", j)
  BY DEF CheckTicket
<1>2. Grows /\ TablesOK' /\ ticket' = ticket
  BY <1>1, NoTicketGrows DEF tables, mails, IInv, TypeOK, TablesOK, Existing
<1>3. j \in ReassignJob /\ JobFits("check", j, ticket)
  BY <1>1 DEF IInv, TypeOK, ControlOK, ReassignPCs, JobsFit
<1>4. Len(j.from) + 1 \in DOMAIN j.selected
  BY <1>1, <1>3 DEF ReassignJob
<1>5. ticket[t].status \in Statuses
  BY <1>3, <1>4 DEF JobFits, ReassignPCs, Existing, IInv, TypeOK, TablesOK, Row
<1>6. /\ k \in ReassignJob /\ k.selected = j.selected /\ k.moved = j.moved
      /\ Len(k.from) = Len(j.from) + 1
  <2>1. /\ Append(j.from, ticket[t].status) \in Seq(Statuses)
        /\ Len(Append(j.from, ticket[t].status)) = Len(j.from) + 1
    BY <1>3, <1>5 DEF ReassignJob
  <2> HIDE DEF t
  <2> QED BY <1>3, <2>1 DEF ReassignJob
<1> HIDE DEF k, t
<1>7. JobFor("check", k) /\ "check" \in PCs
  BY <1>6 DEF JobFor, Jobs, PCs, CreatePCs, UpdatePCs, ReassignPCs
<1>8. JobFits("check", k, ticket')
  BY <1>1, <1>2, <1>3, <1>6 DEF JobFits, ReassignJob, UpdatePCs, ReassignPCs
<1>9. JobFor("rejected", j) /\ JobFits("rejected", j, ticket') /\ "rejected" \in PCs
  BY <1>3 DEF JobFor, Jobs, JobFits, PCs, EndPCs, CreatePCs, UpdatePCs, ReassignPCs
<1>10. ControlOK' /\ JobsFit'
  BY <1>1, <1>2, <1>7, <1>8, <1>9, AnsweredFits DEF IInv
<1> QED BY <1>2, <1>10 DEF IInv, TypeOK

LEMMA CheckDepartmentsKeeps ==
  ASSUME IInv, NEW r \in Requests, CheckDepartments(r)
  PROVE  IInv'
<1> DEFINE j == job[r]
<1>1. /\ pc[r] = "check" /\ UNCHANGED <<tables, mails>>
      /\ Len(j.from) = Len(j.selected)
      /\ \/ /\ \A t \in Picked(j) : AssigneeFits(j.dst, ticket[t].category)
            /\ Answered(r, "move", j)
         \/ Answered(r, "rejected", j)
  BY DEF CheckDepartments
<1>2. Grows /\ TablesOK' /\ ticket' = ticket
  BY <1>1, NoTicketGrows DEF tables, mails, IInv, TypeOK, TablesOK, Existing
<1>3. j \in ReassignJob /\ JobFits("check", j, ticket)
  BY <1>1 DEF IInv, TypeOK, ControlOK, ReassignPCs, JobsFit
<1>4. JobFor("move", j) /\ JobFor("rejected", j) /\ "move" \in PCs /\ "rejected" \in PCs
  BY <1>3 DEF JobFor, Jobs, PCs, EndPCs, CreatePCs, UpdatePCs, ReassignPCs
<1>5. JobFits("rejected", j, ticket')
  BY DEF JobFits, UpdatePCs, ReassignPCs
<1>6. CASE Answered(r, "rejected", j)
  BY <1>2, <1>4, <1>5, <1>6, AnsweredFits DEF IInv, TypeOK
<1>7. CASE /\ \A t \in Picked(j) : AssigneeFits(j.dst, ticket[t].category)
           /\ Answered(r, "move", j)
  <2>1. Len(j.selected) \in Nat \ {0} /\ Len(j.from) \in Nat
    BY <1>3 DEF JobFits, ReassignPCs, ReassignJob
  <2>2. JobFits("move", j, ticket')
    BY <1>1, <1>2, <1>3, <1>7, <2>1 DEF JobFits, Picked, UpdatePCs, ReassignPCs
  <2> QED BY <1>2, <1>4, <1>7, <2>2, AnsweredFits DEF IInv, TypeOK
<1> QED BY <1>1, <1>6, <1>7

LEMMA MoveTicketKeeps ==
  ASSUME IInv, NEW r \in Requests, MoveTicket(r)
  PROVE  IInv'
<1>1. CASE NotApplied(r)
  BY <1>1, NotAppliedFits
<1>2. CASE ~NotApplied(r)
  <2> DEFINE j == job[r]
             t == j.selected[j.moved + 1]
             row == [ticket[t] EXCEPT !.assignee = j.dst]
             k == [j EXCEPT !.moved = @ + 1]
  <2>1. /\ pc[r] = "move" /\ PutRow(t, row) /\ Applied(r, "logMove", k)
        /\ UNCHANGED <<activity, audit, mails>>
    BY <1>2 DEF MoveTicket
  <2>2. j \in ReassignJob /\ JobFits("move", j, ticket)
    BY <2>1 DEF IInv, TypeOK, ControlOK, ReassignPCs, JobsFit
  <2>3. j.moved + 1 \in DOMAIN j.selected
    BY <2>2 DEF JobFits, ReassignJob
  <2>4. t \in Existing /\ t \in Ids /\ ticket[t] \in Row
    BY <2>2, <2>3 DEF JobFits, ReassignPCs, Existing, IInv, TypeOK, TablesOK
  <2>5. row \in Row /\ row.category = ticket[t].category
    BY <2>2, <2>4 DEF Row, ReassignJob
  <2>6. /\ k \in ReassignJob /\ k.selected = j.selected /\ k.from = j.from
        /\ k.moved = j.moved + 1 /\ k.dst = j.dst
    BY <2>2 DEF ReassignJob
  <2> HIDE DEF row, k, t
  <2>7. Grows /\ TablesOK'
    BY <2>1, <2>4, <2>5, PutRowGrows
  <2>8. JobFor("logMove", k) /\ "logMove" \in PCs
    BY <2>6 DEF JobFor, Jobs, PCs, CreatePCs, UpdatePCs, ReassignPCs
  <2>9. JobFits("logMove", k, ticket')
    BY <2>2, <2>3, <2>6, <2>7 DEF JobFits, Grows, Existing, UpdatePCs, ReassignPCs, ReassignJob
  <2>10. ControlOK' /\ JobsFit'
    BY <2>1, <2>7, <2>8, <2>9, AppliedFits DEF IInv
  <2> QED BY <2>7, <2>10 DEF IInv, TypeOK
<1> QED BY <1>1, <1>2

\* The row of a ticket that has been written is a row of the timeline.
LEMMA MoveRowType ==
  ASSUME NEW j \in ReassignJob, Len(j.from) = Len(j.selected), NEW i \in DOMAIN j.selected
  PROVE  /\ MoveRow(j, i) \in LogRows
         /\ j.selected[i] \in Ids /\ j.from[i] \in Statuses
<1>1. j.selected[i] \in Ids /\ j.actor \in Users /\ j.from[i] \in Statuses
  BY DEF ReassignJob
<1> QED BY <1>1, LogRowType DEF MoveRow

LEMMA LogMoveKeeps ==
  ASSUME IInv, NEW r \in Requests, LogMove(r)
  PROVE  IInv'
<1> DEFINE j == job[r]
           row == MoveRow(j, j.moved)
           label == IF j.moved = Len(j.selected) THEN "audit" ELSE "move"
<1>1. /\ pc[r] = "logMove" /\ UNCHANGED <<ticket, past, audit, mails>>
      /\ \/ activity' = Append(activity, row) /\ Applied(r, label, j)
         \/ UNCHANGED activity /\ Answered(r, "failed", j)
         \/ UNCHANGED activity /\ GaveUp(r)
  BY DEF LogMove
<1>2. j \in ReassignJob /\ JobFits("logMove", j, ticket)
  BY <1>1 DEF IInv, TypeOK, ControlOK, ReassignPCs, JobsFit
<1>3. j.moved \in DOMAIN j.selected /\ Len(j.from) = Len(j.selected)
  BY <1>2 DEF ReassignJob, JobFits
<1>4. row \in LogRows
  BY <1>2, <1>3, MoveRowType
<1>5. activity \in Seq(LogRows)
  BY DEF IInv, TypeOK, TablesOK, LogRows
<1>6. JobFor(label, j) /\ label \in PCs
  BY <1>2 DEF JobFor, Jobs, PCs, CreatePCs, UpdatePCs, ReassignPCs
<1>7. JobFor("failed", j) /\ "failed" \in PCs /\ JobFits("failed", j, ticket)
  BY <1>2 DEF JobFor, Jobs, JobFits, PCs, EndPCs, CreatePCs, UpdatePCs, ReassignPCs
<1>8. JobFits(label, j, ticket)
  BY <1>2, <1>3 DEF JobFits, ReassignJob, UpdatePCs, ReassignPCs
<1> HIDE DEF row, label
<1>9. activity' \in Seq(LogRows)
  BY <1>1, <1>4, <1>5, AppendType
<1>10. Grows /\ TablesOK' /\ ticket' = ticket
  BY <1>1, <1>9, NoTicketGrows DEF mails, IInv, TypeOK, TablesOK, Existing, LogRows
<1>11. CASE Applied(r, label, j)
  BY <1>6, <1>8, <1>10, <1>11, AppliedFits DEF IInv, TypeOK
<1>12. CASE Answered(r, "failed", j)
  BY <1>7, <1>10, <1>12, AnsweredFits DEF IInv, TypeOK
<1>13. CASE GaveUp(r)
  BY <1>10, <1>13, EndedFits DEF IInv, TypeOK, GaveUp, EndPCs
<1> QED BY <1>1, <1>11, <1>12, <1>13

LEMMA AuditKeeps ==
  ASSUME IInv, NEW r \in Requests, Audit(r)
  PROVE  IInv'
<1>1. job[r] \in ReassignJob
  BY DEF Audit, IInv, TypeOK, ControlOK, ReassignPCs
<1>2. Grows /\ TablesOK'
  BY NoTicketGrows DEF Audit, mails, IInv, TypeOK, TablesOK, Existing
<1>3. JobFor("done", job[r]) /\ JobFits("done", job[r], ticket') /\ "done" \in PCs
  BY <1>1 DEF JobFor, Jobs, JobFits, PCs, EndPCs, CreatePCs, UpdatePCs, ReassignPCs
<1>4. ControlOK' /\ JobsFit'
  BY <1>2, <1>3, AnsweredFits, EndedFits DEF Audit, GaveUp, IInv, EndPCs
<1> QED BY <1>2, <1>4 DEF IInv, TypeOK

LEMMA StutterKeeps == ASSUME IInv, UNCHANGED vars PROVE IInv'
BY DEF vars, tables, mails, control, IInv, TypeOK, TablesOK, ControlOK, JobsFit,
       Existing

LEMMA NextKeeps == ASSUME IInv, [Next]_vars PROVE IInv'
<1>1. CASE UNCHANGED vars
  BY <1>1, StutterKeeps
<1>2. CASE Quiet
  BY <1>2, StutterKeeps DEF Quiet
<1>3. ASSUME NEW r \in Requests, Arrive(r) PROVE IInv'
  BY <1>3, StartCreateKeeps, StartUpdateKeeps, StartReassignKeeps DEF Arrive
<1>4. ASSUME NEW r \in Requests, Step(r) PROVE IInv'
  BY <1>4, CheckAssigneeKeeps, InsertTicketKeeps, DuplicateTicketKeeps, LogCreateKeeps, AllocMailKeeps,
     SetStatusKeeps, LogStatusKeeps, CloseMailKeeps, CheckTicketKeeps,
     CheckDepartmentsKeeps, MoveTicketKeeps, LogMoveKeeps, AuditKeeps DEF Step
<1> QED BY <1>1, <1>2, <1>3, <1>4 DEF Next

\* The inductive invariant: types, and what requests know of the tables.
THEOREM Invariance == Spec => []IInv
<1>1. Init => IInv
  BY InitIInv
<1>2. IInv /\ [Next]_vars => IInv'
  BY NextKeeps
<1> QED BY <1>1, <1>2, PTL DEF Spec

\* Every variable of the handlers and tables keeps its type.
THEOREM TypeCorrect == Spec => []TypeOK
<1>1. IInv => TypeOK
  BY DEF IInv
<1> QED BY <1>1, Invariance, PTL

-----------------------------------------------------------------------------
(* Departments *)

\* What a creation has learned by its insert: the comparison was made, or a
\* statement has failed.
PastCheck(r) == job[r].kind = "create" /\ pc[r] \notin {"validate", "rejected"}
Failing == \A r \in Requests : PastCheck(r) /\ ~job[r].checked => faults > 0

DInv == Failing /\ AssigneeInDepartment

\* A step of a request leaves the others where they are.
LEMMA OthersStay ==
  ASSUME IInv, NEW q \in Requests, Arrive(q) \/ Step(q)
  PROVE  /\ \A r \in Requests : r # q => pc'[r] = pc[r] /\ job'[r] = job[r]
         /\ faults' \in {faults, faults + 1}
<1> DEFINE Own == /\ pc' = pc \/ \E l : pc' = [pc EXCEPT ![q] = l]
                  /\ job' = job \/ \E j : job' = [job EXCEPT ![q] = j]
                  /\ faults' \in {faults, faults + 1}
<1>1. ASSUME NEW l, NEW j, Applied(q, l, j) PROVE Own
  BY <1>1 DEF Applied, Answered, Resent, GaveUp, Goto
<1>2. ASSUME NEW l, NEW j, Answered(q, l, j) PROVE Own
  BY <1>2 DEF Answered, Goto
<1>3. ASSUME NEW l, Goto(q, l), UNCHANGED job, faults' = faults + 1 PROVE Own
  BY <1>3 DEF Goto
<1>4. ASSUME NEW l, NEW j, Start(q, l, j) PROVE Own
  BY <1>4 DEF Start, Goto
<1>5. ASSUME GaveUp(q) \/ NotApplied(q) PROVE Own
  BY <1>3, <1>5 DEF GaveUp, NotApplied
<1>6. Own
  <2> HIDE DEF Own
  <2>1. ASSUME Arrive(q) PROVE Own
    BY <1>4, <2>1 DEF Arrive, StartCreate, StartUpdate, StartReassign
  <2>2. ASSUME CheckAssignee(q) \/ InsertTicket(q) \/ DuplicateTicket(q) PROVE Own
    BY <1>1, <1>2, <1>3, <1>5, <2>2 DEF CheckAssignee, InsertTicket, DuplicateTicket
  <2>3. ASSUME LogCreate(q) \/ AllocMail(q) PROVE Own
    BY <1>1, <1>2, <1>3, <1>5, <2>3 DEF LogCreate, AllocMail
  <2>4. ASSUME SetStatus(q) \/ LogStatus(q) \/ CloseMail(q) PROVE Own
    BY <1>1, <1>2, <1>3, <1>5, <2>4 DEF SetStatus, LogStatus, CloseMail
  <2>5. ASSUME CheckTicket(q) \/ CheckDepartments(q) PROVE Own
    BY <1>2, <2>5 DEF CheckTicket, CheckDepartments
  <2>6. ASSUME MoveTicket(q) \/ LogMove(q) \/ Audit(q) PROVE Own
    BY <1>1, <1>2, <1>3, <1>5, <2>6 DEF MoveTicket, LogMove, Audit
  <2> QED BY <2>1, <2>2, <2>3, <2>4, <2>5, <2>6 DEF Step
<1> QED BY <1>6 DEF IInv, TypeOK, ControlOK

\* A creation past its comparison stays so, with what it chose.
LEMMA ChoiceStays ==
  ASSUME IInv, NEW q \in Requests, Arrive(q) \/ Step(q),
         NEW r \in Requests, PastCheck(r)
  PROVE  /\ PastCheck(r)' /\ job'[r].checked = job[r].checked
         /\ job'[r].key = job[r].key /\ job'[r].assignee = job[r].assignee
<1>1. CASE r # q
  BY <1>1, OthersStay DEF PastCheck
<1>2. CASE r = q
  <2> DEFINE Keeps(j) == /\ j.kind = "create" /\ j.checked = job[q].checked
                         /\ j.key = job[q].key /\ j.assignee = job[q].assignee
  <2>1. job[q].kind = "create" /\ pc[q] \notin {"validate", "rejected"}
    BY <1>2 DEF PastCheck
  <2>2. pc[q] \notin {"idle"} \cup UpdatePCs \cup ReassignPCs
    BY <2>1 DEF IInv, TypeOK, ControlOK, JobsFit, JobFits, NoJob, UpdateJob, ReassignJob
  <2>3. InsertTicket(q) \/ DuplicateTicket(q) \/ LogCreate(q) \/ AllocMail(q)
    BY <2>1, <2>2 DEF Arrive, StartCreate, StartUpdate, StartReassign, Start, Step, CheckAssignee,
       SetStatus, LogStatus, CloseMail, CheckTicket, CheckDepartments, MoveTicket, LogMove,
       Audit, UpdatePCs, ReassignPCs
  <2>4. job[q] \in CreateJob
    BY <2>3 DEF IInv, TypeOK, ControlOK, InsertTicket, DuplicateTicket, LogCreate, AllocMail,
       CreatePCs
  <2>5. Keeps(job[q]) /\ \A t : Keeps([job[q] EXCEPT !.id = t])
    BY <2>1, <2>4 DEF CreateJob
  <2>6. /\ job' = job \/ \E j : Keeps(j) /\ job' = [job EXCEPT ![q] = j]
        /\ pc' = pc \/ \E l \in {"logCreate", "allocMail", "done", "failed"} :
                          pc' = [pc EXCEPT ![q] = l]
    <3> HIDE DEF Keeps
    <3>1. CASE InsertTicket(q)
      BY <2>5, <3>1 DEF InsertTicket, Applied, Answered, Resent, GaveUp, NotApplied, Goto
    <3>2. CASE DuplicateTicket(q)
      BY <2>5, <3>2 DEF DuplicateTicket, Answered, GaveUp, Goto
    <3>3. CASE LogCreate(q)
      BY <2>5, <3>3 DEF LogCreate, Applied, Answered, Resent, GaveUp, NotApplied, Goto
    <3>4. CASE AllocMail(q)
      BY <2>5, <3>4 DEF AllocMail, Answered, GaveUp, NotApplied, Goto
    <3> QED BY <2>3, <3>1, <3>2, <3>3, <3>4
  <2> QED BY <1>2, <2>1, <2>5, <2>6 DEF PastCheck, IInv, TypeOK, ControlOK
<1> QED BY <1>1, <1>2

\* A creation goes on unchecked only when a statement failed.
LEMMA FailingKept ==
  ASSUME IInv, Failing, NEW q \in Requests, Arrive(q) \/ Step(q)
  PROVE  Failing'
<1> SUFFICES ASSUME NEW r \in Requests, PastCheck(r)', ~job'[r].checked
             PROVE  faults' > 0
  BY DEF Failing
<1>1. faults \in Nat /\ faults' \in {faults, faults + 1}
  BY OthersStay DEF IInv, TypeOK, ControlOK
<1>2. CASE PastCheck(r)
  BY <1>1, <1>2, ChoiceStays DEF Failing
<1>3. CASE ~PastCheck(r) /\ CheckAssignee(q)
  <2>1. ~job[q].checked
    BY <1>3 DEF CheckAssignee, IInv, JobsFit, JobFits
  <2>2. /\ pc[q] = "validate" /\ job[q] \in CreateJob
        /\ \/ faults' = faults /\ (pc'[q] # "rejected" => job'[q].checked)
           \/ faults' = faults + 1
    BY <1>3, <2>1, CheckAssigneeType DEF IInv, TypeOK
  <2>3. r = q
    BY <1>3, OthersStay DEF PastCheck
  <2> QED BY <1>1, <2>2, <2>3 DEF PastCheck
<1>4. CASE ~PastCheck(r) /\ ~CheckAssignee(q)
  <2>1. r = q
    BY <1>4, OthersStay DEF PastCheck
  <2>2. CASE Arrive(q)
    <3>1. pc[q] = "idle" /\ \E l, j : Start(q, l, j) /\ (j.kind = "create" => l = "validate")
      <4>1. CASE StartCreate(q)
        BY <4>1 DEF StartCreate, Start
      <4>2. CASE StartUpdate(q)
        <5>1. PICK j : Start(q, "setStatus", j) /\ j.kind = "update"
          BY <4>2 DEF StartUpdate
        <5> QED BY <5>1 DEF Start
      <4>3. CASE StartReassign(q)
        <5>1. PICK j : Start(q, "check", j) /\ j.kind = "reassign"
          BY <4>3 DEF StartReassign
        <5> QED BY <5>1 DEF Start
      <4> QED BY <2>2, <4>1, <4>2, <4>3 DEF Arrive
    <3> QED BY <2>1, <3>1 DEF Start, Goto, PastCheck, IInv, TypeOK, ControlOK
  <2>3. CASE Step(q)
    <3>1. job[q].kind # "create"
      BY <1>4, <2>1, <2>3 DEF PastCheck, Step, InsertTicket, DuplicateTicket, LogCreate, AllocMail,
         SetStatus, LogStatus, CloseMail, CheckTicket, CheckDepartments, MoveTicket, LogMove,
         Audit
    <3>2. SetStatus(q) \/ LogStatus(q) \/ CloseMail(q) \/ CheckTicket(q) \/ CheckDepartments(q)
            \/ MoveTicket(q) \/ LogMove(q) \/ Audit(q)
      BY <1>4, <2>3, <3>1 DEF Step, InsertTicket, DuplicateTicket, LogCreate, AllocMail,
         IInv, TypeOK, ControlOK, CreatePCs, CreateJob
    <3>3. job[q] \in UpdateJob \cup ReassignJob
      BY <3>2 DEF IInv, TypeOK, ControlOK, UpdatePCs, ReassignPCs, SetStatus, LogStatus, CloseMail,
         CheckTicket, CheckDepartments, MoveTicket, LogMove, Audit
    <3>4. \E j : j.kind = job[q].kind /\ job'[q] = j
      <4>1. job' = job \/ job'[q].kind = job[q].kind
        BY <3>2, <3>3 DEF SetStatus, LogStatus, CloseMail, CheckTicket, CheckDepartments,
           MoveTicket, LogMove, Audit, Applied, Answered, Resent, GaveUp, NotApplied, Goto,
           UpdateJob, ReassignJob, IInv, TypeOK, ControlOK
      <4> QED BY <4>1
    <3> QED BY <2>1, <3>1, <3>4 DEF PastCheck
  <2> QED BY <2>2, <2>3
<1> QED BY <1>2, <1>3, <1>4

\* Every row a step leaves in the table was proper before it, or already belongs
\* to somebody who fits.
Proper(row) == \/ AssigneeFits(row.assignee, row.category)
               \/ faults > 0 /\ Unchecked(row)

LEMMA RowsProper ==
  ASSUME IInv, DInv, NEW q \in Requests, Arrive(q) \/ Step(q)
  PROVE  \A t \in Existing' : Proper(ticket'[t])
<1>1. \A t \in Existing : Proper(ticket[t])
  BY DEF DInv, AssigneeInDepartment, Proper
<1>2. CASE UNCHANGED ticket
  BY <1>1, <1>2 DEF Existing
<1>3. ASSUME NEW t \in Ids, NEW row, PutRow(t, row), Proper(row)
      PROVE  \A s \in Existing' : Proper(ticket'[s])
  BY <1>1, <1>3 DEF PutRow, Existing
<1>4. CASE InsertTicket(q)
  <2>1. job[q] \in CreateJob /\ JobFits("insert", job[q], ticket) /\ PastCheck(q)
    BY <1>4 DEF InsertTicket, IInv, TypeOK, ControlOK, CreatePCs, JobsFit, PastCheck, CreateJob
  <2>2. Proper(NewRow(job[q]))
    BY <2>1 DEF JobFits, DInv, Failing, Unchecked, PastCheck, NewRow, CreateJob, Proper
  <2>3. UNCHANGED ticket \/ \E t \in Ids : PutRow(t, NewRow(job[q]))
    BY <1>4 DEF InsertTicket, NotApplied, tables, Lowest
  <2> QED BY <1>2, <1>3, <2>2, <2>3
<1>5. CASE SetStatus(q)
  <2>1. job[q] \in UpdateJob /\ job[q].id \in Existing /\ job[q].id \in Ids
    BY <1>5 DEF SetStatus, IInv, TypeOK, TablesOK, ControlOK, UpdatePCs, JobsFit, JobFits, UpdateJob
  <2>2. ticket[job[q].id] \in Row
    BY <2>1 DEF IInv, TypeOK, TablesOK
  <2>3. Proper([ticket[job[q].id] EXCEPT !.status = job[q].to])
    BY <1>1, <2>1, <2>2 DEF Row, Proper, Unchecked
  <2>4. UNCHANGED ticket
          \/ PutRow(job[q].id, [ticket[job[q].id] EXCEPT !.status = job[q].to])
    BY <1>5 DEF SetStatus, NotApplied, tables
  <2> QED BY <1>2, <1>3, <2>1, <2>3, <2>4
<1>6. CASE MoveTicket(q)
  <2> DEFINE j == job[q]
             t == j.selected[j.moved + 1]
  <2>1. j \in ReassignJob /\ JobFits("move", j, ticket)
    BY <1>6 DEF MoveTicket, IInv, TypeOK, ControlOK, ReassignPCs, JobsFit
  <2>2. j.moved + 1 \in DOMAIN j.selected
    BY <2>1 DEF ReassignJob, JobFits
  <2>3. t \in Existing /\ t \in Ids /\ AssigneeFits(j.dst, ticket[t].category)
    BY <2>1, <2>2 DEF JobFits, Picked, IInv, TypeOK, TablesOK, Existing, ReassignPCs
  <2>4. ticket[t] \in Row
    BY <2>3 DEF IInv, TypeOK, TablesOK
  <2>5. Proper([ticket[t] EXCEPT !.assignee = j.dst])
    BY <2>3, <2>4 DEF Row, Proper
  <2>6. UNCHANGED ticket \/ PutRow(t, [ticket[t] EXCEPT !.assignee = j.dst])
    BY <1>6 DEF MoveTicket, NotApplied, tables
  <2> QED BY <1>2, <1>3, <2>3, <2>5, <2>6
<1>7. CASE ~InsertTicket(q) /\ ~SetStatus(q) /\ ~MoveTicket(q)
  <2>1. UNCHANGED ticket
    BY <1>7 DEF Arrive, StartCreate, StartUpdate, StartReassign, Start, Step, CheckAssignee,
       DuplicateTicket, LogCreate, AllocMail, LogStatus, CloseMail, CheckTicket,
       CheckDepartments, LogMove, Audit, NotApplied, tables
  <2> QED BY <1>2, <2>1
<1> QED BY <1>4, <1>5, <1>6, <1>7

LEMMA DInvKept == ASSUME IInv, DInv, [Next]_vars PROVE DInv'
<1>1. CASE UNCHANGED vars \/ Quiet
  BY <1>1 DEF DInv, Failing, PastCheck, AssigneeInDepartment, Unchecked, Existing, Quiet, vars,
     tables, control
<1>2. ASSUME NEW q \in Requests, Arrive(q) \/ Step(q) PROVE DInv'
  <2>1. Failing'
    BY <1>2, FailingKept DEF DInv
  <2>2. ASSUME NEW t \in Existing'
        PROVE  \/ AssigneeFits(ticket'[t].assignee, ticket'[t].category)
               \/ faults' > 0 /\ Unchecked(ticket[t])'
    <3>1. Proper(ticket'[t])
      BY <1>2, RowsProper
    <3>2. ASSUME faults > 0, Unchecked(ticket'[t])
          PROVE  faults' > 0 /\ Unchecked(ticket[t])'
      <4>1. PICK r \in Requests : /\ PastCheck(r) /\ ~job[r].checked
                                  /\ job[r].key = ticket'[t].key
                                  /\ job[r].assignee = ticket'[t].assignee
        BY <3>2 DEF Unchecked, PastCheck
      <4>2. Unchecked(ticket[t])'
        BY <1>2, <4>1, ChoiceStays DEF Unchecked, PastCheck
      <4>3. faults' > 0
        BY <1>2, <3>2, OthersStay DEF IInv, TypeOK, ControlOK
      <4> QED BY <4>2, <4>3
    <3> QED BY <3>1, <3>2 DEF Proper
  <2> QED BY <2>1, <2>2 DEF DInv, AssigneeInDepartment
<1> QED BY <1>1, <1>2 DEF Next

\* create_ticket and reassign_tickets check departments before they write, with
\* other handlers in between: a ticket is outside its department only when the
\* query a creation asks for the department failed and it stored the ticket
\* unchecked; nothing else takes one there, whatever interleaves or fails.
THEOREM DepartmentsKept == Spec => []AssigneeInDepartment
<1>1. Init => DInv
  BY LifecycleConstants DEF Init, DInv, Failing, PastCheck, NoJob, AssigneeInDepartment, Existing
<1>2. IInv /\ DInv /\ [Next]_vars => DInv'
  BY DInvKept
<1>3. DInv => AssigneeInDepartment
  BY DEF DInv
<1> QED BY <1>1, <1>2, <1>3, Invariance, PTL DEF Spec
=============================================================================
