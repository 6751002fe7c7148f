---------------------------- MODULE TicketRules ----------------------------
(***************************************************************************)
(* The rules the ticket handlers of db_services.py decide by, as operators *)
(* on data: who may move a ticket to which status, whom a manager may give *)
(* it to, and whom a new ticket is routed to.  Nothing here has state; the *)
(* handlers that apply the rules to stale rows are in TicketLifecycle.     *)
(*                                                                         *)
(* Users, categories, mappings and departments are constants here: the     *)
(* handlers that edit them are another component.                          *)
(***************************************************************************)
EXTENDS Naturals

CONSTANTS
  Users,        \* user ids (INT UNSIGNED, ordered: routing takes the lowest)
  Role,         \* [Users -> Roles], the role kept in the session
  ViewRole,     \* [Users -> Roles], the role in the view helpdesk_users, which
                \*   shows a row of teacher_info as FACULTY or HOD
  Dept,         \* [Users -> DeptNames \cup {NoDept}]
  Org,          \* [Users -> organisation]
  Active,       \* users whose is_active flag is set
  Categories,   \* category ids
  CatDept,      \* [Categories -> DeptNames]
  DefaultCA,    \* [Categories -> Users \cup {NoUser}], assigned_ca_id
  Mappings,     \* rows of helpdesk_ca_assignments
  Blocks,       \* block names a ticket or a mapping can carry
  Aliases,      \* [Blocks -> SUBSET Blocks], spellings of the same block
  Canon,        \* [DeptNames -> canonical department]
  DeptNames, NoDept, NoUser, NoBlock, AllBlocks

Roles == {"FACULTY", "CA", "ASSIGNEE", "HOD", "ADMIN", "SUPER_ADMIN"}
CARoles == {"CA", "ASSIGNEE"}
ManagerRoles == {"HOD", "ADMIN", "SUPER_ADMIN"}
Statuses == {"PENDING", "IN_PROGRESS", "ON_HOLD", "RESOLVED", "REOPENED"}

ASSUME ConstantsOK ==
  /\ Users \subseteq Nat /\ NoUser \notin Users
  /\ Role \in [Users -> Roles] /\ ViewRole \in [Users -> Roles]
  /\ NoDept \notin DeptNames /\ Dept \in [Users -> DeptNames \cup {NoDept}]
  /\ Active \subseteq Users
  /\ CatDept \in [Categories -> DeptNames]
  /\ DefaultCA \in [Categories -> Users \cup {NoUser}]
  /\ NoBlock \notin Blocks /\ AllBlocks \in Blocks
  /\ Mappings \subseteq [category : Categories, ca : Users, block : Blocks]
  /\ Aliases \in [Blocks -> SUBSET Blocks]
  /\ DOMAIN Canon = DeptNames

-----------------------------------------------------------------------------
(* Statuses. *)

ALLOWED_TRANSITIONS ==
  {<<"PENDING", "IN_PROGRESS">>, <<"PENDING", "ON_HOLD">>,
   <<"PENDING", "RESOLVED">>,
   <<"IN_PROGRESS", "ON_HOLD">>, <<"IN_PROGRESS", "RESOLVED">>,
   <<"ON_HOLD", "IN_PROGRESS">>, <<"ON_HOLD", "RESOLVED">>,
   <<"RESOLVED", "REOPENED">>,
   <<"REOPENED", "IN_PROGRESS">>, <<"REOPENED", "RESOLVED">>}

\* What a handler reads of a ticket: a row is [status, assignee, creator,
\* category, key].  The organisation of a ticket is its creator's.
MayUpdate(u, row, to) ==
  /\ Org[u] = Org[row.creator]
  /\ \/ Role[u] \in CARoles /\ row.assignee = u
     \/ row.creator = u /\ row.status = "RESOLVED" /\ to = "REOPENED"
  /\ <<row.status, to>> \in ALLOWED_TRANSITIONS

-----------------------------------------------------------------------------
(* Departments: two spellings of a department match, a missing one never does. *)

departments_match(d1, d2) ==
  /\ d1 # NoDept /\ d2 # NoDept
  /\ Canon[d1] = Canon[d2]

\* An assignee without a department passes the check at creation and at
\* reassignment alike.
AssigneeFits(u, c) == Dept[u] = NoDept \/ departments_match(Dept[u], CatDept[c])

\* A head of department compares names, not canonical departments.
SameDeptName(m, d) == Dept[m] = NoDept \/ d = NoDept \/ Dept[m] = d

\* What reassign_tickets checks of the people before it reads a ticket.
MayReassign(m, src, dst) ==
  /\ src # dst
  /\ Role[m] \in ManagerRoles
  /\ dst \in Active
  /\ Role[m] = "HOD" => SameDeptName(m, Dept[dst])

\* What it checks of each selected ticket.
Reassignable(m, src, row) ==
  /\ row.assignee = src
  /\ row.status # "RESOLVED"
  /\ Role[m] = "HOD" => SameDeptName(m, CatDept[row.category])

-----------------------------------------------------------------------------
(* Routing of a new ticket. load[u] is u's number of active tickets. *)

ActiveStatuses == {"PENDING", "IN_PROGRESS", "REOPENED"}

\* min() over rows a SELECT returns in any order: any least-loaded candidate.
select_least_loaded_ca(cas, load) ==
  {u \in cas : \A v \in cas : load[u] <= load[v]}

MappedCAs(rows) == {m.ca : m \in rows}

\* A mapping of the block itself beats one of all blocks; without a match for
\* the block every mapping of the category counts, then the default.
resolve_assigned_ca(c, block, load) ==
  LET mine     == {m \in Mappings : m.category = c}
      specific == IF block = NoBlock THEN {}
                  ELSE {m \in mine : m.block \in Aliases[block] \ {AllBlocks}}
      general  == IF block = NoBlock THEN {}
                  ELSE {m \in mine : m.block = AllBlocks}
      pool     == IF specific # {} THEN specific
                  ELSE IF general # {} THEN general ELSE mine
  IN  IF pool # {} THEN select_least_loaded_ca(MappedCAs(pool), load)
      ELSE {DefaultCA[c]} \ {NoUser}

\* Nobody resolved: any active CA of the department, else the manager with the
\* lowest id, whatever his department, as the view has them.
FallbackAssignee(c) ==
  LET cas      == {u \in Active : ViewRole[u] \in CARoles /\ Dept[u] = CatDept[c]}
      managers == {u \in Active : ViewRole[u] \in ManagerRoles}
  IN  IF cas # {} THEN cas
      ELSE {u \in managers : \A v \in managers : u <= v}

\* Whom create_ticket may choose, before it looks at his department; empty when
\* it refuses.
CreateAssignees(c, block, load) ==
  LET resolved == resolve_assigned_ca(c, block, load)
  IN  IF resolved # {} THEN resolved ELSE FallbackAssignee(c)

\* Whom routing can name at all, for some block and some load.
Candidates(c) ==
  LET mapped == MappedCAs({m \in Mappings : m.category = c})
  IN  IF mapped # {} THEN mapped
      ELSE IF DefaultCA[c] # NoUser THEN {DefaultCA[c]} ELSE FallbackAssignee(c)
=============================================================================
