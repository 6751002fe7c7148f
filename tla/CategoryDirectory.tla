------------------------- MODULE CategoryDirectory -------------------------
(***************************************************************************)
(* Who is responsible for a category: the handlers of app/management.py    *)
(* that write helpdesk_categories, helpdesk_ca_assignments and             *)
(* helpdesk_staff_roles through db_services.py, and the creation of a      *)
(* ticket, which reads them.  Worker threads serve them concurrently, on   *)
(* connections in autocommit: a handler is as atomic as one of its SQL     *)
(* statements, so what a statement read may be stale when a later one      *)
(* writes it.                                                              *)
(*                                                                         *)
(* Everything happens in one department (the department checks are in      *)
(* TicketRules), and requests a handler refuses at once leave no trace and *)
(* are left out.  A handler that loops over several categories is several  *)
(* requests; a bulk operation is one statement and one request.            *)
(*                                                                         *)
(* The rows of categories, mappings and tickets carry the request that     *)
(* wrote them last.  That, and ended, is history: no handler reads it.     *)
(*                                                                         *)
(* An operator named ...Slip is no part of the specification: it is the    *)
(* operator below it with a plausible mistake, which a run has to notice.  *)
(***************************************************************************)
EXTENDS Naturals, FiniteSets

CONSTANTS
  People,       \* whoever may be named as an assignee
  Teachers,     \* those with a row in teacher_info, which nobody deletes
  NoOne,        \* NULL in assigned_ca_id
  Keep,         \* the choice of an edit form that leaves the assignee alone
  Blocks,       \* values of helpdesk_ca_assignments.block
  Names,        \* values of category_name
  Categories,   \* ids of the first categories
  Requests,     \* the requests of a behaviour
  Threads,      \* how many requests are served at a time
  MaxMissed,    \* bound on counts of one deletion that fail
  Seeded,       \* stands for what wrote the first rows
  SeedCategories, SeedMappings, SeedStaff,
  Forms,        \* what is posted, as the locals of a handler that starts
  Blank         \* the locals of a request that has not arrived

\* An INSERT takes a fresh id: a category takes the request that created it.
Cats == Categories \cup Requests
Authors == Requests \cup {Seeded}
Slots == [category : Cats, ca : People, block : Blocks]
Category == [name : Names, default : People \cup {NoOne}, active : BOOLEAN,
             author : Authors]
Staff == [role : {"CA", "FACULTY"}, active : BOOLEAN]
Ticket == [category : Cats, assignee : People, author : Authors]

\* The operations whose form names one category; bulk ones name several.
Single == {"assign", "map", "setDefault", "edit", "toggle", "remove", "unmapOne",
           "drop", "ticket"}
Appointing == {"assign", "map", "setDefault", "create", "edit", "bulkAssign"}
Kinds == Single \cup Appointing \cup {"bulkRemove", "bulkToggle", "user", "deleteUser"}

Counts == {"countDefaults", "countMappings", "countTickets"}

Job == [kind : Kinds,
        cats : SUBSET Cats,                 \* categories the form names
        who : People \cup {NoOne, Keep},    \* user the form names
        blocks : SUBSET Blocks,
        name : Names,                       \* category name to be written
        role : {"CA", "FACULTY"}, on : BOOLEAN,
        \* read on the way:
        seen : People \cup {NoOne},         \* an assignee
        saw : BOOLEAN,                      \* the answer to a test
        missed : SUBSET Counts,             \* counts that failed unnoticed
        todo : SUBSET Blocks,               \* blocks still to be mapped
        at : Blocks,                        \* the block being mapped
        queue : SUBSET Cats,                \* categories still to be written
        cat : Cats]                         \* the one being written

ASSUME DirectoryConstants ==
  /\ Teachers \subseteq People
  /\ {NoOne, Keep} \cap People = {} /\ NoOne # Keep
  /\ Seeded \notin Requests /\ Categories \cap Requests = {}
  /\ Threads \in Nat /\ MaxMissed \in Nat
  /\ SeedCategories \in [Categories -> Category]
  /\ DOMAIN SeedMappings \subseteq [category : Categories, ca : People, block : Blocks]
  /\ DOMAIN SeedStaff \subseteq People /\ SeedStaff \in [DOMAIN SeedStaff -> Staff]
  /\ \A c \in Categories : SeedCategories[c].author = Seeded
  /\ SeedMappings \in [DOMAIN SeedMappings -> {Seeded}]
  /\ \A c, d \in Categories : c # d => SeedCategories[c].name # SeedCategories[d].name
  /\ Blank \in Job /\ Forms \subseteq Job
  /\ \A f \in Forms :
       /\ f.kind \in Single => \E c \in Cats : f.cats = {c}
       /\ f.who = Keep => f.kind = "edit"
       /\ f.who = NoOne => f.kind \in {"create", "edit", "bulkRemove", "bulkToggle",
                                      "toggle", "drop", "ticket"}

VARIABLES
  category,  \* helpdesk_categories:     [set of Cats -> Category]
  mapping,   \* helpdesk_ca_assignments: [set of Slots -> Authors]
  staff,     \* helpdesk_staff_roles:    [set of People -> Staff]
  tickets,   \* helpdesk_tickets, as far as it refers to the others
  pc,        \* next statement of each request
  job,       \* locals of each request
  ended      \* history: the requests that had ended when a request began

tables == <<category, mapping, staff, tickets>>
vars == <<tables, pc, job, ended>>

EndPCs == {"done", "refused", "failed"}
PCs == {"idle", "reactivate", "check", "promote", "lookup", "seek", "insertMapping",
        "setDefaults", "overwrite", "insertCategory", "setActive", "writeUser",
        "unmap", "seeDefault", "seeOther", "elect", "unmapOne", "findTickets",
        "dropCategory", "countDefaults", "countMappings", "countTickets", "retire",
        "route", "insertTicket"} \cup EndPCs

Running(r) == pc[r] \notin EndPCs \cup {"idle"}

-----------------------------------------------------------------------------
(* What the queries answer.                                                *)

\* get_user finds a row of teacher_info or of helpdesk_staff_roles.
Found(p) == p \in Teachers \cup DOMAIN staff

\* The roles get_user may return.  The view helpdesk_users, asked last, shows
\* a row of teacher_info as FACULTY, whatever helpdesk_staff_roles says; if
\* that query fails, the role in helpdesk_staff_roles stands.
RolesShown(p) == {staff[q].role : q \in DOMAIN staff \cap {p}}
                 \cup (IF p \in Teachers THEN {"FACULTY"} ELSE {})

Existing == DOMAIN category
Named(n) == {c \in Existing : category[c].name = n}
DefaultsOf(p) == {c \in Existing : category[c].default = p}
Mapped(c) == {p \in People : \E b \in Blocks :
                [category |-> c, ca |-> p, block |-> b] \in DOMAIN mapping}
TicketsIn(c) == {t \in tickets : t.category = c}

\* The unique key uq_categories_name_dept and the foreign key
\* fk_tickets_category, which have the last word.
NameFreeSlip(n, cs) == TRUE         \* relying on category_exists alone
NameFree(n, cs) == Named(n) \subseteq cs
DroppableSlip(cs) == TRUE           \* relying on the count alone
Droppable(cs) == \A c \in cs : TicketsIn(c) = {}

\* The user the mappings of a handler are for.
AppointeeSlip(r) == job[r].who
Appointee(r) == IF job[r].who = Keep THEN job[r].seen ELSE job[r].who

\* The categories a handler writes.
Targets(r) == IF job[r].kind = "create" THEN {r} ELSE job[r].cats

-----------------------------------------------------------------------------
(* How a statement ends.  One that was applied may have lost its answer    *)
(* and is then sent again (_execute_cursor), or its handler ends.          *)

Goto(r, label) == pc' = [pc EXCEPT ![r] = label]
Answered(r, label, j) == Goto(r, label) /\ job' = [job EXCEPT ![r] = j]
Resent(r) == UNCHANGED <<pc, job>>
Stopped(r) == Goto(r, "failed") /\ UNCHANGED job

\* A statement that wrote, and one that only read.
Applied(r, label, j) == /\ Answered(r, label, j) \/ Resent(r) \/ Stopped(r)
                        /\ UNCHANGED ended
Read(r, label, j) == Answered(r, label, j) /\ UNCHANGED <<tables, ended>>
Decide(r, label) == Read(r, label, job[r])

\* update_user and delete_user go on after an error: the statement was not
\* applied, and nobody is told.
Ignored(r, label) == Decide(r, label)

\* Any statement may fail for good before it is applied, or its worker die.
Fail(r) == Running(r) /\ Stopped(r) /\ UNCHANGED <<tables, ended>>

-----------------------------------------------------------------------------
(* A request arrives.  The handler reads the rows the form names.          *)

\* update_user clears the categories of a user it takes the role CA from.
Demotes(f, role) == f.kind = "user" /\ role = "CA" /\ f.role = "FACULTY"

Admitted(f) ==
  /\ f.kind \in {"assign", "edit", "toggle", "remove", "drop", "ticket"}
       => f.cats \subseteq Existing
  /\ f.kind \in {"remove", "user", "deleteUser"} => Found(f.who)
  /\ f.kind = "create" => \A c \in Named(f.name) : ~category[c].active
  /\ f.kind = "edit" => Named(f.name) \subseteq f.cats

\* The first statement after those reads and, of Appointing, after the check.
First == [assign |-> "lookup", map |-> "seek", setDefault |-> "lookup",
          create |-> "insertCategory", edit |-> "seek", bulkAssign |-> "setDefaults",
          bulkRemove |-> "setDefaults", bulkToggle |-> "setActive", toggle |-> "setActive",
          remove |-> "unmap", unmapOne |-> "unmapOne", drop |-> "findTickets",
          user |-> "writeUser", deleteUser |-> "countDefaults", ticket |-> "route"]

Entry(f) ==
  IF f.kind = "create" /\ Named(f.name) # {} THEN "reactivate"
  ELSE IF f.kind \in Appointing /\ f.who \in People THEN "check"
  ELSE First[f.kind]

Arrive(r, f) ==
  /\ pc[r] = "idle" /\ Cardinality({s \in Requests : Running(s)}) < Threads
  /\ Admitted(f)
  /\ \E p \in People \cup {NoOne},
        role \in IF f.kind = "user" THEN RolesShown(f.who) ELSE {f.role} :
       /\ IF f.kind \in {"edit", "ticket"} THEN \E c \in f.cats : p = category[c].default
                                          ELSE p = NoOne
       /\ Answered(r, Entry(f),
            [f EXCEPT !.seen = p, !.todo = f.blocks, !.queue = f.cats, !.missed = {},
                      !.saw = \/ Demotes(f, role)
                              \/ f.kind = "toggle" /\ \E c \in f.cats : category[c].active])
  /\ ended' = [ended EXCEPT ![r] = {s \in Requests : pc[s] \in EndPCs}]
  /\ UNCHANGED tables

-----------------------------------------------------------------------------
(* Choosing an assignee: check_and_promote_ca, called by all of Appointing. *)

Check(r) ==
  /\ pc[r] = "check"
  /\ LET p == job[r].who
     IN  \/ "FACULTY" \in RolesShown(p) /\ Decide(r, "promote")
         \/ /\ RolesShown(p) # {"FACULTY"} \/ p \in Teachers  \* named by reference
            /\ Decide(r, First[job[r].kind])

\* update_user with what get_user returned: the staff row is written if there
\* is one, inserted otherwise.
WithRole(p, role, active) ==
  [q \in DOMAIN staff \cup {p} |-> IF q = p THEN [role |-> role, active |-> active]
                                         ELSE staff[q]]

Promote(r) ==
  /\ pc[r] = "promote"
  /\ \/ LET p == job[r].who
        IN  /\ staff' = WithRole(p, "CA", p \in DOMAIN staff => staff[p].active)
            /\ Applied(r, First[job[r].kind], job[r])
            /\ UNCHANGED <<category, mapping, tickets>>
     \/ Ignored(r, First[job[r].kind])

\* assign_ca_to_category_blocks and assign_ca read the category again.
Lookup(r) ==
  /\ pc[r] = "lookup"
  /\ \E c \in job[r].cats :
       CASE c \notin Existing -> Decide(r, "failed")
         [] c \in Existing /\ job[r].kind = "setDefault" ->
              Read(r, "overwrite", [job[r] EXCEPT !.name = category[c].name])
         [] c \in Existing /\ job[r].kind = "assign" ->
              IF Found(job[r].who)
              THEN Read(r, "seek", [job[r] EXCEPT !.seen = category[c].default])
              ELSE Decide(r, "failed")

-----------------------------------------------------------------------------
(* Mapping the assignee, block by block: create_ca_assignment.              *)

SlotOf(r, c, b) == [category |-> c, ca |-> Appointee(r), block |-> b]

\* What follows the last block.  assign sets the default assignee if the
\* category it read before had none.
AfterMappingSlip(r) == IF job[r].kind = "edit" THEN "overwrite" ELSE "done"
AfterMapping(r) ==
  CASE job[r].kind = "edit" -> "overwrite"
    [] job[r].kind = "assign" /\ job[r].seen = NoOne -> "setDefaults"
    [] OTHER -> "done"

Seek(r) ==
  /\ pc[r] = "seek"
  /\ \/ /\ job[r].todo = {} \/ Appointee(r) = NoOne
        /\ Decide(r, AfterMapping(r))
     \/ /\ Appointee(r) # NoOne
        /\ \E b \in job[r].todo, c \in Targets(r) :
             LET j == [job[r] EXCEPT !.todo = @ \ {b}, !.at = b]
             IN  IF c \in Existing /\ Found(Appointee(r)) /\ SlotOf(r, c, b) \notin DOMAIN mapping
                 THEN Read(r, "insertMapping", j)
                 ELSE Read(r, "seek", j)                     \* ValueError: skipped

\* The unique key and the foreign key of the table have the last word.
Insertable(slot) == slot.category \in Existing /\ slot \notin DOMAIN mapping

InsertMapping(r) ==
  /\ pc[r] = "insertMapping"
  /\ \E c \in Targets(r) :
       LET slot == SlotOf(r, c, job[r].at)
       IN  \/ /\ Insertable(slot)
              /\ mapping' = [s \in DOMAIN mapping \cup {slot} |->
                               IF s = slot THEN r ELSE mapping[s]]
              /\ Applied(r, "seek", job[r])
              /\ UNCHANGED <<category, staff, tickets>>
           \/ /\ ~Insertable(slot)                          \* IntegrityError
              /\ Decide(r, IF job[r].kind \in {"assign", "map"} THEN "failed" ELSE "seek")

\* Creating and editing a category catch the failure of a statement about the
\* assignee and go on: without one, with the one they read, or without the
\* mapping.
CarryOn(r) ==
  /\ job[r].kind \in {"create", "edit"}
  /\ \/ /\ pc[r] \in {"check", "promote"}
        /\ Read(r, First[job[r].kind],
                [job[r] EXCEPT !.who = IF job[r].kind = "edit" THEN Keep ELSE NoOne])
     \/ pc[r] = "insertMapping" /\ Decide(r, "seek")

-----------------------------------------------------------------------------
(* Writing categories.                                                      *)

Appointed(cs, p, r) ==
  [c \in Existing |-> IF c \in cs THEN [category[c] EXCEPT !.default = p, !.author = r]
                                 ELSE category[c]]

\* UPDATE ... SET assigned_ca_id: of assign, bulk_assign_ca and bulk_remove_ca.
SetDefaults(r) ==
  /\ pc[r] = "setDefaults"
  /\ category' = Appointed(job[r].cats, job[r].who, r)
  /\ Applied(r, "done", job[r])
  /\ UNCHANGED <<mapping, staff, tickets>>

\* update_category: name and default assignee are written as they were read
\* or posted, whatever they are by now.
Overwrite(r) ==
  /\ pc[r] = "overwrite"
  /\ IF NameFree(job[r].name, job[r].cats)
     THEN /\ category' = [c \in Existing |->
                           IF c \in job[r].cats
                           THEN [category[c] EXCEPT !.name = job[r].name, !.author = r,
                                                    !.default = Appointee(r)]
                           ELSE category[c]]
          /\ Applied(r, "done", job[r])
          /\ UNCHANGED <<mapping, staff, tickets>>
     ELSE Decide(r, "failed")                                \* uq_categories_name_dept

\* Sent again, it finds its own name taken; that somebody renamed the row
\* meanwhile, so that a second one goes in, is left out.
InsertCategory(r) ==
  /\ pc[r] = "insertCategory"
  /\ IF NameFree(job[r].name, {}) /\ r \notin Existing
     THEN /\ category' = [c \in Existing \cup {r} |->
                           IF c = r THEN [name |-> job[r].name, default |-> job[r].who,
                                          active |-> TRUE, author |-> r]
                                    ELSE category[c]]
          /\ Applied(r, "seek", job[r])
          /\ UNCHANGED <<mapping, staff, tickets>>
     ELSE Decide(r, "failed")

\* A toggle writes the negation of what it read; creating a category that
\* exists and is disabled enables it.
SetActive(r) ==
  /\ pc[r] \in {"setActive", "reactivate"}
  /\ LET cs == IF pc[r] = "reactivate" THEN Named(job[r].name) ELSE job[r].cats
         value == CASE pc[r] = "reactivate" -> TRUE
                    [] job[r].kind = "toggle" -> ~job[r].saw
                    [] OTHER -> job[r].on
     IN  category' = [c \in Existing |-> IF c \in cs THEN [category[c] EXCEPT !.active = value]
                                                     ELSE category[c]]
  /\ Applied(r, "done", job[r])
  /\ UNCHANGED <<mapping, staff, tickets>>

\* Of delete_category: refused if the category has tickets.
FindTickets(r) ==
  /\ pc[r] = "findTickets"
  /\ Decide(r, IF \E c \in job[r].cats : TicketsIn(c) # {} THEN "refused" ELSE "dropCategory")

\* The mappings go with the category (ON DELETE CASCADE), tickets do not let
\* it go (RESTRICT).
DropCategory(r) ==
  /\ pc[r] = "dropCategory"
  /\ IF Droppable(job[r].cats)
     THEN /\ category' = [c \in Existing \ job[r].cats |-> category[c]]
          /\ mapping' = [s \in {s \in DOMAIN mapping : s.category \notin job[r].cats} |-> mapping[s]]
          /\ Applied(r, "done", job[r])
          /\ UNCHANGED <<staff, tickets>>
     ELSE Decide(r, "failed")

-----------------------------------------------------------------------------
(* Taking an assignee away: from a category (remove_ca_from_category), or   *)
(* from all of them when a user loses the role                              *)
(* (unassign_ca_from_all_categories).                                       *)

Scope(r) == IF job[r].kind = "user" THEN Cats ELSE job[r].cats

WriteUser(r) ==
  /\ pc[r] = "writeUser"
  /\ LET label == IF job[r].saw THEN "unmap" ELSE "done"
     IN  \/ /\ staff' = WithRole(job[r].who, job[r].role, job[r].on)
            /\ Applied(r, label, job[r])
            /\ UNCHANGED <<category, mapping, tickets>>
         \/ Ignored(r, label)

Without(cs, p) == [s \in {s \in DOMAIN mapping : ~(s.category \in cs /\ s.ca = p)} |-> mapping[s]]

\* DELETE of the mappings of a person, of all of whom there is one id here: the
\* SELECT of his other one, whose error is swallowed, is left out.
UnmapSlip(r) ==                     \* forgets the default assignee
  /\ pc[r] = "unmap"
  /\ mapping' = Without(Scope(r), job[r].who)
  /\ Applied(r, "done", job[r])
  /\ UNCHANGED <<category, staff, tickets>>
Unmap(r) ==
  /\ pc[r] = "unmap"
  /\ IF job[r].kind = "user" /\ ~Found(job[r].who)
     THEN Decide(r, "refused")
     ELSE /\ mapping' = Without(Scope(r), job[r].who)
          /\ Applied(r, "seeDefault", job[r])
          /\ UNCHANGED <<category, staff, tickets>>

\* The categories he is still the default of get another one, or none.
SeeDefault(r) ==
  /\ pc[r] = "seeDefault"
  /\ LET affected == DefaultsOf(job[r].who) \cap Scope(r)
     IN  Read(r, IF affected = {} THEN "done" ELSE "seeOther",
              [job[r] EXCEPT !.queue = affected])

SeeOther(r) ==
  /\ pc[r] = "seeOther"
  /\ \E c \in job[r].queue, p \in People \cup {NoOne} :
       /\ IF Mapped(c) = {} THEN p = NoOne ELSE p \in Mapped(c)
       /\ Read(r, "elect", [job[r] EXCEPT !.cat = c, !.seen = p])

Elect(r) ==
  /\ pc[r] = "elect"
  /\ LET rest == job[r].queue \ {job[r].cat}
     IN  /\ category' = Appointed({job[r].cat}, job[r].seen, r)
         /\ Applied(r, IF rest = {} THEN "done" ELSE "seeOther", [job[r] EXCEPT !.queue = rest])
  /\ UNCHANGED <<mapping, staff, tickets>>

\* delete_ca_assignment: one row, the default assignee stays.
UnmapOne(r) ==
  /\ pc[r] = "unmapOne"
  /\ mapping' = [s \in {s \in DOMAIN mapping : ~(/\ s.category \in job[r].cats
                                                 /\ s.ca = job[r].who
                                                 /\ s.block \in job[r].blocks)} |-> mapping[s]]
  /\ Applied(r, "done", job[r])
  /\ UNCHANGED <<category, staff, tickets>>

-----------------------------------------------------------------------------
(* delete_user counts what refers to a user, table by table, and deletes    *)
(* him if nothing does.  A count that fails is taken for zero.              *)

NextCount == [countDefaults |-> "countMappings", countMappings |-> "countTickets",
              countTickets |-> "retire"]

RefersSlip(count, p) == count = "countDefaults" /\ DefaultsOf(p) # {}
Refers(count, p) ==
  CASE count = "countDefaults" -> DefaultsOf(p) # {}
    [] count = "countMappings" -> \E s \in DOMAIN mapping : s.ca = p
    [] count = "countTickets" -> \E t \in tickets : t.assignee = p

Count(r) ==
  /\ pc[r] \in DOMAIN NextCount
  /\ \/ Read(r, NextCount[pc[r]], [job[r] EXCEPT !.saw = @ \/ Refers(pc[r], job[r].who)])
     \/ /\ Cardinality(job[r].missed) < MaxMissed
        /\ Read(r, NextCount[pc[r]], [job[r] EXCEPT !.missed = @ \cup {pc[r]}])

Retire(r) ==
  /\ pc[r] = "retire"
  /\ \/ LET p == job[r].who
        IN  /\ staff' = IF job[r].saw
                        THEN [q \in DOMAIN staff |-> IF q = p THEN [staff[q] EXCEPT !.active = FALSE]
                                                             ELSE staff[q]]
                        ELSE [q \in DOMAIN staff \ {p} |-> staff[q]]
            /\ Applied(r, "done", job[r])
            /\ UNCHANGED <<category, mapping, tickets>>
     \/ Ignored(r, "done")

-----------------------------------------------------------------------------
(* create_ticket: the assignee is looked up and the ticket inserted.        *)

Candidates(r) ==
  LET mapped == UNION {Mapped(c) : c \in job[r].cats}
      default == {category[c].default : c \in job[r].cats \cap Existing} \cup {job[r].seen}
      fallback == {p \in DOMAIN staff : staff[p] = [role |-> "CA", active |-> TRUE]}
  IN  CASE mapped # {} -> mapped
        [] mapped = {} /\ default # {NoOne} -> default \ {NoOne}
        [] OTHER -> fallback

Route(r) ==
  /\ pc[r] = "route"
  /\ \/ \E p \in Candidates(r) : Read(r, "insertTicket", [job[r] EXCEPT !.seen = p])
     \/ Candidates(r) = {} /\ Decide(r, "refused")

InsertTicket(r) ==
  /\ pc[r] = "insertTicket"
  /\ IF job[r].cats \subseteq Existing
     THEN /\ tickets' = tickets \cup {[category |-> c, assignee |-> job[r].seen, author |-> r] :
                                       c \in job[r].cats}
          /\ Applied(r, "done", job[r])
          /\ UNCHANGED <<category, mapping, staff>>
     ELSE Decide(r, "failed")                                \* fk_tickets_category

-----------------------------------------------------------------------------
Init ==
  /\ category = SeedCategories /\ mapping = SeedMappings /\ staff = SeedStaff
  /\ tickets = {}
  /\ pc = [r \in Requests |-> "idle"]
  /\ job = [r \in Requests |-> Blank] /\ ended = [r \in Requests |-> {}]

Step(r) ==
  \/ Check(r) \/ Promote(r) \/ Lookup(r) \/ Seek(r) \/ InsertMapping(r) \/ CarryOn(r)
  \/ SetDefaults(r) \/ Overwrite(r) \/ InsertCategory(r) \/ SetActive(r)
  \/ FindTickets(r) \/ DropCategory(r) \/ WriteUser(r) \/ Unmap(r)
  \/ SeeDefault(r) \/ SeeOther(r) \/ Elect(r) \/ UnmapOne(r)
  \/ Count(r) \/ Retire(r) \/ Route(r) \/ InsertTicket(r)

Next == \E r \in Requests : (\E f \in Forms : Arrive(r, f)) \/ Step(r) \/ Fail(r)

Spec == Init /\ [][Next]_vars

-----------------------------------------------------------------------------
TypeOK ==
  /\ DOMAIN category \subseteq Cats /\ category \in [DOMAIN category -> Category]
  /\ DOMAIN mapping \subseteq Slots /\ mapping \in [DOMAIN mapping -> Authors]
  /\ DOMAIN staff \subseteq People /\ staff \in [DOMAIN staff -> Staff]
  /\ tickets \subseteq Ticket
  /\ pc \in [Requests -> PCs] /\ job \in [Requests -> Job]
  /\ ended \in [Requests -> SUBSET Requests]

\* What had been written for good when r began.
Before(r) == ended[r] \cup {Seeded}

\* Removing an assignee from a category, and taking the role from a user,
\* leave nothing of what had made him responsible when they began: he is
\* default assignee or mapped only by a request they ran along with, or a
\* later one.  (remove_ca_from_category and unassign_ca_from_all_categories
\* delete, read and elect in statements of their own.)
RemovalTakesEffect ==
  \A r \in Requests :
    /\ pc[r] = "done"
    /\ \/ job[r].kind = "remove"
       \/ job[r].kind = "user" /\ job[r].saw
    => /\ \A c \in DefaultsOf(job[r].who) \cap Scope(r) : category[c].author \notin Before(r)
       /\ \A s \in DOMAIN mapping :
            s.category \in Scope(r) /\ s.ca = job[r].who => mapping[s] \notin Before(r)

\* s was served along with r, or later.
Meets(s, r) == s # r /\ pc[s] # "idle" /\ s \notin ended[r]

\* An assignment that was answered holds: the assignee is mapped for every
\* block of the form and the category has a default assignee, unless a
\* request that ran along with it, or later, took that away.
\* (assign_ca_to_category_blocks decides on a category it read earlier.)
AssignmentTakesEffect ==
  \A r \in Requests : pc[r] = "done" /\ job[r].kind = "assign" =>
    \A c \in job[r].cats :
      /\ \/ \A b \in job[r].blocks : SlotOf(r, c, b) \in DOMAIN mapping
         \/ \E s \in Requests : Meets(s, r) /\
              \/ /\ job[s].kind \in {"remove", "user", "unmapOne", "deleteUser"}
                 /\ job[s].who = job[r].who
              \/ job[s].kind = "drop" /\ c \in job[s].cats
      /\ \/ c \in Existing /\ category[c].default # NoOne
         \/ \E s \in Requests :
              /\ Meets(s, r) /\ c \in Scope(s)
              /\ job[s].kind \in {"remove", "user", "edit", "bulkRemove", "drop"}

\* A user is deleted for good only if nothing that was there when the
\* deletion began refers to him: delete_user counts table by table, and what
\* is left without its user was written meanwhile, or is in a table whose
\* count failed (delete_user takes a count that fails for zero).
NoReferenceLost ==
  \A r \in Requests :
    LET p == job[r].who
        counted == Counts \ job[r].missed
    IN  pc[r] = "done" /\ job[r].kind = "deleteUser" /\ ~job[r].saw /\ ~Found(p) =>
          /\ "countDefaults" \in counted =>
               \A c \in DefaultsOf(p) : category[c].author \notin Before(r)
          /\ "countMappings" \in counted =>
               \A s \in DOMAIN mapping : s.ca = p => mapping[s] \notin Before(r)
          /\ "countTickets" \in counted =>
               \A t \in tickets : t.assignee = p => t.author \notin Before(r)

\* A ticket keeps its category and a mapping too, although delete_category
\* counts the tickets in one statement and deletes in another.
RowsKeepCategory ==
  /\ \A t \in tickets : t.category \in DOMAIN category
  /\ \A s \in DOMAIN mapping : s.category \in DOMAIN category

\* No two categories have the same name, although creating and renaming look
\* for the name in one statement and write it in another.
NamesAreUnique ==
  \A c, d \in DOMAIN category : category[c].name = category[d].name => c = d

\* Changing an Assignee to USER clears all his category assignments
\* (tests/test_user_ca_categories.py:132): none that was there when the
\* request began is left.
DemotionClears ==
  \A r \in Requests :
    pc[r] = "done" /\ job[r].kind = "user" /\ job[r].role = "FACULTY" =>
      /\ \A c \in DefaultsOf(job[r].who) : category[c].author \notin Before(r)
      /\ \A s \in DOMAIN mapping : s.ca = job[r].who => mapping[s] \notin Before(r)
=============================================================================
