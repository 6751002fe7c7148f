------------------------ MODULE MCCategoryDirectory ------------------------
(* Small instances of CategoryDirectory: an account and a teacher, a         *)
(* category with an assignee, and the forms that may be posted about them.  *)
EXTENDS CategoryDirectory, TLC

CONSTANTS ann, tom, net, block, n1, n2, r1, r2, r3

MCCategory == (net :> [name |-> n1, default |-> ann, active |-> TRUE, author |-> Seeded])
MCMapping == ([category |-> net, ca |-> ann, block |-> block] :> Seeded)
MCBoth == MCMapping @@ ([category |-> net, ca |-> tom, block |-> block] :> Seeded)
MCStaff == (ann :> [role |-> "CA", active |-> TRUE])

MCBlank == [kind |-> "ticket", cats |-> {net}, who |-> NoOne, blocks |-> {}, name |-> n1,
            role |-> "CA", on |-> TRUE, seen |-> NoOne, saw |-> FALSE, missed |-> {}, todo |-> {},
            at |-> block, queue |-> {}, cat |-> net]

Posted(kind, who) == [MCBlank EXCEPT !.kind = kind, !.who = who,
                        !.cats = IF kind \in {"user", "deleteUser", "create"} THEN {} ELSE {net},
                        !.blocks = IF kind \in {"assign", "map", "unmapOne", "edit"} THEN {block} ELSE {},
                        !.role = IF kind = "user" THEN "FACULTY" ELSE "CA",
                        !.name = IF kind = "create" THEN n2 ELSE n1]

\* What may happen to one category and its assignees.
MCForms ==
  {Posted(k, ann) : k \in {"assign", "remove", "user", "deleteUser", "unmapOne"}}
  \cup {Posted(k, tom) : k \in {"setDefault", "bulkAssign", "edit", "create"}}
  \cup {Posted(k, NoOne) : k \in {"bulkRemove", "toggle", "drop", "ticket"}}
  \cup {[Posted("edit", Keep) EXCEPT !.name = n2, !.blocks = {}]}

MCDemotions == {Posted("user", tom)}

MCSymmetry == Permutations(Requests)
=============================================================================
