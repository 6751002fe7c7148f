------------------------- MODULE MCTicketLifecycle -------------------------
(* Small instances of TicketLifecycle: a teacher, two assignees and a head  *)
(* of one department under two spellings, an administrator of it, and an    *)
(* assignee of another; a category of each department, one of them mapped,  *)
(* for one block, out of its department.  One of the assignees is a teacher, *)
(* whom the view does not show as one.                                      *)
EXTENDS TicketLifecycle, TLC

CONSTANTS r1, r2, r3, k1

Teacher == 1
CA1 == 2
CA2 == 3
Hod == 4
Outsider == 5
Admin == 6

MCUsers == {Teacher, CA1, Hod, Outsider, Admin}
MCFewUsers == {Teacher, CA1, CA2, Hod}
MCRole == [u \in Users |-> CASE u = Teacher -> "FACULTY" [] u = Hod -> "HOD"
                             [] u = Admin -> "ADMIN" [] u = CA2 -> "ASSIGNEE" [] OTHER -> "CA"]
MCViewRole == [u \in Users |-> IF u = CA1 THEN "FACULTY" ELSE MCRole[u]]
MCDept == [u \in Users |-> CASE u = Teacher -> "noDept" [] u = Outsider -> "EEE"
                             [] u = Admin -> "Computer Science" [] OTHER -> "CSE"]
MCOrg == [u \in Users |-> 2000]
MCCategories == {"network", "lift"}
MCCatDept == [c \in Categories |-> IF c = "network" THEN "CSE" ELSE "EEE"]
MCDefaultCA == [c \in Categories |-> 0]
MCBlocks == {"Block-I", "All Blocks"}
MCFewMappings == {[category |-> "network", ca |-> CA1, block |-> "All Blocks"],
                  [category |-> "network", ca |-> CA2, block |-> "All Blocks"]}
MCMappings == {[category |-> "network", ca |-> CA1, block |-> "Block-I"],
               [category |-> "lift", ca |-> Outsider, block |-> "All Blocks"],
               [category |-> "lift", ca |-> CA1, block |-> "Block-I"]}
MCAliases == [b \in Blocks |-> {b}]
MCDeptNames == {"CSE", "Computer Science", "EEE"}
MCCanon == ("CSE" :> "cs") @@ ("Computer Science" :> "cs") @@ ("EEE" :> "ee")
MCKeyOwner == [k \in Keys |-> Teacher]

MCSeed(t, u) == [status |-> "PENDING", assignee |-> u, creator |-> Teacher,
                 category |-> "network", key |-> t]
MCLiftSeed == (1 :> [MCSeed(1, Outsider) EXCEPT !.category = "lift"])
MCOneSeed == (1 :> MCSeed(1, CA1))
MCTwoSeeds == (1 :> MCSeed(1, CA1)) @@ (2 :> MCSeed(2, CA1))

\* Forms of a reassignment: one ticket, two out of the order of their ids, and
\* the same one twice.
MCOneTicket == {<<1>>}
MCTwoTickets == {<<1>>, <<2, 1>>}
MCSelections == {<<2, 1>>, <<1, 1>>}

MCSymmetry == Permutations(Requests)
=============================================================================
