------------------------- MODULE MCMigrationRunner -------------------------
(* Three files: a baseline one that creates a table if it is missing and   *)
(* replaces a view, whose DOWN section has comments only, as 0003 to 0006  *)
(* have; one with a table, a column that can be added once and a rollback; *)
(* one that appears later, modifies the baseline table as 0007 does and    *)
(* has no DOWN section.  The database is empty at first or has the table   *)
(* in a definition no file knows.                                          *)
EXTENDS MigrationRunner, TLC

CONSTANTS v1, v2,
  roles, users, probe, column,                 \* two tables, a view, a column
  roles0, roles1, roles2, roles7, users1, users2, probe1, column1

MCObject == [d \in {roles0, roles1, roles2, roles7} |-> roles]
         @@ [d \in {users1, users2} |-> users] @@ probe1 :> probe @@ column1 :> column
MCMode == [d \in {roles0, roles1, roles2, probe1} |-> "ifMissing"]
       @@ [d \in {users1, users2} |-> "replace"] @@ roles7 :> "modify" @@ column1 :> "once"
MCFound == {[o \in {roles, users, probe, column} |-> IF o = roles THEN d ELSE Absent] :
              d \in {roles0, Absent}}

MCUp == (1 :> (v1 :> <<roles1, users1>> @@ v2 :> <<roles2, users2>>))
     @@ (7 :> [v \in {v1, v2} |-> <<probe1, column1>>])
     @@ (8 :> [v \in {v1, v2} |-> <<roles7>>])
MCDown == (1 :> (v1 :> << >> @@ v2 :> << >>))
       @@ (7 :> (v1 :> <<column1, probe1>> @@ v2 :> <<column1>>))
       @@ (8 :> [v \in {v1, v2} |-> NoDown])
MCOnDisk == (1 :> v1) @@ (7 :> v1) @@ (8 :> Absent)

Cmd(kind, target, force) == [kind |-> kind, target |-> target, force |-> force]
MCCommands == {Cmd("up", NoTarget, FALSE), Cmd("up", {7}, FALSE),
               Cmd("down", NoTarget, FALSE), Cmd("down", {1}, TRUE),
               Cmd("bootstrap", {1, 7}, FALSE), Cmd("repair", NoTarget, FALSE)}
=============================================================================
