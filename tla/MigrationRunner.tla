-------------------------- MODULE MigrationRunner --------------------------
(***************************************************************************)
(* scripts/migrate.py: processes that change the database schema from      *)
(* numbered files, each under the MySQL advisory lock 'helpdesk_migration' *)
(* of its one connection.                                                  *)
(*                                                                         *)
(* DDL cannot be rolled back, so a command is as atomic as one statement:  *)
(* it reads the status of every file, then takes the files it decided on   *)
(* one by one, executing their statements and writing the tracking row     *)
(* last.  The server may drop a connection between any two statements, and *)
(* the lock with it; the process finds out at its next statement.  Files   *)
(* can be added, edited or deleted on disk at any time.  A statement is    *)
(* abstracted to the definition it would give one object of the schema (a  *)
(* table, column, constraint or view) and to what it does when the object  *)
(* is there already; a checksum to the version of the file.  Commands that *)
(* read only (status, --dry-run) are left out.                             *)
(***************************************************************************)
EXTENDS Naturals, Sequences, FiniteSets

CONSTANTS
  Runners,    \* how many processes can run at a time
  NoRunner,
  Files,      \* numeric prefixes of the migration files
  Versions,   \* contents a file can have, up to compute_checksum
  Absent,     \* no such file on disk, or no row in the tracking table
  Objects,    \* tables, columns, constraints, views
  Effects,    \* the definitions statements give to objects
  Object,     \* [Effects -> Objects], whose definition it is
  Mode,       \* [Effects -> Modes], how its statement deals with one there
  Up,         \* [Files -> [Versions -> Seq(Effects)]], forward statements
  Down,       \* [Files -> [Versions -> Seq(Effects) or NoDown]], what the
  NoDown,     \*   statements below the DOWN marker take out; no marker
  Found,      \* schemas a database has before its first migration
  Baseline,   \* files 0001 to 0006
  NoTarget,   \* no --target option
  Commands,   \* the commands of a behaviour
  OnDisk,     \* [Files -> Versions or Absent], the files at first
  MaxStarts,  \* bound on commands started
  MaxEdits,   \* bound on edits of files
  MaxLosses   \* bound on lost connections, refused statements, lost files

Command == [kind : {"up", "down", "bootstrap", "repair"},
            target : (SUBSET Files) \cup {NoTarget},  \* files its --target names
            force : BOOLEAN]

\* CREATE TABLE IF NOT EXISTS and the checks by name of 0002 and 0003 keep what
\* is there; CREATE OR REPLACE VIEW (0006) and MODIFY COLUMN (0007) replace it,
\* MODIFY only what is there; a bare ADD COLUMN works once.
Modes == {"ifMissing", "replace", "modify", "once"}

Schemas == [Objects -> Effects \cup {Absent}]
ObjectsOf(s) == {Object[s[i]] : i \in DOMAIN s}

ASSUME MigrationConstants ==
  /\ NoRunner \notin Runners
  /\ Files \subseteq Nat /\ Baseline \subseteq Files
  /\ Absent \notin Versions \cup Effects
  /\ Object \in [Effects -> Objects] /\ Mode \in [Effects -> Modes]
  /\ Found \subseteq Schemas
  /\ Up \in [Files -> [Versions -> Seq(Effects)]]
  /\ \A f \in Files, v \in Versions :
       Down[f][v] = NoDown \/ Down[f][v] \in Seq(Effects)
  /\ Commands \subseteq Command
  /\ OnDisk \in [Files -> Versions \cup {Absent}]
  /\ MaxStarts \in Nat /\ MaxEdits \in Nat /\ MaxLosses \in Nat

\* A migration takes out only objects that are its own.
ASSUME OwnObjects ==
  \A f, g \in Files, v, w \in Versions :
    f # g /\ Down[f][v] # NoDown => ObjectsOf(Down[f][v]) \cap ObjectsOf(Up[g][w]) = {}

VARIABLES
  disk,     \* version of each file of sql/migrations
  tracked,  \* helpdesk_schema_migrations: the checksum of each row
  schema,   \* the definition each object has in the database
  holder,   \* who has the advisory lock
  live,     \* runners whose connection is open
  pc, job,  \* next step and locals of each runner
  starts, edits, losses,
  via       \* history: how the row of each file came to be

db == <<tracked, schema, holder, via>>
vars == <<db, disk, live, pc, job, starts, edits, losses>>

WritingPCs == {"next", "run"}
EndPCs == {"ok", "failed", "refused"}
NoJob == [cmd |-> "none"]
Job == [cmd : Commands,
        seen : SUBSET Files,             \* files listed by status()
        todo : SUBSET Files,             \* selected, not finished
        file : Files \cup {0},           \* the one in hand,
        version : Versions \cup {Absent}, \* the content read for it,
        next : Nat \ {0}]                \* and its next statement

Lowest(S) == {f \in S : \A g \in S : f <= g}
Highest(S) == {f \in S : \A g \in S : g <= f}

\* What the statements of the file in hand do, in order.
Statements(j) == IF j.cmd.kind = "down" THEN Down[j.file][j.version]
                 ELSE IF j.cmd.kind = "bootstrap" THEN << >>
                 ELSE Up[j.file][j.version]

Unfinished(r) == pc[r] \in WritingPCs
Writing(r) == Unfinished(r) /\ r \in live

-----------------------------------------------------------------------------
Init ==
  /\ disk = OnDisk
  /\ tracked = [f \in Files |-> Absent]
  /\ schema \in Found
  /\ holder = NoRunner
  /\ live = {}
  /\ pc = [r \in Runners |-> "idle"]
  /\ job = [r \in Runners |-> NoJob]
  /\ starts = 0 /\ edits = 0 /\ losses = 0
  /\ via = [f \in Files |-> "none"]

Goto(r, label) == pc' = [pc EXCEPT ![r] = label]

LeaveSlip(r, label) ==
  /\ Goto(r, label)
  /\ holder' = IF holder = r /\ label = "ok" THEN NoRunner ELSE holder
  /\ live' = live \ {r}
  /\ job' = [job EXCEPT ![r] = NoJob]

\* The finally of main: RELEASE_LOCK, which fails quietly on a connection
\* that is gone, and conn.close().
Leave(r, label) ==
  /\ Goto(r, label)
  /\ holder' = IF holder = r THEN NoRunner ELSE holder
  /\ live' = live \ {r}
  /\ job' = [job EXCEPT ![r] = NoJob]

Startable(r) == pc[r] \in {"idle"} \cup EndPCs /\ starts < MaxStarts

\* GET_LOCK(..., 0) on a new connection
LockFreeSlip == TRUE
LockFree == holder = NoRunner

Acquire(r, c) ==
  /\ Startable(r) /\ LockFree
  /\ starts' = starts + 1
  /\ holder' = r
  /\ live' = live \cup {r}
  /\ Goto(r, "read")
  /\ job' = [job EXCEPT ![r] = [cmd |-> c, seen |-> {}, todo |-> {}, file |-> 0,
                                version |-> Absent, next |-> 1]]
  /\ UNCHANGED <<disk, tracked, schema, via, edits, losses>>

Refuse(r) ==
  /\ Startable(r) /\ ~LockFree
  /\ starts' = starts + 1
  /\ Goto(r, "refused")
  /\ UNCHANGED <<db, disk, live, job, edits, losses>>

\* status()
Pending == {f \in Files : disk[f] # Absent /\ tracked[f] = Absent}
Applied == {f \in Files : disk[f] # Absent /\ tracked[f] = disk[f]}
Drifted == {f \in Files : disk[f] # Absent /\ tracked[f] \notin {disk[f], Absent}}
Present == Pending \cup Applied \cup Drifted

Matching(c) == IF c.target = NoTarget THEN Files ELSE c.target

\* The one file down is about: the named one, or the last that is applied.
RollbackTarget(c) ==
  IF c.target = NoTarget THEN Highest(Applied) ELSE Lowest(c.target \cap Present)

MayRollBack(c, f) == f \in Applied /\ (f \in Baseline => c.force)

SelectedSlip(c) ==
  {f \in Present : \/ c.kind = "up" /\ f \in Pending \cap Matching(c)
                   \/ c.kind = "bootstrap" /\ f \in Matching(c)
                   \/ c.kind = "repair" /\ f \in Drifted \cap Matching(c)
                   \/ c.kind = "down" /\ f \in RollbackTarget(c) /\ MayRollBack(c, f)}

\* Files a command selects from the status it reads, and what stops it.
Selected(c) ==
  {f \in Present : \/ c.kind \in {"up", "bootstrap"} /\ f \in Pending \cap Matching(c)
                   \/ c.kind = "repair" /\ f \in Drifted \cap Matching(c)
                   \/ c.kind = "down" /\ f \in RollbackTarget(c) /\ MayRollBack(c, f)}

Aborts(c) ==
  \/ c.kind = "up" /\ Drifted # {}
  \/ c.kind = "down" /\ Selected(c) = {}
  \/ c.kind = "bootstrap" /\ Matching(c) \cap Present = {}

\* A statement the server has not answered because the connection is gone.
Disconnected(r) ==
  /\ pc[r] \in {"read", "run"} /\ r \notin live
  /\ Leave(r, "failed")
  /\ UNCHANGED <<disk, tracked, schema, via, starts, edits, losses>>

ReadStatus(r) ==
  /\ pc[r] = "read" /\ r \in live
  /\ \/ /\ Aborts(job[r].cmd)
        /\ Leave(r, "failed")
     \/ /\ ~Aborts(job[r].cmd)
        /\ job' = [job EXCEPT ![r].seen = Present, ![r].todo = Selected(job[r].cmd)]
        /\ Goto(r, "next")
        /\ UNCHANGED <<holder, live>>
  /\ UNCHANGED <<disk, tracked, schema, via, starts, edits, losses>>

InTurnSlip(j) == j.todo

\* up and repair go by number, bootstrap in the order of its arguments.
InTurn(j) == IF j.cmd.kind = "bootstrap" THEN j.todo ELSE Lowest(j.todo)

UnusableSlip(j, f) ==
  disk[f] # Absent /\ j.cmd.kind = "down" /\ Down[f][disk[f]] = NoDown

\* The file is gone since, or it has nothing to roll back.
Unusable(j, f) ==
  \/ disk[f] = Absent
  \/ disk[f] # Absent /\ j.cmd.kind = "down" /\ Down[f][disk[f]] = NoDown

\* parse_migration_file: the file is read again before it is used.
Open(r) ==
  /\ pc[r] = "next"
  /\ \E f \in InTurn(job[r]) :
       \/ /\ Unusable(job[r], f)
          /\ Leave(r, "failed")
       \/ /\ ~Unusable(job[r], f)
          /\ job' = [job EXCEPT ![r].file = f, ![r].version = disk[f], ![r].next = 1]
          /\ Goto(r, "run")
          /\ UNCHANGED <<holder, live>>
  /\ UNCHANGED <<disk, tracked, schema, via, starts, edits, losses>>

Finish(r) ==
  /\ pc[r] = "next" /\ job[r].todo = {}
  /\ Leave(r, "ok")
  /\ UNCHANGED <<disk, tracked, schema, via, starts, edits, losses>>

OnSessionSlip(r) == TRUE
\* A statement executed while the session of the runner is alive.
OnSession(r) == r \in live

There(effect) == schema[Object[effect]] # Absent

ClashesSlip(effect, down) == There(effect) = ~down
\* The statement is an error: the column to ADD is there, the one to DROP or to
\* MODIFY is not.
Clashes(effect, down) ==
  \/ Mode[effect] = "once" /\ There(effect) = ~down
  \/ Mode[effect] = "modify" /\ ~There(effect)

\* The definition its object has after a statement: IF NOT EXISTS over an older
\* one succeeds and leaves that.
Result(effect, down) ==
  IF down THEN Absent
  ELSE IF Mode[effect] = "ifMissing" /\ There(effect) THEN schema[Object[effect]]
  ELSE effect

Execute(r) ==
  LET j == job[r]
      effect == Statements(j)[j.next]
      down == j.cmd.kind = "down"
  IN /\ pc[r] = "run" /\ OnSession(r)
     /\ j.next \in DOMAIN Statements(j)
     /\ \/ /\ ~Clashes(effect, down)
           /\ schema' = [schema EXCEPT ![Object[effect]] = Result(effect, down)]
           /\ via' = [via EXCEPT ![j.file] =
                        IF down THEN "undoing" ELSE IF @ = "run" THEN "redoing" ELSE @]
           /\ job' = [job EXCEPT ![r].next = @ + 1]
           /\ UNCHANGED <<holder, live, pc>>
        \/ /\ Clashes(effect, down)
           /\ Leave(r, "failed")
           /\ UNCHANGED <<schema, via>>
  /\ UNCHANGED <<disk, tracked, starts, edits, losses>>

\* The checksum is of the very text the statements were taken from.
RecordedSlip(j) == disk[j.file]
Recorded(j) == j.version

\* INSERT, which the unique key of the name refuses, DELETE or UPDATE.
Record(r) ==
  LET j == job[r]
      f == j.file
      inserts == j.cmd.kind \in {"up", "bootstrap"}
      row == IF j.cmd.kind = "down" THEN Absent
             ELSE IF ~inserts /\ tracked[f] = Absent THEN Absent ELSE Recorded(j)
      how == IF j.cmd.kind = "down" THEN "none"
             ELSE IF j.cmd.kind = "bootstrap" THEN "assumed" ELSE "run"
  IN /\ pc[r] = "run" /\ OnSession(r)
     /\ j.next \notin DOMAIN Statements(j)
     /\ \/ /\ inserts => tracked[f] = Absent
           /\ tracked' = [tracked EXCEPT ![f] = row]
           /\ via' = [via EXCEPT ![f] = how]
           /\ job' = [job EXCEPT ![r].todo = @ \ {f}]
           /\ Goto(r, "next")
           /\ UNCHANGED <<holder, live>>
        \/ /\ inserts /\ tracked[f] # Absent
           /\ Leave(r, "failed")
           /\ UNCHANGED <<tracked, via>>
     /\ UNCHANGED <<disk, schema, starts, edits, losses>>

\* The server drops a session: its lock is free, its client does not know.
Lose(r) ==
  /\ r \in live /\ losses < MaxLosses
  /\ live' = live \ {r}
  /\ holder' = IF holder = r THEN NoRunner ELSE holder
  /\ losses' = losses + 1
  /\ UNCHANGED <<disk, tracked, schema, via, pc, job, starts, edits>>

\* A statement the server refuses for a reason of its own.
Reject(r) ==
  /\ Writing(r) /\ pc[r] # "next" /\ losses < MaxLosses
  /\ losses' = losses + 1
  /\ Leave(r, "failed")
  /\ UNCHANGED <<disk, tracked, schema, via, starts, edits>>

Edit(f, v) ==
  /\ edits < MaxEdits /\ disk[f] # v
  /\ disk' = [disk EXCEPT ![f] = v]
  /\ edits' = edits + 1
  /\ UNCHANGED <<db, live, pc, job, starts, losses>>

\* A file goes, between two reads of a command at worst.
Delete(f) ==
  /\ losses < MaxLosses /\ disk[f] # Absent
  /\ disk' = [disk EXCEPT ![f] = Absent]
  /\ losses' = losses + 1
  /\ UNCHANGED <<db, live, pc, job, starts, edits>>

Progress(r) ==
  \/ Disconnected(r) \/ ReadStatus(r) \/ Open(r) \/ Finish(r)
  \/ Execute(r) \/ Record(r)

Next ==
  \/ \E r \in Runners : \/ \E c \in Commands : Acquire(r, c)
                        \/ Refuse(r) \/ Progress(r) \/ Lose(r) \/ Reject(r)
  \/ \E f \in Files : Delete(f) \/ \E v \in Versions : Edit(f, v)

\* A process goes on until it ends, as does a statement the server has begun;
\* nobody need start one.
Fairness == \A r \in Runners : WF_vars(Progress(r))

Spec == Init /\ [][Next]_vars /\ Fairness

-----------------------------------------------------------------------------
TypeOK ==
  /\ disk \in [Files -> Versions \cup {Absent}]
  /\ tracked \in [Files -> Versions \cup {Absent}]
  /\ schema \in Schemas
  /\ holder \in Runners \cup {NoRunner}
  /\ live \subseteq Runners
  /\ pc \in [Runners -> {"idle", "read"} \cup WritingPCs \cup EndPCs]
  /\ job \in [Runners -> Job \cup {NoJob}]
  /\ \A r \in Runners : pc[r] \notin {"idle"} \cup EndPCs => job[r] \in Job
  /\ \A r \in Runners : pc[r] = "run" => job[r].version \in Versions
  /\ starts \in 0 .. MaxStarts /\ edits \in 0 .. MaxEdits /\ losses \in 0 .. MaxLosses
  /\ via \in [Files -> {"none", "run", "assumed", "undoing", "redoing"}]

(* No two runners can change the database, whatever connections the server *)
(* drops: a runner whose lock was freed with its connection is not able to *)
(* write any more (acquire_lock, migrate.py:150).                          *)
OneWriter == \A r, s \in Runners : Writing(r) /\ Writing(s) => r = s

(* What a runner decided on the status it read still holds when it writes: *)
(* the files it is going to insert have no row, so the INSERT cannot clash *)
(* and no statement runs twice; the files it repairs or rolls back have    *)
(* one (status, migrate.py:196, against apply_migration, :264).            *)
SnapshotIsCurrent ==
  \A r \in Runners : Writing(r) =>
    \A f \in job[r].todo :
      tracked[f] = Absent <=> job[r].cmd.kind \in {"up", "bootstrap"}

\* The statement imposes its definition and no other, of another file or of this
\* version, is about the same object.
Imposes(f, v, effect) ==
  /\ Mode[effect] # "ifMissing"
  /\ \A g \in Files, w \in Versions : \A i \in DOMAIN Up[g][w] :
       Object[Up[g][w][i]] = Object[effect] => \/ Up[g][w][i] = effect
                                               \/ g = f /\ w # v

(* A row written by up or repair means that every object which the version *)
(* with its checksum defines is in the schema: in that very definition if  *)
(* the statement imposes it and no other is about the object, in that or   *)
(* an older one if the statement is IF NOT EXISTS, which a repair of an    *)
(* edited file executes without effect and records all the same.  So it is *)
(* although processes die between two statements, files are edited between *)
(* the status and the execution and runners follow each other, until a     *)
(* rollback of the file executes its first statement; the definitions,     *)
(* until a repair does (apply_migration, migrate.py:233; repair, :364).    *)
TrackedMeansApplied ==
  \A f \in Files : via[f] \in {"run", "redoing"} =>
    /\ tracked[f] # Absent
    /\ \A i \in DOMAIN Up[f][tracked[f]] :
         LET effect == Up[f][tracked[f]][i]
         IN /\ There(effect)
            /\ via[f] = "run" /\ Imposes(f, tracked[f], effect) =>
                 schema[Object[effect]] = effect

(* An up without a target builds a migration only on all the lower ones it *)
(* saw: none is skipped after a failure (main, migrate.py:548).            *)
FullUpInOrder ==
  \A r \in Runners :
    Writing(r) /\ job[r].cmd.kind = "up" /\ job[r].cmd.target = NoTarget =>
      \A g \in job[r].seen :
        \/ g \notin job[r].todo
        \/ pc[r] = "run" /\ g < job[r].file
        => tracked[g] # Absent

(* The lock does not outlive its holder, whichever way the command ends    *)
(* (release_lock in the finally of main, migrate.py:606).                  *)
LockIsFreed == \A r \in Runners : holder = r ~> holder # r

(* An up whose files can be re-executed goes through, whatever earlier     *)
(* runs that died half way have left in the schema, unless a fault hits it *)
(* or another runner meanwhile, or a file is deleted (rule 4 of            *)
(* sql/migrations/README.md).                                              *)
Rerunnable(f) == \A v \in Versions : \A i \in DOMAIN Up[f][v] :
                   Mode[Up[f][v][i]] \in {"ifMissing", "replace"}
UpCompletes ==
  \A r \in Runners, n \in 0 .. MaxLosses :
    /\ pc[r] = "next" /\ r \in live /\ losses = n
    /\ job[r].cmd.kind = "up"
    /\ \A f \in job[r].todo : Rerunnable(f) /\ disk[f] # Absent
    ~> pc[r] = "ok" \/ losses > n
=============================================================================
