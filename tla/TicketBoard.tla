---------------------------- MODULE TicketBoard ----------------------------
(***************************************************************************)
(* The promise of the ticket handlers, without requests, statements, logs  *)
(* or faults: a board of tickets that users open, move and hand over, each *)
(* step allowed by the rules of TicketRules.                               *)
(*                                                                         *)
(* AtomicSpec is what one would like: a step is allowed by the ticket as   *)
(* it is.  StaleSpec is what handlers that read, decide and write later    *)
(* can promise: a step is allowed by the ticket as it was at some time.    *)
(* It is still no licence to do anything: nobody writes a status he was    *)
(* never entitled to write, a ticket opens with somebody routing may name, *)
(* and no hand-over takes it out of its department.                        *)
(***************************************************************************)
EXTENDS TicketRules

CONSTANTS Ids, Seeds, Row

VARIABLES ticket, \* [open tickets -> Row]
          past    \* [Ids -> the rows a ticket has had]

board == <<ticket, past>>

Init == /\ ticket = Seeds
        /\ past = [t \in Ids |-> IF t \in DOMAIN Seeds THEN {Seeds[t]} ELSE {}]

Put(t, row) ==
  /\ ticket' = [s \in DOMAIN ticket \cup {t} |-> IF s = t THEN row ELSE ticket[s]]
  /\ past' = [past EXCEPT ![t] = @ \cup {row}]

\* A submission that is not on the board yet opens a pending ticket.
Open(t, row) ==
  /\ row.status = "PENDING"
  /\ row.assignee \in Candidates(row.category)
  /\ \A s \in DOMAIN ticket : ticket[s].key # row.key
  /\ Put(t, row)

\* seen is the row the step was decided on.
Move(t, u, seen, to) ==
  /\ MayUpdate(u, seen, to)
  /\ Put(t, [ticket[t] EXCEPT !.status = to])

HandOver(t, m, seen, dst) ==
  /\ MayReassign(m, seen.assignee, dst)
  /\ Reassignable(m, seen.assignee, seen)
  /\ AssigneeFits(dst, ticket[t].category)
  /\ Put(t, [ticket[t] EXCEPT !.assignee = dst])

Opening == \E t \in (Ids \cap DOMAIN ticket') \ DOMAIN ticket :
             ticket'[t] \in Row /\ Open(t, ticket'[t])

\* A step on an open ticket, decided on one of the given rows.
Step(t, seen) ==
  \E u \in Users : \/ \E to \in Statuses : Move(t, u, seen, to)
                   \/ \E dst \in Users : HandOver(t, u, seen, dst)

AtomicNext == (\E t \in DOMAIN ticket : Step(t, ticket[t])) \/ Opening
StaleNext == (\E t \in DOMAIN ticket : \E seen \in past[t] : Step(t, seen)) \/ Opening

AtomicSpec == Init /\ [][AtomicNext]_board
StaleSpec == Init /\ [][StaleNext]_board
=============================================================================
