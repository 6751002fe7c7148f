------------------------- MODULE ConnectionLending -------------------------
(***************************************************************************)
(* The promise of the pool, without queue, counters, waits or the sweeper: *)
(* connections are lent one at a time, and only whoever has a connection   *)
(* opens it, closes it or gives it back.  Nobody takes another one while   *)
(* he has a usable one, and nobody forgets one that is usable.             *)
(***************************************************************************)
CONSTANTS Borrowers, Conns

VARIABLES free,   \* connections nobody has borrowed
          lent,   \* [Borrowers -> the connections each has]
          usable  \* connections with an open socket

lending == <<free, lent, usable>>

Init == free = {} /\ lent = [b \in Borrowers |-> {}] /\ usable = {}

InNeed(b) == lent[b] \cap usable = {}
Unknown == Conns \ (free \cup UNION {lent[b] : b \in Borrowers})

Borrow(b, c) ==
  /\ c \in free /\ InNeed(b)
  /\ free' = free \ {c} /\ lent' = [lent EXCEPT ![b] = @ \cup {c}]
  /\ UNCHANGED usable

\* He makes one himself.
Connect(b, c) ==
  /\ c \in Unknown /\ InNeed(b)
  /\ lent' = [lent EXCEPT ![b] = @ \cup {c}] /\ usable' = usable \cup {c}
  /\ UNCHANGED free

\* What he has is opened again, or breaks.
Reopen(b, c) ==
  /\ c \in lent[b] /\ InNeed(b) /\ usable' = usable \cup {c}
  /\ UNCHANGED <<free, lent>>

Break(b, c) ==
  /\ c \in lent[b] /\ usable' = usable \ {c}
  /\ UNCHANGED <<free, lent>>

\* He gives it back, or closes it and forgets it.
Return(b, c) ==
  /\ lent[b] = {c}
  /\ free' = free \cup {c} /\ lent' = [lent EXCEPT ![b] = {}]
  /\ UNCHANGED usable

Discard(b, c) ==
  /\ c \in lent[b]
  /\ lent' = [lent EXCEPT ![b] = @ \ {c}] /\ usable' = usable \ {c}
  /\ UNCHANGED free

\* One that nobody has is closed for its age.
Retire(c) ==
  /\ c \in free /\ free' = free \ {c} /\ usable' = usable \ {c}
  /\ UNCHANGED lent

Next ==
  \E c \in Conns :
    \/ Retire(c)
    \/ \E b \in Borrowers : \/ Borrow(b, c) \/ Connect(b, c) \/ Reopen(b, c)
                            \/ Break(b, c) \/ Return(b, c) \/ Discard(b, c)

Spec == Init /\ [][Next]_lending
=============================================================================
