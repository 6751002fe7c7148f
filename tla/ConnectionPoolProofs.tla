------------------------ MODULE ConnectionPoolProofs ------------------------
(***************************************************************************)
(* Proofs about ConnectionPool, for every number of checkouts, nested in   *)
(* any way, every pool size and every number of lost connections.          *)
(*                                                                         *)
(* The invariant says of every step of a checkout which references it has  *)
(* (CheckoutOK).  That a connection is in one hand only, and that none is  *)
(* forgotten while it is open, are inductive only together with it.  The   *)
(* counters need one more fact each (CountersOK): a replacement under way  *)
(* will raise in_use once more, which the loss it comes from pays for.     *)
(* From both follows when the gauge is right and how many sockets are      *)
(* open.  The refinement of ConnectionLending has a lemma for each action  *)
(* that changes whose a connection is; the last section says why a         *)
(* checkout comes to its end.                                              *)
(***************************************************************************)
EXTENDS ConnectionPool, SequenceTheorems, FiniteSetTheorems, TLAPS

Handling == {"hold", "decrement", "giveBack"}

\* got is set between the queue and the counter, conn in a handler's wrapper.  A
\* wrapper whose connection is being replaced still has the one that was closed.
CheckoutOK(k) ==
  /\ (got[k] # NoConn) <=> \/ pc[k] \in {"ping", "count"}
                           \/ pc[k] = "leaveWait" /\ ~is_unpooled[k]
  /\ (conn[k] # NoConn) <=> (pc[k] \in Handling \/ replacing[k])
  /\ replacing[k] => pc[k] \in AcquirePCs /\ conn[k] \notin open
  /\ pc[k] \in {"tryGet", "readInUse", "enterWait", "wait"} => ~is_unpooled[k]

CheckoutsOK == \A k \in Checkouts : CheckoutOK(k)

\* A connection is in the queue, with the sweeper or with a checkout.
InQueue == Elements(pool)
InSweep == Elements(surviving)

IInv == TypeOK /\ CheckoutsOK /\ ExclusiveConnection /\ NoneForgotten /\ HandedOutOpen

-----------------------------------------------------------------------------
(* Sequences without repetitions *)

LEMMA HeadAndTail ==
  ASSUME NEW S, NEW s \in Seq(S), s # << >>
  PROVE  /\ Head(s) \in S /\ Tail(s) \in Seq(S)
         /\ Elements(s) = {Head(s)} \cup Elements(Tail(s))
         /\ Distinct(s) => Distinct(Tail(s)) /\ Head(s) \notin Elements(Tail(s))
<1>1. Head(s) \in S /\ Tail(s) \in Seq(S) /\ Len(s) \in Nat \ {0}
  OBVIOUS
<1>2. /\ DOMAIN s = 1 .. Len(s) /\ DOMAIN Tail(s) = 1 .. Len(s) - 1
      /\ Head(s) = s[1] /\ \A i \in DOMAIN Tail(s) : Tail(s)[i] = s[i + 1]
  BY HeadTailProperties, LenProperties
<1>3. \A i \in DOMAIN s : i = 1 \/ (i - 1 \in DOMAIN Tail(s) /\ s[i] = Tail(s)[i - 1])
  BY <1>1, <1>2
<1>4. Elements(s) = {Head(s)} \cup Elements(Tail(s))
  BY <1>2, <1>3 DEF Elements
<1>5. ASSUME Distinct(s)
      PROVE  Distinct(Tail(s)) /\ Head(s) \notin Elements(Tail(s))
  <2>1. DOMAIN Tail(s) \subseteq Nat \ {0}
    BY <1>1
  <2> QED BY <1>2, <1>5, <2>1 DEF Distinct, Elements
<1> QED BY <1>1, <1>4, <1>5

LEMMA AppendElement ==
  ASSUME NEW S, NEW s \in Seq(S), NEW e \in S
  PROVE  /\ Append(s, e) \in Seq(S)
         /\ Elements(Append(s, e)) = Elements(s) \cup {e}
         /\ Distinct(s) /\ e \notin Elements(s) => Distinct(Append(s, e))
<1>1. /\ Append(s, e) \in Seq(S) /\ DOMAIN Append(s, e) = DOMAIN s \cup {Len(s) + 1}
      /\ Append(s, e)[Len(s) + 1] = e /\ Len(s) + 1 \notin DOMAIN s
      /\ \A i \in DOMAIN s : Append(s, e)[i] = s[i]
  OBVIOUS
<1> QED BY <1>1 DEF Elements, Distinct

LEMMA ElementsIn ==
  ASSUME NEW S, NEW s \in Seq(S)
  PROVE  Elements(s) \subseteq S
BY DEF Elements

LEMMA NothingIn == Elements(<< >>) = {} /\ Distinct(<< >>)
BY DEF Elements, Distinct

-----------------------------------------------------------------------------
(* What holds at the start, and steps that move no connection *)

LEMMA InitIInv == ASSUME Init PROVE IInv
<1>1. TypeOK
  BY PoolConstants DEF Init, TypeOK, PCs
<1>2. CheckoutsOK
  BY DEF Init, CheckoutsOK, CheckoutOK, Handling
<1>3. ExclusiveConnection
  BY NothingIn DEF Init, ExclusiveConnection, Mine
<1>4. NoneForgotten /\ HandedOutOpen
  BY DEF Init, NoneForgotten, HandedOutOpen
<1> QED BY <1>1, <1>2, <1>3, <1>4 DEF IInv

\* What a checkout owns is settled by these variables.
holdings == <<pool, surviving, open, got, conn>>

LEMMA SameHoldings ==
  ASSUME IInv, UNCHANGED holdings
  PROVE  ExclusiveConnection' /\ NoneForgotten'
BY DEF IInv, holdings, ExclusiveConnection, NoneForgotten, Referenced, Mine

\* Only checkout k moves on.
OnlyMoves(k) == /\ \A q \in Checkouts : q # k => pc'[q] = pc[q]
                /\ pc'[k] # "count"

LEMMA QuietStep ==
  ASSUME IInv, UNCHANGED holdings, NEW k \in Checkouts, OnlyMoves(k),
         TypeOK', CheckoutsOK'
  PROVE  IInv'
BY SameHoldings DEF IInv, OnlyMoves, HandedOutOpen, holdings

LEMMA BeginKeeps ==
  ASSUME IInv, NEW k \in Checkouts, Begin(k)
  PROVE  IInv'
<1>1. got' = got
  BY DEF Begin, IInv, TypeOK, CheckoutsOK, CheckoutOK
<1>2. TypeOK'
  BY DEF Begin, IInv, TypeOK, Goto, PCs, AcquirePCs, queue, counters, wrapper
<1>3. CheckoutsOK'
  BY <1>1 DEF Begin, IInv, TypeOK, Goto, CheckoutsOK, CheckoutOK, Handling, AcquirePCs,
              wrapper
<1>4. OnlyMoves(k) /\ UNCHANGED holdings
  BY <1>1 DEF Begin, Goto, OnlyMoves, holdings, queue, wrapper, IInv, TypeOK
<1> QED BY <1>2, <1>3, <1>4, QuietStep

LEMMA WaitingKeeps ==
  ASSUME IInv, NEW k \in Checkouts,
         ReadInUse(k) \/ EnterWait(k) \/ WaitTimeout(k) \/ LeaveWait(k)
  PROVE  IInv'
<1>1. TypeOK'
  <2>1. CASE ReadInUse(k)
    BY <2>1 DEF ReadInUse, IInv, TypeOK, Goto, PCs, AcquirePCs, queue, counters, wrapper
  <2>2. CASE EnterWait(k)
    BY <2>2 DEF EnterWait, IInv, TypeOK, Goto, PCs, AcquirePCs, queue, wrapper
  <2>3. CASE WaitTimeout(k)
    BY <2>3 DEF WaitTimeout, IInv, TypeOK, Goto, PCs, AcquirePCs, queue, counters, wrapper
  <2>4. CASE LeaveWait(k)
    <3>1. waiters' \in Nat
      BY <2>4 DEF LeaveWait, IInv, TypeOK
    <3>2. pc' \in [Checkouts -> PCs]
      BY <2>4 DEF LeaveWait, IInv, TypeOK, Goto, PCs, AcquirePCs
    <3> QED BY <2>4, <3>1, <3>2 DEF LeaveWait, IInv, TypeOK, queue, wrapper
  <2> QED BY <2>1, <2>2, <2>3, <2>4
<1>2. CheckoutsOK'
  BY DEF ReadInUse, EnterWait, WaitTimeout, LeaveWait, IInv, TypeOK, Goto,
         CheckoutsOK, CheckoutOK, Handling, AcquirePCs, wrapper
<1>3. OnlyMoves(k) /\ UNCHANGED holdings
  BY DEF ReadInUse, EnterWait, WaitTimeout, LeaveWait, Goto, OnlyMoves, holdings,
         queue, wrapper, IInv, TypeOK
<1> QED BY <1>1, <1>2, <1>3, QuietStep

LEMMA LeavingKeeps ==
  ASSUME IInv, NEW k \in Checkouts, Leave(k) \/ Decrement(k)
  PROVE  IInv'
<1>1. TypeOK'
  BY DEF Leave, Decrement, IInv, TypeOK, Goto, PCs, queue, counters, wrapper
<1>2. CheckoutsOK'
  BY DEF Leave, Decrement, IInv, TypeOK, Goto, CheckoutsOK, CheckoutOK, Handling,
         AcquirePCs, wrapper
<1>3. OnlyMoves(k) /\ UNCHANGED holdings
  BY DEF Leave, Decrement, Goto, OnlyMoves, holdings, queue, wrapper, IInv, TypeOK
<1> QED BY <1>1, <1>2, <1>3, QuietStep

-----------------------------------------------------------------------------
(* Steps of a checkout that move a connection *)

\* The head of the queue leaves it for a checkout that has nothing yet.
LEMMA TakeHeadKeeps ==
  ASSUME IInv, NEW k \in Checkouts, TakeHead(k), got[k] = NoConn,
         NEW label \in {"ping", "leaveWait"}, Goto(k, label), ~is_unpooled[k],
         ~(conn[k] # NoConn) \/ replacing[k],
         UNCHANGED <<is_unpooled, counters, open, wrapper, losses>>
  PROVE  IInv'
<1> DEFINE c == Head(pool)
<1>1. /\ c \in Conns /\ Tail(pool) \in Seq(Conns)
      /\ InQueue = {c} \cup InQueue' /\ c \notin InQueue' /\ Distinct(pool)'
  BY HeadAndTail DEF TakeHead, IInv, TypeOK, ExclusiveConnection, InQueue
<1>2. /\ got'[k] = c /\ \A q \in Checkouts : q # k => got'[q] = got[q]
      /\ conn' = conn /\ surviving' = surviving /\ open' = open /\ c # NoConn
  BY <1>1, PoolConstants DEF TakeHead, wrapper, IInv, TypeOK
<1>3. TypeOK'
  BY <1>1 DEF TakeHead, IInv, TypeOK, Goto, PCs, AcquirePCs, counters, wrapper
<1>4. CheckoutsOK'
  <2>1. /\ pc'[k] = label /\ \A q \in Checkouts : q # k => pc'[q] = pc[q]
        /\ is_unpooled' = is_unpooled /\ replacing' = replacing
    BY DEF IInv, TypeOK, Goto, wrapper
  <2>2. CheckoutOK(k)'
    BY <1>2, <2>1 DEF IInv, CheckoutsOK, CheckoutOK, Handling, AcquirePCs
  <2>3. ASSUME NEW q \in Checkouts, q # k PROVE CheckoutOK(q)'
    BY <1>2, <2>1, <2>3 DEF IInv, CheckoutsOK, CheckoutOK
  <2> QED BY <2>2, <2>3 DEF CheckoutsOK
<1>5. ExclusiveConnection'
  <2>1. InSweep' = InSweep /\ InQueue' \cap InSweep' = {}
    BY <1>1, <1>2 DEF IInv, ExclusiveConnection, InQueue, InSweep
  <2>2. c \notin InSweep /\ \A q \in Checkouts : c \notin Mine(q)
    BY <1>1 DEF IInv, ExclusiveConnection, InQueue, InSweep
  <2>3. Mine(k)' \subseteq Mine(k) \cup {c} /\ \A q \in Checkouts \ {k} : Mine(q)' = Mine(q)
    BY <1>2 DEF Mine
  <2>4. ASSUME NEW q \in Checkouts
        PROVE  Mine(q)' \cap (InQueue' \cup InSweep') = {}
    BY <1>1, <2>1, <2>2, <2>3 DEF IInv, ExclusiveConnection, InQueue, InSweep
  <2>5. ASSUME NEW q \in Checkouts PROVE got'[q] = conn'[q] => got'[q] = NoConn
    BY <1>2, <2>2 DEF IInv, ExclusiveConnection, Mine
  <2>6. ASSUME NEW p \in Checkouts, NEW q \in Checkouts, p # q
        PROVE  Mine(p)' \cap Mine(q)' = {}
    BY <2>2, <2>3, <2>6 DEF IInv, ExclusiveConnection
  <2> QED BY <1>1, <1>2, <2>1, <2>4, <2>5, <2>6
          DEF IInv, ExclusiveConnection, InQueue, InSweep
<1>6. NoneForgotten'
  BY <1>1, <1>2 DEF IInv, NoneForgotten, Referenced, Mine, InQueue
<1>7. HandedOutOpen'
  BY <1>2 DEF IInv, TypeOK, Goto, HandedOutOpen
<1> QED BY <1>3, <1>4, <1>5, <1>6, <1>7 DEF IInv

LEMMA TryGetKeeps ==
  ASSUME IInv, NEW k \in Checkouts, TryGet(k)
  PROVE  IInv'
<1>1. /\ got[k] = NoConn /\ ~is_unpooled[k]
      /\ ~(conn[k] # NoConn) \/ replacing[k]
  BY DEF TryGet, IInv, CheckoutsOK, CheckoutOK, Handling
<1>2. CASE TakeHead(k) /\ Goto(k, "ping")
  BY <1>1, <1>2, TakeHeadKeeps DEF TryGet
<1>3. CASE Goto(k, "readInUse") /\ UNCHANGED <<queue, got>>
  <2>1. TypeOK'
    BY <1>3 DEF TryGet, IInv, TypeOK, Goto, PCs, AcquirePCs, queue, counters, wrapper
  <2>2. CheckoutsOK'
    BY <1>3 DEF TryGet, IInv, TypeOK, Goto, CheckoutsOK, CheckoutOK, Handling,
                AcquirePCs, wrapper
  <2>3. OnlyMoves(k) /\ UNCHANGED holdings
    BY <1>3 DEF TryGet, Goto, OnlyMoves, holdings, queue, wrapper, IInv, TypeOK
  <2> QED BY <2>1, <2>2, <2>3, QuietStep
<1> QED BY <1>2, <1>3 DEF TryGet

LEMMA WaitGetKeeps ==
  ASSUME IInv, NEW k \in Checkouts, WaitGet(k)
  PROVE  IInv'
<1>1. /\ got[k] = NoConn /\ ~is_unpooled[k]
      /\ ~(conn[k] # NoConn) \/ replacing[k]
  BY DEF WaitGet, IInv, CheckoutsOK, CheckoutOK, Handling
<1> QED BY <1>1, TakeHeadKeeps DEF WaitGet

LEMMA PingKeeps ==
  ASSUME IInv, NEW k \in Checkouts, Ping(k)
  PROVE  IInv'
<1>1. got[k] \in Conns /\ pc[k] = "ping"
  BY DEF Ping, IInv, TypeOK, CheckoutsOK, CheckoutOK
<1>2. /\ pool' = pool /\ surviving' = surviving /\ conn' = conn
      /\ replacing' = replacing /\ is_unpooled' = is_unpooled
      /\ \A q \in Checkouts : q # k => pc'[q] = pc[q] /\ got'[q] = got[q]
      /\ \/ open' = open \cup {got[k]} /\ pc'[k] = "count" /\ got' = got
         \/ open' = open \ {got[k]} /\ pc'[k] = "create" /\ got'[k] = NoConn
  BY DEF Ping, Goto, queue, wrapper, IInv, TypeOK
<1>3. \A q \in Checkouts : conn[q] = got[k] => FALSE
  BY <1>1, PoolConstants DEF IInv, ExclusiveConnection, Mine
<1>4. TypeOK'
  BY <1>1 DEF Ping, IInv, TypeOK, Goto, PCs, AcquirePCs, queue, counters, wrapper
<1>5. CheckoutsOK'
  BY <1>1, <1>2, <1>3, PoolConstants
     DEF IInv, TypeOK, CheckoutsOK, CheckoutOK, Handling, AcquirePCs
<1>6. ExclusiveConnection'
  BY <1>2 DEF IInv, ExclusiveConnection, Mine
<1>7. NoneForgotten'
  BY <1>1, <1>2, PoolConstants DEF IInv, NoneForgotten, Referenced, Mine
<1>8. HandedOutOpen'
  BY <1>1, <1>2, PoolConstants DEF IInv, HandedOutOpen, ExclusiveConnection, Mine
<1> QED BY <1>4, <1>5, <1>6, <1>7, <1>8 DEF IInv

LEMMA CreateKeeps ==
  ASSUME IInv, NEW k \in Checkouts, Create(k)
  PROVE  IInv'
<1>1. got[k] = NoConn /\ pc[k] = "create" /\ conn' = conn
  BY DEF Create, IInv, TypeOK, CheckoutsOK, CheckoutOK
<1>2. CASE \E c \in Conns \ Referenced : /\ open' = open \cup {c}
                                         /\ got' = [got EXCEPT ![k] = c]
                                         /\ Goto(k, "count")
                                         /\ UNCHANGED replacing
  <2>1. PICK c \in Conns \ Referenced : /\ open' = open \cup {c}
                                        /\ got' = [got EXCEPT ![k] = c]
                                        /\ Goto(k, "count")
                                        /\ UNCHANGED replacing
    BY <1>2
  <2>2. /\ c # NoConn /\ c \notin Elements(pool) /\ c \notin Elements(surviving)
        /\ \A q \in Checkouts : c # got[q] /\ c # conn[q]
    BY PoolConstants DEF Referenced, Mine
  <2>3. /\ pool' = pool /\ surviving' = surviving /\ is_unpooled' = is_unpooled
        /\ replacing' = replacing
        /\ got'[k] = c /\ \A q \in Checkouts : q # k => got'[q] = got[q]
        /\ pc'[k] = "count" /\ \A q \in Checkouts : q # k => pc'[q] = pc[q]
    BY <2>1 DEF Create, Goto, IInv, TypeOK, queue
  <2>4. TypeOK'
    BY <2>1 DEF Create, IInv, TypeOK, Goto, PCs, AcquirePCs, queue, counters
  <2>5. CheckoutsOK'
    BY <1>1, <2>1, <2>2, <2>3
       DEF IInv, CheckoutsOK, CheckoutOK, Handling, AcquirePCs
  <2>6. ExclusiveConnection'
    BY <1>1, <2>2, <2>3 DEF IInv, ExclusiveConnection, Mine
  <2>7. NoneForgotten'
    BY <1>1, <2>1, <2>2, <2>3 DEF IInv, NoneForgotten, Referenced, Mine
  <2>8. HandedOutOpen'
    BY <2>1, <2>3 DEF IInv, HandedOutOpen
  <2> QED BY <2>4, <2>5, <2>6, <2>7, <2>8 DEF IInv
<1>3. CASE /\ Goto(k, IF replacing[k] THEN "hold" ELSE "idle")
           /\ replacing' = [replacing EXCEPT ![k] = FALSE]
           /\ UNCHANGED <<open, got>>
  <2>1. /\ pc'[k] = IF replacing[k] THEN "hold" ELSE "idle"
        /\ \A q \in Checkouts : q # k => pc'[q] = pc[q] /\ replacing'[q] = replacing[q]
        /\ replacing'[k] = FALSE /\ open' = open /\ got' = got
        /\ is_unpooled' = is_unpooled
    BY <1>3 DEF Create, Goto, IInv, TypeOK
  <2>2. TypeOK'
    <3>1. pc' \in [Checkouts -> PCs]
      BY <1>3 DEF IInv, TypeOK, Goto, PCs
    <3> QED BY <1>3, <3>1 DEF Create, IInv, TypeOK, queue, counters
  <2>3. CheckoutsOK'
    BY <1>1, <2>1 DEF IInv, CheckoutsOK, CheckoutOK, Handling, AcquirePCs
  <2>4. OnlyMoves(k) /\ UNCHANGED holdings
    BY <1>1, <2>1 DEF Create, OnlyMoves, holdings, queue
  <2> QED BY <2>2, <2>3, <2>4, QuietStep
<1> QED BY <1>2, <1>3 DEF Create

LEMMA CountKeeps ==
  ASSUME IInv, NEW k \in Checkouts, Count(k)
  PROVE  IInv'
<1>1. got[k] \in Conns /\ got[k] # NoConn /\ pc[k] = "count"
  BY DEF Count, IInv, TypeOK, CheckoutsOK, CheckoutOK
<1>2. /\ pool' = pool /\ surviving' = surviving /\ open' = open
      /\ is_unpooled' = is_unpooled
      /\ conn'[k] = got[k] /\ got'[k] = NoConn /\ replacing'[k] = FALSE /\ pc'[k] = "hold"
      /\ \A q \in Checkouts : q # k => /\ conn'[q] = conn[q] /\ got'[q] = got[q]
                                       /\ replacing'[q] = replacing[q] /\ pc'[q] = pc[q]
  BY DEF Count, Goto, queue, IInv, TypeOK
<1>3. TypeOK'
  <2>1. /\ conn' \in [Checkouts -> Conns \cup {NoConn}]
        /\ got' \in [Checkouts -> Conns \cup {NoConn}]
        /\ pc' \in [Checkouts -> PCs] /\ in_use' \in Nat
    BY <1>1 DEF Count, Goto, IInv, TypeOK, PCs
  <2>2. unpooled' \in [Checkouts -> BOOLEAN] /\ replacing' \in [Checkouts -> BOOLEAN]
    BY DEF Count, IInv, TypeOK
  <2> QED BY <2>1, <2>2 DEF Count, IInv, TypeOK, queue
<1>4. CheckoutsOK'
  BY <1>1, <1>2 DEF IInv, CheckoutsOK, CheckoutOK, Handling, AcquirePCs
<1>5. ExclusiveConnection'
  BY <1>1, <1>2 DEF IInv, ExclusiveConnection, Mine
<1>6. NoneForgotten'
  \* The connection the wrapper had before was closed, or there was none.
  <2>1. conn[k] \notin open
    BY <1>1, PoolConstants DEF IInv, TypeOK, CheckoutsOK, CheckoutOK, Handling
  <2> QED BY <1>1, <1>2, <2>1 DEF IInv, NoneForgotten, Referenced, Mine
<1>7. HandedOutOpen'
  BY <1>2 DEF IInv, HandedOutOpen
<1> QED BY <1>3, <1>4, <1>5, <1>6, <1>7 DEF IInv

LEMMA QueryLostKeeps ==
  ASSUME IInv, NEW k \in Checkouts, QueryLost(k)
  PROVE  IInv'
<1>1. conn[k] \in Conns /\ conn[k] # NoConn /\ pc[k] = "hold" /\ got[k] = NoConn
  BY DEF QueryLost, IInv, TypeOK, CheckoutsOK, CheckoutOK, Handling
<1>2. /\ pool' = pool /\ surviving' = surviving /\ open' = open \ {conn[k]}
      /\ got' = got /\ conn' = conn
      /\ pc'[k] = "tryGet" /\ replacing'[k] = TRUE /\ is_unpooled'[k] = FALSE
      /\ \A q \in Checkouts : q # k => /\ pc'[q] = pc[q] /\ replacing'[q] = replacing[q]
                                       /\ is_unpooled'[q] = is_unpooled[q]
  BY DEF QueryLost, Goto, queue, IInv, TypeOK
<1>3. TypeOK'
  BY DEF QueryLost, Goto, IInv, TypeOK, PCs, AcquirePCs, queue, counters
<1>4. CheckoutsOK'
  BY <1>1, <1>2 DEF IInv, CheckoutsOK, CheckoutOK, Handling, AcquirePCs
<1>5. ExclusiveConnection'
  BY <1>2 DEF IInv, ExclusiveConnection, Mine
<1>6. NoneForgotten'
  BY <1>2 DEF IInv, NoneForgotten, Referenced, Mine
<1>7. HandedOutOpen'
  BY <1>1, <1>2 DEF IInv, HandedOutOpen, ExclusiveConnection, Mine
<1> QED BY <1>3, <1>4, <1>5, <1>6, <1>7 DEF IInv

LEMMA GiveBackKeeps ==
  ASSUME IInv, NEW k \in Checkouts, GiveBack(k)
  PROVE  IInv'
<1> DEFINE c == conn[k]
<1>1. c \in Conns /\ c # NoConn /\ pc[k] = "giveBack" /\ got[k] = NoConn /\ ~replacing[k]
  BY DEF GiveBack, IInv, TypeOK, CheckoutsOK, CheckoutOK, Handling, AcquirePCs
<1>2. /\ surviving' = surviving /\ got' = got /\ is_unpooled' = is_unpooled
      /\ replacing' = replacing /\ conn'[k] = NoConn /\ pc'[k] = "idle"
      /\ \A q \in Checkouts : q # k => pc'[q] = pc[q] /\ conn'[q] = conn[q]
  BY DEF GiveBack, Goto, IInv, TypeOK
<1>3. /\ c \notin InQueue /\ c \notin InSweep
      /\ \A q \in Checkouts : q # k => c # conn[q] /\ c # got[q]
  BY <1>1 DEF IInv, ExclusiveConnection, Mine, InQueue, InSweep
<1>4. \/ open' = open \ {c} /\ pool' = pool
      \/ /\ open' = open /\ pool' \in Seq(Conns)
         /\ InQueue' = InQueue \cup {c} /\ Distinct(pool)'
  <2>1. CASE open' = open \ {c} /\ pool' = pool
    BY <2>1
  <2>2. CASE open' = open /\ pool' = Append(pool, c)
    <3>1. pool \in Seq(Conns) /\ Distinct(pool) /\ c \notin Elements(pool)
      BY <1>3 DEF IInv, TypeOK, ExclusiveConnection, InQueue
    <3>2. /\ Append(pool, c) \in Seq(Conns) /\ Distinct(Append(pool, c))
          /\ Elements(Append(pool, c)) = Elements(pool) \cup {c}
      BY <1>1, <3>1, AppendElement
    <3> QED BY <2>2, <3>2 DEF InQueue
  <2> QED BY <2>1, <2>2 DEF GiveBack
<1>5. TypeOK'
  <2>1. /\ pool' \in Seq(Conns) /\ open' \subseteq Conns
        /\ conn' \in [Checkouts -> Conns \cup {NoConn}] /\ pc' \in [Checkouts -> PCs]
    BY <1>4 DEF GiveBack, Goto, IInv, TypeOK, PCs
  <2> QED BY <2>1 DEF GiveBack, IInv, TypeOK, counters
<1>6. CheckoutsOK'
  BY <1>1, <1>2, <1>4 DEF IInv, CheckoutsOK, CheckoutOK, Handling, AcquirePCs
<1>7. ExclusiveConnection'
  <2>1. InSweep' = InSweep /\ Distinct(surviving)'
    BY <1>2 DEF IInv, ExclusiveConnection, InSweep
  <2>2. InQueue' \subseteq InQueue \cup {c} /\ Distinct(pool)'
    BY <1>4 DEF IInv, ExclusiveConnection, InQueue
  <2>3. Mine(k)' = {} /\ \A q \in Checkouts \ {k} : Mine(q)' = Mine(q) /\ c \notin Mine(q)
    BY <1>1, <1>2, <1>3 DEF Mine
  <2>4. InQueue' \cap InSweep' = {}
    BY <1>3, <2>1, <2>2 DEF IInv, ExclusiveConnection, InQueue, InSweep
  <2>5. ASSUME NEW q \in Checkouts
        PROVE  Mine(q)' \cap (InQueue' \cup InSweep') = {}
    BY <2>1, <2>2, <2>3 DEF IInv, ExclusiveConnection, InQueue, InSweep
  <2>6. ASSUME NEW q \in Checkouts PROVE got'[q] = conn'[q] => got'[q] = NoConn
    BY <1>1, <1>2 DEF IInv, ExclusiveConnection
  <2>7. ASSUME NEW p \in Checkouts, NEW q \in Checkouts, p # q
        PROVE  Mine(p)' \cap Mine(q)' = {}
    BY <2>3, <2>7 DEF IInv, ExclusiveConnection
  <2> QED BY <2>1, <2>2, <2>4, <2>5, <2>6, <2>7
          DEF ExclusiveConnection, InQueue, InSweep
<1>8. NoneForgotten'
  BY <1>1, <1>2, <1>4 DEF IInv, NoneForgotten, Referenced, Mine, InQueue
<1>9. HandedOutOpen'
  BY <1>2, <1>3, <1>4 DEF IInv, HandedOutOpen
<1> QED BY <1>5, <1>6, <1>7, <1>8, <1>9 DEF IInv

-----------------------------------------------------------------------------
(* The sweeper *)

\* A step of the sweeper leaves the checkouts alone.
LEMMA SweeperFrame ==
  ASSUME IInv, UNCHANGED <<counters, locals, wrapper, losses>>,
         pool' \in Seq(Conns), surviving' \in Seq(Conns), open' \subseteq open,
         sweep' \in {"off", "take", "put"},
         Distinct(pool)', Distinct(surviving)', InQueue' \cap InSweep' = {},
         InQueue' \cup InSweep' \subseteq InQueue \cup InSweep,
         \A c \in InQueue \cup InSweep : c \in InQueue' \cup InSweep' \/ c \notin open',
         \A c \in open \ open' : c \in InQueue \cup InSweep
  PROVE  IInv'
<1>1. TypeOK'
  BY DEF IInv, TypeOK, counters, locals, wrapper
<1>2. CheckoutsOK'
  BY DEF IInv, CheckoutsOK, CheckoutOK, locals, wrapper
<1>3. got' = got /\ conn' = conn /\ pc' = pc
  BY DEF locals, wrapper
<1>4. \A q \in Checkouts : Mine(q)' = Mine(q)
  BY <1>3 DEF Mine
<1>5. ExclusiveConnection'
  <2>1. ASSUME NEW q \in Checkouts
        PROVE  Mine(q)' \cap (InQueue' \cup InSweep') = {}
    BY <1>4 DEF IInv, ExclusiveConnection, InQueue, InSweep
  <2>2. ASSUME NEW q \in Checkouts PROVE got'[q] = conn'[q] => got'[q] = NoConn
    BY <1>3 DEF IInv, ExclusiveConnection
  <2>3. ASSUME NEW p \in Checkouts, NEW q \in Checkouts, p # q
        PROVE  Mine(p)' \cap Mine(q)' = {}
    BY <1>4, <2>3 DEF IInv, ExclusiveConnection
  <2> QED BY <2>1, <2>2, <2>3 DEF ExclusiveConnection, InQueue, InSweep
<1>6. NoneForgotten'
  BY <1>4 DEF IInv, NoneForgotten, Referenced, InQueue, InSweep
<1>7. HandedOutOpen'
  BY <1>3, PoolConstants
     DEF IInv, TypeOK, HandedOutOpen, CheckoutsOK, CheckoutOK, ExclusiveConnection,
         Mine, InQueue, InSweep
<1> QED BY <1>1, <1>2, <1>5, <1>6, <1>7 DEF IInv

\* What the invariant says of the two sequences.
LEMMA Sequences ==
  ASSUME IInv
  PROVE  /\ pool \in Seq(Conns) /\ surviving \in Seq(Conns)
         /\ Distinct(pool) /\ Distinct(surviving) /\ InQueue \cap InSweep = {}
BY DEF IInv, TypeOK, ExclusiveConnection, InQueue, InSweep

LEMMA SweepTakeKeeps ==
  ASSUME IInv, SweepTake
  PROVE  IInv'
<1>1. CASE sweep' = "put" /\ UNCHANGED <<pool, surviving, open>>
  <2>1. InQueue' = InQueue /\ InSweep' = InSweep
    BY <1>1 DEF InQueue, InSweep
  <2> QED BY <1>1, <2>1, Sequences, SweeperFrame DEF SweepTake
<1>2. CASE pool # << >>
  <2> DEFINE c == Head(pool)
  <2>1. /\ c \in Conns /\ Tail(pool) \in Seq(Conns) /\ Distinct(Tail(pool))
        /\ InQueue = {c} \cup Elements(Tail(pool)) /\ c \notin Elements(Tail(pool))
    BY <1>2, Sequences, HeadAndTail DEF InQueue
  <2>2. pool' = Tail(pool) /\ sweep' \in {"off", "take", "put"}
    BY <1>2 DEF SweepTake
  <2>3. InQueue' = Elements(Tail(pool)) /\ Distinct(pool)'
    BY <2>1, <2>2 DEF InQueue
  <2>4. CASE surviving' = Append(surviving, c) /\ UNCHANGED open
    <3>1. /\ surviving' \in Seq(Conns) /\ InSweep' = InSweep \cup {c}
          /\ Distinct(surviving)'
      <4>1. c \notin Elements(surviving)
        BY <2>1, Sequences DEF InSweep
      <4> QED BY <2>1, <2>4, <4>1, Sequences, AppendElement DEF InSweep
    <3> QED BY <2>1, <2>2, <2>3, <2>4, <3>1, Sequences, SweeperFrame DEF SweepTake
  <2>5. CASE open' = open \ {c} /\ UNCHANGED surviving
    <3>1. InSweep' = InSweep /\ Distinct(surviving)' /\ surviving' \in Seq(Conns)
      BY <2>5, Sequences DEF InSweep
    <3> QED BY <2>1, <2>2, <2>3, <2>5, <3>1, Sequences, SweeperFrame DEF SweepTake
  <2> QED BY <1>2, <2>4, <2>5 DEF SweepTake
<1> QED BY <1>1, <1>2 DEF SweepTake

LEMMA SweepPutKeeps ==
  ASSUME IInv, SweepPut
  PROVE  IInv'
<1>1. CASE sweep' = "off" /\ UNCHANGED <<pool, surviving, open>>
  <2>1. InQueue' = InQueue /\ InSweep' = InSweep
    BY <1>1 DEF InQueue, InSweep
  <2> QED BY <1>1, <2>1, Sequences, SweeperFrame DEF SweepPut
<1>2. CASE surviving # << >>
  <2> DEFINE c == Head(surviving)
  <2>1. /\ c \in Conns /\ Tail(surviving) \in Seq(Conns) /\ Distinct(Tail(surviving))
        /\ InSweep = {c} \cup Elements(Tail(surviving))
        /\ c \notin Elements(Tail(surviving))
    BY <1>2, Sequences, HeadAndTail DEF InSweep
  <2>2. surviving' = Tail(surviving) /\ sweep' \in {"off", "take", "put"}
    BY <1>2 DEF SweepPut
  <2>3. InSweep' = Elements(Tail(surviving)) /\ Distinct(surviving)'
    BY <2>1, <2>2 DEF InSweep
  <2>4. CASE pool' = Append(pool, c) /\ UNCHANGED open
    <3>1. pool' \in Seq(Conns) /\ InQueue' = InQueue \cup {c} /\ Distinct(pool)'
      <4>1. c \notin Elements(pool)
        BY <2>1, Sequences DEF InQueue
      <4> QED BY <2>1, <2>4, <4>1, Sequences, AppendElement DEF InQueue
    <3> QED BY <2>1, <2>2, <2>3, <2>4, <3>1, Sequences, SweeperFrame DEF SweepPut
  <2>5. CASE open' = open \ {c} /\ UNCHANGED pool
    <3>1. InQueue' = InQueue /\ Distinct(pool)' /\ pool' \in Seq(Conns)
      BY <2>5, Sequences DEF InQueue
    <3> QED BY <2>1, <2>2, <2>3, <2>5, <3>1, Sequences, SweeperFrame DEF SweepPut
  <2> QED BY <1>2, <2>4, <2>5 DEF SweepPut
<1> QED BY <1>1, <1>2 DEF SweepPut

LEMMA SweepStartKeeps ==
  ASSUME IInv, SweepStart
  PROVE  IInv'
<1>1. InQueue' = InQueue /\ InSweep' = InSweep
  BY DEF SweepStart, InQueue, InSweep
<1> QED BY <1>1, Sequences, SweeperFrame DEF SweepStart

-----------------------------------------------------------------------------
(* The theorems *)

LEMMA NextKeeps == ASSUME IInv, [Next]_vars PROVE IInv'
<1>1. CASE UNCHANGED vars
  <2>1. InQueue' = InQueue /\ InSweep' = InSweep /\ sweep' \in {"off", "take", "put"}
    BY <1>1 DEF vars, queue, InQueue, InSweep, IInv, TypeOK
  <2> QED BY <1>1, <2>1, Sequences, SweeperFrame DEF vars, queue
<1>2. ASSUME NEW k \in Checkouts,
             Begin(k) \/ Acquire(k) \/ QueryLost(k) \/ Leave(k) \/ Release(k)
      PROVE  IInv'
  <2>1. CASE Begin(k) \/ QueryLost(k) \/ Leave(k)
    BY <2>1, BeginKeeps, QueryLostKeeps, LeavingKeeps
  <2>2. CASE Acquire(k)
    BY <2>2, TryGetKeeps, WaitingKeeps, WaitGetKeeps, PingKeeps, CreateKeeps, CountKeeps
       DEF Acquire
  <2>3. CASE Release(k)
    BY <2>3, LeavingKeeps, GiveBackKeeps DEF Release
  <2> QED BY <1>2, <2>1, <2>2, <2>3
<1>3. CASE SweepStart \/ SweepTake \/ SweepPut
  BY <1>3, SweepStartKeeps, SweepTakeKeeps, SweepPutKeeps
<1> QED BY <1>1, <1>2, <1>3 DEF Next

\* What every step of connection(), close() and the sweeper preserves.
THEOREM PoolInvariance == Spec => []IInv
<1>1. Init => IInv
  BY InitIInv
<1>2. IInv /\ [Next]_vars => IInv'
  BY NextKeeps
<1> QED BY <1>1, <1>2, PTL DEF Spec

\* The variables of the pool keep their types.
THEOREM PoolTypeCorrect == Spec => []TypeOK
<1>1. IInv => TypeOK
  BY DEF IInv
<1> QED BY <1>1, PoolInvariance, PTL

\* However checkouts nest, race with the sweeper and lose connections, a
\* connection is never in two hands.
THEOREM ConnectionsExclusive == Spec => []ExclusiveConnection
<1>1. IInv => ExclusiveConnection
  BY DEF IInv
<1> QED BY <1>1, PoolInvariance, PTL

\* No open socket is ever out of reach of the code that would close it.
THEOREM NoSocketForgotten == Spec => []NoneForgotten
<1>1. IInv => NoneForgotten
  BY DEF IInv
<1> QED BY <1>1, PoolInvariance, PTL

\* Although closed connections return to the queue, none is handed out.
THEOREM OnlyOpenHandedOut == Spec => []HandedOutOpen
<1>1. IInv => HandedOutOpen
  BY DEF IInv
<1> QED BY <1>1, PoolInvariance, PTL

-----------------------------------------------------------------------------
(* The counters *)

Replacing == {k \in Checkouts : replacing[k]}

InUseCovers == /\ Cardinality(Counted) <= in_use
               /\ in_use + Cardinality(Replacing) <= Cardinality(Counted) + losses

CountersOK == WaitersExact /\ InUseCovers

LEMMA Finite ==
  /\ IsFiniteSet(Waiting) /\ IsFiniteSet(Counted) /\ IsFiniteSet(Replacing)
  /\ Cardinality(Waiting) \in Nat /\ Cardinality(Counted) \in Nat
  /\ Cardinality(Replacing) \in Nat
BY PoolConstants, FS_Subset, FS_CardinalityType DEF Waiting, Counted, Replacing

LEMMA OneMore ==
  ASSUME NEW S, NEW T, NEW x, IsFiniteSet(S), x \notin S, T = S \cup {x}
  PROVE  Cardinality(T) = Cardinality(S) + 1
BY FS_AddElement

LEMMA OneLess ==
  ASSUME NEW S, NEW T, NEW x, IsFiniteSet(S), x \in S, T = S \ {x}
  PROVE  Cardinality(T) = Cardinality(S) - 1
BY FS_RemoveElement

\* A step that neither waits, counts nor replaces.
LEMMA SameCounts ==
  ASSUME CountersOK, Waiting' = Waiting, Counted' = Counted, Replacing' = Replacing,
         UNCHANGED <<counters, losses>>
  PROVE  CountersOK'
BY DEF CountersOK, WaitersExact, InUseCovers, counters

LEMMA PlainStepCounts ==
  ASSUME IInv, CountersOK, NEW k \in Checkouts,
         Begin(k) \/ TryGet(k) \/ ReadInUse(k) \/ WaitGet(k) \/ WaitTimeout(k)
           \/ Ping(k) \/ Leave(k) \/ GiveBack(k)
  PROVE  CountersOK'
<1>1. Waiting' = Waiting
  BY DEF Begin, TryGet, ReadInUse, WaitGet, WaitTimeout, Ping, Leave, GiveBack, Goto,
         IInv, TypeOK, Waiting
<1>2. Counted' = Counted
  <2>1. CASE GiveBack(k)
    BY <2>1 DEF GiveBack, Goto, IInv, TypeOK, Counted
  <2>2. CASE ~GiveBack(k)
    BY <2>2 DEF Begin, TryGet, ReadInUse, WaitGet, WaitTimeout, Ping, Leave, Goto,
                IInv, TypeOK, Counted, wrapper
  <2> QED BY <2>1, <2>2
<1>3. Replacing' = Replacing /\ UNCHANGED <<counters, losses>>
  BY DEF Begin, TryGet, ReadInUse, WaitGet, WaitTimeout, Ping, Leave, GiveBack,
         Replacing, wrapper
<1> QED BY <1>1, <1>2, <1>3, SameCounts

LEMMA WaitCounts ==
  ASSUME IInv, CountersOK, NEW k \in Checkouts, EnterWait(k) \/ LeaveWait(k)
  PROVE  CountersOK'
<1>1. Counted' = Counted /\ Replacing' = Replacing /\ in_use' = in_use /\ losses' = losses
  BY DEF EnterWait, LeaveWait, Goto, IInv, TypeOK, Counted, Replacing, wrapper
<1>2. CASE EnterWait(k)
  <2>1. k \notin Waiting /\ Waiting' = Waiting \cup {k} /\ waiters' = waiters + 1
    BY <1>2 DEF EnterWait, Goto, IInv, TypeOK, Waiting
  <2>2. Cardinality(Waiting') = Cardinality(Waiting) + 1
    BY <2>1, Finite, OneMore
  <2> QED BY <1>1, <2>1, <2>2 DEF CountersOK, WaitersExact, InUseCovers
<1>3. CASE LeaveWait(k)
  <2>1. k \in Waiting /\ Waiting' = Waiting \ {k}
    BY <1>3 DEF LeaveWait, Goto, IInv, TypeOK, Waiting
  <2>2. Cardinality(Waiting') = Cardinality(Waiting) - 1 /\ Cardinality(Waiting') \in Nat
    BY <2>1, Finite, OneLess, FS_RemoveElement, FS_CardinalityType
  <2>3. waiters' = waiters - 1
    BY <1>3, <2>2, Finite DEF LeaveWait, CountersOK, WaitersExact
  <2> QED BY <1>1, <2>2, <2>3 DEF CountersOK, WaitersExact, InUseCovers
<1> QED BY <1>2, <1>3

LEMMA CreateCounts ==
  ASSUME IInv, CountersOK, NEW k \in Checkouts, Create(k)
  PROVE  CountersOK'
<1>1. Waiting' = Waiting /\ Counted' = Counted /\ UNCHANGED <<counters, losses>>
  BY DEF Create, Goto, IInv, TypeOK, Waiting, Counted
<1>2. Replacing' = Replacing \/ (k \in Replacing /\ Replacing' = Replacing \ {k})
  BY DEF Create, IInv, TypeOK, Replacing
<1>3. Cardinality(Replacing') \in Nat /\ Cardinality(Replacing') <= Cardinality(Replacing)
  BY <1>2, Finite, OneLess, FS_RemoveElement, FS_CardinalityType
<1> QED BY <1>1, <1>3, Finite
        DEF CountersOK, WaitersExact, InUseCovers, counters, IInv, TypeOK

LEMMA CountCounts ==
  ASSUME IInv, CountersOK, NEW k \in Checkouts, Count(k)
  PROVE  CountersOK'
<1>1. /\ Waiting' = Waiting /\ waiters' = waiters /\ losses' = losses
      /\ in_use' = in_use + 1 /\ pc[k] = "count"
  BY DEF Count, Goto, IInv, TypeOK, Waiting
<1>2. got[k] # NoConn /\ (replacing[k] <=> conn[k] # NoConn)
  BY <1>1 DEF IInv, CheckoutsOK, CheckoutOK, Handling
<1>3. Counted' = Counted \cup {k} /\ Replacing' = Replacing \ {k}
  BY <1>1, <1>2 DEF Count, Goto, IInv, TypeOK, Counted, Replacing
<1>4. CASE replacing[k]
  <2>1. Counted' = Counted /\ k \in Replacing
    BY <1>1, <1>2, <1>3, <1>4 DEF Counted, Replacing
  <2>2. Cardinality(Replacing') = Cardinality(Replacing) - 1
    BY <1>3, <2>1, Finite, OneLess
  <2> QED BY <1>1, <2>1, <2>2, Finite
          DEF CountersOK, WaitersExact, InUseCovers, IInv, TypeOK
<1>5. CASE ~replacing[k]
  <2>1. Replacing' = Replacing /\ k \notin Counted
    BY <1>2, <1>3, <1>5 DEF Counted, Replacing
  <2>2. Cardinality(Counted') = Cardinality(Counted) + 1
    BY <1>3, <2>1, Finite, OneMore
  <2> QED BY <1>1, <2>1, <2>2, Finite
          DEF CountersOK, WaitersExact, InUseCovers, IInv, TypeOK
<1> QED BY <1>4, <1>5

LEMMA QueryLostCounts ==
  ASSUME IInv, CountersOK, NEW k \in Checkouts, QueryLost(k)
  PROVE  CountersOK'
<1>1. /\ Waiting' = Waiting /\ Counted' = Counted /\ UNCHANGED counters
      /\ losses' = losses + 1
  BY DEF QueryLost, Goto, IInv, TypeOK, Waiting, Counted
<1>2. k \notin Replacing /\ Replacing' = Replacing \cup {k}
  BY DEF QueryLost, IInv, TypeOK, CheckoutsOK, CheckoutOK, AcquirePCs, Replacing
<1>3. Cardinality(Replacing') = Cardinality(Replacing) + 1
  BY <1>2, Finite, OneMore
<1> QED BY <1>1, <1>3, Finite
        DEF CountersOK, WaitersExact, InUseCovers, counters, IInv, TypeOK

LEMMA DecrementCounts ==
  ASSUME IInv, CountersOK, NEW k \in Checkouts, Decrement(k)
  PROVE  CountersOK'
<1>1. /\ Waiting' = Waiting /\ Replacing' = Replacing /\ waiters' = waiters
      /\ losses' = losses
  BY DEF Decrement, Goto, IInv, TypeOK, Waiting, Replacing, wrapper
<1>2. k \in Counted /\ Counted' = Counted \ {k}
  BY DEF Decrement, Goto, IInv, TypeOK, CheckoutsOK, CheckoutOK, Handling, Counted,
         wrapper
<1>3. Cardinality(Counted') = Cardinality(Counted) - 1 /\ Cardinality(Counted') \in Nat
  BY <1>2, Finite, OneLess, FS_RemoveElement, FS_CardinalityType
\* Whoever leaves is counted, so the clamp of close() has nothing to do.
<1>4. in_use' = in_use - 1
  BY <1>3, Finite DEF Decrement, CountersOK, InUseCovers, IInv, TypeOK
<1> QED BY <1>1, <1>3, <1>4, Finite
        DEF CountersOK, WaitersExact, InUseCovers, IInv, TypeOK

LEMMA SweeperCounts ==
  ASSUME CountersOK, UNCHANGED <<counters, locals, wrapper, losses>>
  PROVE  CountersOK'
BY SameCounts DEF Waiting, Counted, Replacing, locals, wrapper

\* What every step preserves of the two counters.
THEOREM CountersInvariance == Spec => []CountersOK
<1>1. Init => CountersOK
  <2> SUFFICES ASSUME Init PROVE CountersOK
    OBVIOUS
  <2>1. Waiting = {} /\ Counted = {} /\ Replacing = {}
    BY DEF Init, Waiting, Counted, Replacing
  <2>2. waiters = 0 /\ in_use = 0 /\ losses = 0
    BY DEF Init
  <2> QED BY <2>1, <2>2, FS_EmptySet DEF CountersOK, WaitersExact, InUseCovers
<1>2. IInv /\ CountersOK /\ [Next]_vars => CountersOK'
  <2> SUFFICES ASSUME IInv, CountersOK, [Next]_vars PROVE CountersOK'
    OBVIOUS
  <2>1. CASE UNCHANGED vars \/ SweepStart \/ SweepTake \/ SweepPut
    BY <2>1, SweeperCounts DEF vars, SweepStart, SweepTake, SweepPut
  <2>2. ASSUME NEW k \in Checkouts,
               Begin(k) \/ Acquire(k) \/ QueryLost(k) \/ Leave(k) \/ Release(k)
        PROVE  CountersOK'
    BY <2>2, PlainStepCounts, WaitCounts, CreateCounts, CountCounts, QueryLostCounts,
       DecrementCounts DEF Acquire, Release
  <2> QED BY <2>1, <2>2 DEF Next
<1> QED BY <1>1, <1>2, PoolInvariance, PTL DEF Spec

\* waiters is the number of checkouts that wait.
THEOREM WaitersCounted == Spec => []WaitersExact
<1>1. CountersOK => WaitersExact
  BY DEF CountersOK
<1> QED BY <1>1, CountersInvariance, PTL

\* in_use counts every connection in a handler's hands, and for each loss at most
\* one more: it is never too low, whatever is read of it outside the lock.
THEOREM CheckoutsCounted == Spec => []InUseAccounted
<1>1. IInv /\ CountersOK => InUseAccounted
  BY Finite DEF IInv, TypeOK, CountersOK, InUseCovers, InUseAccounted
<1> QED BY <1>1, CountersInvariance, PoolInvariance, PTL

-----------------------------------------------------------------------------
(* The gauge of the metrics *)

AllIdle == \A k \in Checkouts : pc[k] = "idle"

FewLosses == losses <= MaxLosses

LEMMA LossesBounded == Spec => []FewLosses
<1>1. Init => FewLosses
  BY PoolConstants DEF Init, FewLosses
<1>2. IInv /\ FewLosses /\ [Next]_vars => FewLosses'
  BY PoolConstants
     DEF FewLosses, IInv, TypeOK, Next, Begin, Acquire, Release, TryGet, ReadInUse, EnterWait, WaitGet,
         WaitTimeout, LeaveWait, Ping, Create, Count, QueryLost, Leave, Decrement, GiveBack,
         SweepStart, SweepTake, SweepPut, vars
<1> QED BY <1>1, <1>2, PoolInvariance, PTL DEF Spec

\* When no checkout is under way the gauge in_use is too high by no more than the
\* connections lost so far, and never too low: what a replacement leaves behind
\* (_execute_cursor) does not add up otherwise.
THEOREM GaugeOffByLosses == Spec => [](AllIdle => in_use <= losses)
<1>1. IInv /\ CountersOK /\ AllIdle => in_use <= losses
  <2> SUFFICES ASSUME IInv, CountersOK, AllIdle PROVE in_use <= losses
    OBVIOUS
  <2>1. Counted = {}
    BY DEF IInv, CheckoutsOK, CheckoutOK, Handling, AcquirePCs, AllIdle, Counted
  <2>2. Cardinality(Counted) = 0
    BY <2>1, FS_EmptySet
  <2> QED BY <2>2, Finite DEF IInv, TypeOK, CountersOK, InUseCovers
<1> QED BY <1>1, CountersInvariance, PoolInvariance, PTL

\* The gauge means what app/health.py says of it as long as no connection is lost
\* under a query: the replacement is the only thing that spoils it.
THEOREM GaugeNeedsNoLoss ==
  ASSUME MaxLosses = 0
  PROVE  Spec => []GaugeReturnsToZero
<1>1. IInv /\ FewLosses /\ (AllIdle => in_use <= losses) => GaugeReturnsToZero
  BY DEF FewLosses, IInv, TypeOK, AllIdle, GaugeReturnsToZero
<1> QED BY <1>1, PoolInvariance, LossesBounded, GaugeOffByLosses, PTL

-----------------------------------------------------------------------------
(* How many sockets are open *)

LEMMA SurjectionCount ==
  ASSUME NEW S, IsFiniteSet(S), NEW T, NEW f \in [S -> T], \A t \in T : \E x \in S : f[x] = t
  PROVE  IsFiniteSet(T) /\ Cardinality(T) <= Cardinality(S) /\ Cardinality(T) \in Nat
<1>1. f \in Surjection(S, T)
  BY DEF Surjection
<1> QED BY <1>1, FS_Surjection, FS_CardinalityType

LEMMA ElementsCount ==
  ASSUME NEW S, NEW s \in Seq(S)
  PROVE  IsFiniteSet(Elements(s)) /\ Cardinality(Elements(s)) <= Len(s)
         /\ Cardinality(Elements(s)) \in Nat
<1>1. Len(s) \in Nat /\ DOMAIN s = 1 .. Len(s)
  BY LenProperties
<1>2. IsFiniteSet(1 .. Len(s)) /\ Cardinality(1 .. Len(s)) = Len(s)
  BY <1>1, FS_Interval
<1>3. s \in [1 .. Len(s) -> Elements(s)] /\ \A e \in Elements(s) : \E i \in 1 .. Len(s) : s[i] = e
  BY <1>1 DEF Elements
<1> QED BY <1>2, <1>3, SurjectionCount

LEMMA UnionCount ==
  ASSUME NEW S, NEW T, IsFiniteSet(S), IsFiniteSet(T)
  PROVE  IsFiniteSet(S \cup T) /\ Cardinality(S \cup T) <= Cardinality(S) + Cardinality(T)
<1>1. IsFiniteSet(S \cap T)
  BY FS_Intersection
<1>2. /\ Cardinality(S) \in Nat /\ Cardinality(T) \in Nat
      /\ Cardinality(S \cap T) \in Nat
  BY <1>1, FS_CardinalityType
<1>3. /\ IsFiniteSet(S \cup T)
      /\ Cardinality(S \cup T) = Cardinality(S) + Cardinality(T) - Cardinality(S \cap T)
  BY FS_Union
<1> QED BY <1>2, <1>3

\* Of the two references a checkout may have, at most one is to an open connection.
Held(k) == IF got[k] # NoConn THEN got[k] ELSE conn[k]
HeldByBusy == {Held(k) : k \in Busy}

LEMMA OpenIsHeld == ASSUME IInv PROVE open \subseteq (InQueue \cup InSweep) \cup HeldByBusy
<1> SUFFICES ASSUME NEW c \in open, c \notin InQueue, c \notin InSweep
             PROVE  c \in HeldByBusy
  OBVIOUS
<1>1. PICK k \in Checkouts : c \in Mine(k)
  BY DEF IInv, NoneForgotten, Referenced, InQueue, InSweep
<1>2. CheckoutOK(k) /\ c # NoConn
  BY <1>1 DEF IInv, CheckoutsOK, Mine
\* Where both are set, the one of the wrapper is being replaced: it was closed.
<1>3. c = Held(k) /\ k \in Busy
  BY <1>1, <1>2 DEF CheckoutOK, Mine, Held, Busy, Handling, AcquirePCs
<1> QED BY <1>3 DEF HeldByBusy

PoolFits == Len(pool) <= maxsize

LEMMA NewLength ==
  ASSUME NEW S, NEW s \in Seq(S), NEW e \in S
  PROVE  /\ Len(Append(s, e)) = Len(s) + 1 /\ Len(s) \in Nat
         /\ s # << >> => Len(Tail(s)) = Len(s) - 1
OBVIOUS

LEMMA PoolFitsAlways == Spec => []PoolFits
<1>1. Init => PoolFits
  BY PoolConstants DEF Init, PoolFits
<1>2. IInv /\ PoolFits /\ [Next]_vars => PoolFits'
  <2> SUFFICES ASSUME IInv, PoolFits, [Next]_vars PROVE PoolFits'
    OBVIOUS
  <2>1. pool \in Seq(Conns) /\ surviving \in Seq(Conns) /\ Len(pool) \in Nat /\ maxsize \in Nat
    BY PoolConstants DEF IInv, TypeOK
  <2>2. ASSUME pool' = Tail(pool), pool # << >> PROVE PoolFits'
    BY <2>1, <2>2 DEF PoolFits
  <2>3. ASSUME NEW c \in Conns, pool' = Append(pool, c), ~(Len(pool) >= maxsize)
        PROVE  PoolFits'
    BY <2>1, <2>3 DEF PoolFits
  <2>4. ASSUME pool' = pool PROVE PoolFits'
    BY <2>4 DEF PoolFits
  <2>5. ASSUME NEW k \in Checkouts,
               Begin(k) \/ Acquire(k) \/ QueryLost(k) \/ Leave(k) \/ Release(k)
        PROVE  PoolFits'
    <3>1. CASE GiveBack(k)
      <4>1. conn[k] \in Conns
        BY <3>1 DEF GiveBack, IInv, TypeOK, CheckoutsOK, CheckoutOK, Handling
      <4> QED BY <3>1, <4>1, <2>3, <2>4 DEF GiveBack
    <3>2. CASE TryGet(k) \/ WaitGet(k)
      BY <3>2, <2>2, <2>4 DEF TryGet, WaitGet, TakeHead, queue
    <3>3. CASE ~(GiveBack(k) \/ TryGet(k) \/ WaitGet(k))
      <4>1. pool' = pool
        BY <2>5, <3>3 DEF Acquire, Release, Begin, ReadInUse, EnterWait, WaitTimeout, LeaveWait,
                          Ping, Create, Count, QueryLost, Leave, Decrement, queue
      <4> QED BY <4>1, <2>4
    <3> QED BY <3>1, <3>2, <3>3
  <2>6. CASE SweepTake
    BY <2>6, <2>2, <2>4 DEF SweepTake
  <2>7. CASE SweepPut
    <3>1. surviving # << >> => Head(surviving) \in Conns
      BY <2>1
    <3> QED BY <2>7, <3>1, <2>3, <2>4 DEF SweepPut
  <2>8. CASE SweepStart \/ UNCHANGED vars
    BY <2>8, <2>4 DEF SweepStart, vars, queue
  <2> QED BY <2>5, <2>6, <2>7, <2>8 DEF Next
<1> QED BY <1>1, <1>2, PoolInvariance, PTL DEF Spec

\* However many checkouts find the queue empty at once, time out or lose their
\* connection: beyond the connections the queue may keep and those the sweeper has
\* in its hands, no more sockets are open than checkouts are under way.
THEOREM SocketsAreBounded == Spec => []SocketsBounded
<1>1. IInv /\ PoolFits => SocketsBounded
  <2> SUFFICES ASSUME IInv, PoolFits PROVE SocketsBounded
    OBVIOUS
  <2>1. pool \in Seq(Conns) /\ surviving \in Seq(Conns)
    BY DEF IInv, TypeOK
  <2>2. /\ IsFiniteSet(InQueue) /\ Cardinality(InQueue) <= Len(pool)
        /\ IsFiniteSet(InSweep) /\ Cardinality(InSweep) <= Len(surviving)
        /\ Cardinality(InQueue) \in Nat /\ Cardinality(InSweep) \in Nat
        /\ Len(pool) \in Nat /\ Len(surviving) \in Nat
    BY <2>1, ElementsCount DEF InQueue, InSweep
  <2>3. IsFiniteSet(Busy) /\ Cardinality(Busy) \in Nat
    BY PoolConstants, FS_Subset, FS_CardinalityType DEF Busy
  <2>4. /\ IsFiniteSet(HeldByBusy) /\ Cardinality(HeldByBusy) <= Cardinality(Busy)
        /\ Cardinality(HeldByBusy) \in Nat
    <3> DEFINE held == [k \in Busy |-> Held(k)]
    <3>1. held \in [Busy -> HeldByBusy] /\ \A c \in HeldByBusy : \E k \in Busy : held[k] = c
      BY DEF HeldByBusy
    <3> HIDE DEF held
    <3> QED BY <2>3, <3>1, SurjectionCount
  <2>5. /\ IsFiniteSet(InQueue \cup InSweep)
        /\ Cardinality(InQueue \cup InSweep) <= Len(pool) + Len(surviving)
        /\ Cardinality(InQueue \cup InSweep) \in Nat
    BY <2>2, UnionCount, FS_CardinalityType
  <2>6. /\ IsFiniteSet((InQueue \cup InSweep) \cup HeldByBusy)
        /\ Cardinality((InQueue \cup InSweep) \cup HeldByBusy)
             <= Cardinality(InQueue \cup InSweep) + Cardinality(HeldByBusy)
        /\ Cardinality((InQueue \cup InSweep) \cup HeldByBusy) \in Nat
    BY <2>4, <2>5, UnionCount, FS_CardinalityType
  <2>7. /\ Cardinality(open) <= Cardinality((InQueue \cup InSweep) \cup HeldByBusy)
        /\ Cardinality(open) \in Nat
    BY <2>6, OpenIsHeld, FS_Subset, FS_CardinalityType
  <2> QED BY <2>2, <2>3, <2>4, <2>5, <2>6, <2>7, PoolConstants DEF PoolFits, SocketsBounded
<1> QED BY <1>1, PoolInvariance, PoolFitsAlways, PTL

-----------------------------------------------------------------------------
(* The pool lends connections: the refinement *)

Lent == [k \in Checkouts |-> Mine(k)]

LendingStep == Lending!Next \/ UNCHANGED <<InQueue \cup InSweep, Lent, open>>

LEMMA LentChange ==
  ASSUME NEW k \in Checkouts, NEW S, Mine(k)' = S,
         \A q \in Checkouts : q # k => Mine(q)' = Mine(q)
  PROVE  Lent' = [Lent EXCEPT ![k] = S]
BY DEF Lent

LEMMA LentSame ==
  ASSUME UNCHANGED <<got, conn>>
  PROVE  Lent' = Lent /\ \A q \in Checkouts : Mine(q)' = Mine(q)
BY DEF Lent, Mine

\* Steps that lend, open, close and return nothing.
LEMMA QuietLends ==
  ASSUME IInv, NEW k \in Checkouts,
         Begin(k) \/ ReadInUse(k) \/ EnterWait(k) \/ WaitTimeout(k) \/ LeaveWait(k)
           \/ Leave(k) \/ Decrement(k)
  PROVE  LendingStep
<1>1. got' = got /\ UNCHANGED <<pool, surviving, conn, open>>
  BY DEF Begin, ReadInUse, EnterWait, WaitTimeout, LeaveWait, Leave, Decrement, queue,
         wrapper, IInv, TypeOK, CheckoutsOK, CheckoutOK
<1> QED BY <1>1, LentSame DEF LendingStep, InQueue, InSweep

\* A checkout that looks for a connection has none that is open.
LEMMA SeekerInNeed ==
  ASSUME IInv, NEW k \in Checkouts, pc[k] \in {"tryGet", "wait", "create"}
  PROVE  got[k] = NoConn /\ Lending!InNeed(k)
<1>1. got[k] = NoConn /\ (conn[k] # NoConn => conn[k] \notin open)
  BY DEF IInv, CheckoutsOK, CheckoutOK, Handling
<1>2. Mine(k) \cap open = {}
  BY <1>1 DEF Mine
<1> QED BY <1>1, <1>2 DEF Lending!InNeed

LEMMA TakeLends ==
  ASSUME IInv, NEW k \in Checkouts, pc[k] \in {"tryGet", "wait"}, TakeHead(k),
         UNCHANGED <<open, conn>>
  PROVE  LendingStep
<1> DEFINE c == Head(pool)
<1>1. pool # << >> /\ pool' = Tail(pool) /\ surviving' = surviving
  BY DEF TakeHead
<1>2. c \in Conns /\ InQueue = {c} \cup InQueue' /\ c \notin InQueue' /\ c \notin InSweep
  <2>1. /\ c \in Conns /\ Elements(pool) = {c} \cup Elements(Tail(pool))
        /\ c \notin Elements(Tail(pool))
    BY <1>1, Sequences, HeadAndTail
  <2> QED BY <1>1, <2>1, Sequences DEF InQueue, InSweep
<1>3. InSweep' = InSweep /\ c # NoConn
  BY <1>1, <1>2, PoolConstants DEF InSweep
<1>4. got[k] = NoConn /\ Lending!InNeed(k)
  BY SeekerInNeed
<1>5. got'[k] = c /\ \A q \in Checkouts : q # k => got'[q] = got[q]
  BY DEF TakeHead, IInv, TypeOK
<1>6. Mine(k)' = Mine(k) \cup {c} /\ \A q \in Checkouts : q # k => Mine(q)' = Mine(q)
  BY <1>3, <1>4, <1>5 DEF Mine
<1>7. Lent' = [Lent EXCEPT ![k] = @ \cup {c}]
  BY <1>6, LentChange DEF Lent
<1>8. InQueue' \cup InSweep' = (InQueue \cup InSweep) \ {c}
  BY <1>2, <1>3
<1>9. Lending!Borrow(k, c)
  BY <1>2, <1>4, <1>7, <1>8 DEF Lending!Borrow, Lent, InQueue, InSweep
<1> QED BY <1>2, <1>9 DEF LendingStep, Lending!Next

LEMMA TryGetLends == ASSUME IInv, NEW k \in Checkouts, TryGet(k) PROVE LendingStep
<1>1. CASE TakeHead(k)
  BY <1>1, TakeLends DEF TryGet, wrapper
<1>2. CASE UNCHANGED <<queue, got>>
  BY <1>2, LentSame DEF TryGet, wrapper, queue, LendingStep, InQueue, InSweep
<1> QED BY <1>1, <1>2 DEF TryGet

LEMMA WaitGetLends == ASSUME IInv, NEW k \in Checkouts, WaitGet(k) PROVE LendingStep
BY TakeLends DEF WaitGet, wrapper

LEMMA PingLends == ASSUME IInv, NEW k \in Checkouts, Ping(k) PROVE LendingStep
<1> DEFINE c == got[k]
<1>1. c \in Conns /\ c # NoConn /\ (conn[k] # NoConn => conn[k] \notin open) /\ c # conn[k]
  BY PoolConstants DEF Ping, IInv, TypeOK, CheckoutsOK, CheckoutOK, Handling,
                       ExclusiveConnection
<1>2. /\ InQueue' = InQueue /\ InSweep' = InSweep /\ conn' = conn
      /\ c \in Mine(k)
  BY <1>1 DEF Ping, queue, wrapper, InQueue, InSweep, Mine
<1>3. CASE open' = open \cup {c} /\ got' = got
  <2>1. Lent' = Lent
    BY <1>2, <1>3, LentSame
  <2>2. CASE c \in open
    BY <1>2, <1>3, <2>1, <2>2 DEF LendingStep
  <2>3. CASE c \notin open
    <3>1. Mine(k) \cap open = {}
      BY <1>1, <2>3 DEF Mine
    <3>2. Lending!Reopen(k, c)
      BY <1>2, <1>3, <2>1, <3>1 DEF Lending!Reopen, Lending!InNeed, Lent, InQueue, InSweep
    <3> QED BY <1>1, <3>2 DEF LendingStep, Lending!Next
  <2> QED BY <2>2, <2>3
<1>4. CASE open' = open \ {c} /\ got' = [got EXCEPT ![k] = NoConn]
  <2>1. got'[k] = NoConn /\ \A q \in Checkouts : q # k => got'[q] = got[q]
    BY <1>4 DEF IInv, TypeOK
  <2>2. Mine(k)' = Mine(k) \ {c} /\ \A q \in Checkouts : q # k => Mine(q)' = Mine(q)
    BY <1>1, <1>2, <2>1 DEF Mine
  <2>3. Lent' = [Lent EXCEPT ![k] = @ \ {c}]
    BY <2>2, LentChange DEF Lent
  <2>4. Lending!Discard(k, c)
    BY <1>2, <1>4, <2>3 DEF Lending!Discard, Lent, InQueue, InSweep
  <2> QED BY <1>1, <2>4 DEF LendingStep, Lending!Next
<1> QED BY <1>3, <1>4 DEF Ping

LEMMA CreateLends == ASSUME IInv, NEW k \in Checkouts, Create(k) PROVE LendingStep
<1>1. InQueue' = InQueue /\ InSweep' = InSweep /\ conn' = conn
  BY DEF Create, queue, InQueue, InSweep
<1>2. CASE UNCHANGED <<open, got>>
  BY <1>1, <1>2, LentSame DEF LendingStep
<1>3. ASSUME NEW c \in Conns \ Referenced, open' = open \cup {c},
             got' = [got EXCEPT ![k] = c]
      PROVE  LendingStep
  <2>1. /\ got'[k] = c /\ \A q \in Checkouts : q # k => got'[q] = got[q]
        /\ c # NoConn
    BY <1>3, PoolConstants DEF IInv, TypeOK
  <2>2. got[k] = NoConn /\ Lending!InNeed(k)
    BY SeekerInNeed DEF Create
  <2>3. Mine(k)' = Mine(k) \cup {c} /\ \A q \in Checkouts : q # k => Mine(q)' = Mine(q)
    BY <1>1, <2>1, <2>2 DEF Mine
  <2>4. Lent' = [Lent EXCEPT ![k] = @ \cup {c}]
    BY <2>3, LentChange DEF Lent
  <2>5. c \in Lending!Unknown
    BY DEF Lending!Unknown, Referenced
  <2>6. Lending!Connect(k, c)
    BY <1>1, <1>3, <2>2, <2>4, <2>5 DEF Lending!Connect, Lent, InQueue, InSweep
  <2> QED BY <2>6 DEF LendingStep, Lending!Next
<1> QED BY <1>2, <1>3 DEF Create

\* What the wrapper had before it got the replacement was closed.
LEMMA CountLends == ASSUME IInv, NEW k \in Checkouts, Count(k) PROVE LendingStep
<1> DEFINE c == conn[k]
<1>1. got[k] # NoConn /\ (c # NoConn => c \in Conns /\ c \notin open /\ c # got[k])
  BY DEF Count, IInv, TypeOK, CheckoutsOK, CheckoutOK, Handling, ExclusiveConnection
<1>2. /\ InQueue' = InQueue /\ InSweep' = InSweep /\ open' = open
      /\ got'[k] = NoConn /\ conn'[k] = got[k]
      /\ \A q \in Checkouts : q # k => got'[q] = got[q] /\ conn'[q] = conn[q]
  BY DEF Count, queue, IInv, TypeOK, InQueue, InSweep
<1>3. \A q \in Checkouts : q # k => Mine(q)' = Mine(q)
  BY <1>2 DEF Mine
<1>4. CASE c = NoConn
  <2>1. Mine(k)' = Mine(k)
    BY <1>1, <1>2, <1>4 DEF Mine
  <2>2. Lent' = Lent
    BY <1>3, <2>1 DEF Lent
  <2> QED BY <1>2, <2>2 DEF LendingStep
<1>5. CASE c # NoConn
  <2>1. Mine(k)' = Mine(k) \ {c} /\ c \in Mine(k)
    BY <1>1, <1>2, <1>5 DEF Mine
  <2>2. Lent' = [Lent EXCEPT ![k] = @ \ {c}]
    BY <1>3, <2>1, LentChange DEF Lent
  <2>3. open' = open \ {c}
    BY <1>1, <1>2, <1>5
  <2>4. Lending!Discard(k, c)
    BY <1>2, <2>1, <2>2, <2>3 DEF Lending!Discard, Lent, InQueue, InSweep
  <2> QED BY <1>1, <1>5, <2>4 DEF LendingStep, Lending!Next
<1> QED BY <1>4, <1>5

LEMMA QueryLostLends == ASSUME IInv, NEW k \in Checkouts, QueryLost(k) PROVE LendingStep
<1> DEFINE c == conn[k]
<1>1. c \in Conns /\ c \in Mine(k)
  BY PoolConstants DEF QueryLost, IInv, TypeOK, Mine
<1>2. InQueue' = InQueue /\ InSweep' = InSweep /\ Lent' = Lent /\ open' = open \ {c}
  BY LentSame DEF QueryLost, queue, InQueue, InSweep
<1>3. Lending!Break(k, c)
  BY <1>1, <1>2 DEF Lending!Break, Lent, InQueue, InSweep
<1> QED BY <1>1, <1>3 DEF LendingStep, Lending!Next

LEMMA GiveBackLends == ASSUME IInv, NEW k \in Checkouts, GiveBack(k) PROVE LendingStep
<1> DEFINE c == conn[k]
<1>1. c \in Conns /\ c # NoConn /\ got[k] = NoConn
  BY DEF GiveBack, IInv, TypeOK, CheckoutsOK, CheckoutOK, Handling, AcquirePCs
<1>2. /\ InSweep' = InSweep /\ got' = got /\ conn'[k] = NoConn
      /\ \A q \in Checkouts : q # k => conn'[q] = conn[q]
  BY DEF GiveBack, IInv, TypeOK, InSweep
<1>3. /\ Mine(k) = {c} /\ Mine(k)' = {}
      /\ \A q \in Checkouts : q # k => Mine(q)' = Mine(q)
  BY <1>1, <1>2 DEF Mine
<1>4. Lent' = [Lent EXCEPT ![k] = {}]
  BY <1>3, LentChange
<1>5. CASE open' = open \ {c} /\ pool' = pool
  <2>1. Lent' = [Lent EXCEPT ![k] = @ \ {c}]
    BY <1>3, LentChange DEF Lent
  <2>2. InQueue' = InQueue
    BY <1>5 DEF InQueue
  <2>3. Lending!Discard(k, c)
    BY <1>2, <1>3, <1>5, <2>1, <2>2 DEF Lending!Discard, Lent, InQueue, InSweep
  <2> QED BY <1>1, <2>3 DEF LendingStep, Lending!Next
<1>6. CASE open' = open /\ pool' = Append(pool, c)
  <2>1. InQueue' = InQueue \cup {c}
    BY <1>1, <1>6, Sequences, AppendElement DEF InQueue
  <2>2. Lending!Return(k, c)
    BY <1>2, <1>3, <1>4, <1>6, <2>1 DEF Lending!Return, Lent, InQueue, InSweep
  <2> QED BY <1>1, <2>2 DEF LendingStep, Lending!Next
<1> QED BY <1>5, <1>6 DEF GiveBack

\* The sweeper has nothing lent to it: what it keeps aside counts as free.
LEMMA SweeperLends ==
  ASSUME IInv, SweepStart \/ SweepTake \/ SweepPut
  PROVE  LendingStep
<1>1. Lent' = Lent
  BY LentSame DEF SweepStart, SweepTake, SweepPut, locals, wrapper
<1>2. CASE UNCHANGED <<pool, surviving, open>>
  BY <1>1, <1>2 DEF LendingStep, InQueue, InSweep
<1>3. ASSUME NEW c \in Conns, c \in InQueue \cup InSweep, open' = open \ {c},
             InQueue' \cup InSweep' = (InQueue \cup InSweep) \ {c}
      PROVE  LendingStep
  <2>1. Lending!Retire(c)
    BY <1>1, <1>3 DEF Lending!Retire, Lent, InQueue, InSweep
  <2> QED BY <2>1 DEF LendingStep, Lending!Next
<1>4. ASSUME InQueue' \cup InSweep' = InQueue \cup InSweep, open' = open PROVE LendingStep
  BY <1>1, <1>4 DEF LendingStep
<1>5. CASE SweepTake /\ pool # << >>
  <2> DEFINE c == Head(pool)
  <2>1. /\ c \in Conns /\ InQueue = {c} \cup Elements(Tail(pool))
        /\ c \notin Elements(Tail(pool)) /\ c \notin InSweep
    BY <1>5, Sequences, HeadAndTail DEF InQueue, InSweep
  <2>2. InQueue' = Elements(Tail(pool))
    BY <1>5 DEF SweepTake, InQueue
  <2>3. CASE surviving' = Append(surviving, c) /\ open' = open
    <3>1. InSweep' = InSweep \cup {c}
      BY <2>1, <2>3, Sequences, AppendElement DEF InSweep
    <3> QED BY <1>4, <2>1, <2>2, <2>3, <3>1
  <2>4. CASE open' = open \ {c} /\ surviving' = surviving
    <3>1. InSweep' = InSweep
      BY <2>4 DEF InSweep
    <3> QED BY <1>3, <2>1, <2>2, <2>4, <3>1
  <2> QED BY <1>5, <2>3, <2>4 DEF SweepTake
<1>6. CASE SweepPut /\ surviving # << >>
  <2> DEFINE c == Head(surviving)
  <2>1. /\ c \in Conns /\ InSweep = {c} \cup Elements(Tail(surviving))
        /\ c \notin Elements(Tail(surviving)) /\ c \notin InQueue
    BY <1>6, Sequences, HeadAndTail DEF InQueue, InSweep
  <2>2. InSweep' = Elements(Tail(surviving))
    BY <1>6 DEF SweepPut, InSweep
  <2>3. CASE pool' = Append(pool, c) /\ open' = open
    <3>1. InQueue' = InQueue \cup {c}
      BY <2>1, <2>3, Sequences, AppendElement DEF InQueue
    <3> QED BY <1>4, <2>1, <2>2, <2>3, <3>1
  <2>4. CASE open' = open \ {c} /\ pool' = pool
    <3>1. InQueue' = InQueue
      BY <2>4 DEF InQueue
    <3> QED BY <1>3, <2>1, <2>2, <2>4, <3>1
  <2> QED BY <1>6, <2>3, <2>4 DEF SweepPut
<1> QED BY <1>2, <1>5, <1>6 DEF SweepStart, SweepTake, SweepPut

\* Queue, counters, waits, replacements and the sweeper together do what
\* ConnectionLending promises: only whoever has a connection opens, closes or
\* returns it, nobody takes another while he has a usable one, and no usable one is
\* forgotten.
THEOREM LendingImplemented == Spec => ImplementsLending
<1>1. Init => Lending!Init
  <2> SUFFICES ASSUME Init PROVE Lending!Init
    OBVIOUS
  <2>1. Elements(pool) = {} /\ Elements(surviving) = {} /\ \A k \in Checkouts : Mine(k) = {}
    BY NothingIn DEF Init, Mine
  <2> QED BY <2>1 DEF Init, Lending!Init
<1>2. IInv /\ [Next]_vars => [Lending!Next]_Lending!lending
  <2> SUFFICES ASSUME IInv, [Next]_vars PROVE LendingStep
    BY DEF LendingStep, Lending!lending, Lent, InQueue, InSweep
  <2>1. CASE UNCHANGED vars
    BY <2>1, LentSame DEF LendingStep, InQueue, InSweep, vars, queue, locals, wrapper
  <2>2. ASSUME NEW k \in Checkouts,
               Begin(k) \/ Acquire(k) \/ QueryLost(k) \/ Leave(k) \/ Release(k)
        PROVE  LendingStep
    BY <2>2, QuietLends, TryGetLends, WaitGetLends, PingLends, CreateLends, CountLends,
       QueryLostLends, GiveBackLends DEF Acquire, Release
  <2>3. CASE SweepStart \/ SweepTake \/ SweepPut
    BY <2>3, SweeperLends
  <2> QED BY <2>1, <2>2, <2>3 DEF Next
<1> QED BY <1>1, <1>2, PoolInvariance, PTL DEF Spec, ImplementsLending, Lending!Spec

-----------------------------------------------------------------------------
(* Why the wait for a connection ends *)

\* The most steps connection() still takes.
StepsLeft(label) ==
  CASE label = "tryGet" -> 8 [] label = "readInUse" -> 7 [] label = "enterWait" -> 6
    [] label = "wait" -> 5 [] label = "leaveWait" -> 4 [] label = "ping" -> 3
    [] label = "create" -> 2 [] label = "count" -> 1 [] OTHER -> 0

GoesOn(k) ==
  pc[k] \in AcquirePCs =>
    \/ pc'[k] = pc[k]
    \/ /\ pc'[k] \in AcquirePCs \cup {"hold", "idle"}
       /\ StepsLeft(pc'[k]) < StepsLeft(pc[k])

\* Once begun, a checkout only goes forward: neither its own steps nor anybody
\* else's, the sweeper's and the closing of a dead connection included, send it back
\* to a step it has done.  With at most eight steps to go, and each of them possible
\* whatever the queue holds, a thread that goes on gets its connection or an error
\* (CheckoutEnds).
THEOREM CheckoutsGoOn == Spec => [][\A k \in Checkouts : GoesOn(k)]_vars
<1> DEFINE AllGoOn == \A k \in Checkouts : GoesOn(k)
<1>1. IInv /\ [Next]_vars => [AllGoOn]_vars
  <2> SUFFICES ASSUME IInv, Next, NEW q \in Checkouts PROVE GoesOn(q)
    OBVIOUS
  <2>1. ASSUME NEW k \in Checkouts,
               Begin(k) \/ Acquire(k) \/ QueryLost(k) \/ Leave(k) \/ Release(k)
        PROVE  GoesOn(q)
    <3>1. CASE q # k
      <4>1. pc'[q] = pc[q]
        BY <2>1, <3>1 DEF Begin, Acquire, Release, TryGet, ReadInUse, EnterWait, WaitGet,
                          WaitTimeout, LeaveWait, Ping, Create, Count, QueryLost, Leave,
                          Decrement, GiveBack, Goto, IInv, TypeOK
      <4> QED BY <4>1 DEF GoesOn
    <3>2. CASE q = k /\ ~Acquire(k)
      BY <2>1, <3>2 DEF GoesOn, AcquirePCs, Begin, QueryLost, Leave, Release, Decrement, GiveBack
    <3>3. CASE q = k /\ Acquire(k)
      <4>1. CASE TryGet(k) \/ ReadInUse(k) \/ EnterWait(k)
        BY <3>3, <4>1 DEF GoesOn, StepsLeft, AcquirePCs, TryGet, ReadInUse, EnterWait, Goto,
                          IInv, TypeOK
      <4>2. CASE WaitGet(k) \/ WaitTimeout(k) \/ LeaveWait(k)
        BY <3>3, <4>2 DEF GoesOn, StepsLeft, AcquirePCs, WaitGet, WaitTimeout, LeaveWait, Goto,
                          IInv, TypeOK
      <4>3. CASE Ping(k) \/ Create(k) \/ Count(k)
        BY <3>3, <4>3 DEF GoesOn, StepsLeft, AcquirePCs, Ping, Create, Count, Goto,
                          IInv, TypeOK
      <4> QED BY <3>3, <4>1, <4>2, <4>3 DEF Acquire
    <3> QED BY <3>1, <3>2, <3>3
  <2>2. CASE SweepStart \/ SweepTake \/ SweepPut
    BY <2>2 DEF GoesOn, SweepStart, SweepTake, SweepPut, locals
  <2> QED BY <2>1, <2>2 DEF Next
<1> QED BY <1>1, PoolInvariance, PTL DEF Spec

=============================================================================
