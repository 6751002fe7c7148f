--------------------------- MODULE ConnectionPool ---------------------------
(***************************************************************************)
(* The connection pool of BaseMySQLService (db_services.py): a bounded     *)
(* queue of idle connections, a counter in_use that decides whether the    *)
(* pool is exhausted, the checkouts that worker threads make with          *)
(* connection() and end with PooledConnection.close(), the replacement of  *)
(* a lost connection by _execute_cursor, and the sweeper thread.           *)
(*                                                                         *)
(* A checkout is one activation of `with self.connection()'.  Handlers     *)
(* nest them (create_ticket holds one while get_user makes another): Caller *)
(* names the checkout that waits for this one to end.  The lock guards the *)
(* counters only, so a checkout is a sequence of steps: what it read under *)
(* the lock, and what it found in the queue, may be old when it acts.      *)
(*                                                                         *)
(* An operator named ...Slip is no part of the specification: it is the    *)
(* operator below it with a plausible mistake, which a run has to notice.  *)
(***************************************************************************)
EXTENDS Naturals, Sequences, FiniteSets

CONSTANTS
  Checkouts,  \* activations of connection(), each repeated for ever
  Caller,     \* [Checkouts -> Checkouts \cup {NoCaller}]
  NoCaller,
  Conns,      \* names of connection objects; a bound on how many are alive
  NoConn,
  maxsize,    \* MYSQL_POOL_MAXSIZE
  MaxLosses   \* bound on connections lost while a query runs on them

ASSUME PoolConstants ==
  /\ NoConn \notin Conns /\ NoCaller \notin Checkouts /\ IsFiniteSet(Checkouts)
  /\ Caller \in [Checkouts -> Checkouts \cup {NoCaller}]
  /\ maxsize \in Nat \ {0} /\ MaxLosses \in Nat

VARIABLES
  pool,       \* self._pool, a Queue(maxsize)
  in_use,     \* self._in_use
  waiters,    \* self._waiters
  open,       \* connections whose socket has not been closed by this process
  pc,         \* next step of each checkout
  got,        \* conn, the local of connection()
  is_unpooled,\* its local flag
  conn,       \* _conn of the wrapper the handler was given
  unpooled,   \* _is_unpooled of that wrapper
  replacing,  \* connection() was called by _execute_cursor, not by a handler
  sweep,      \* what the sweeper does next
  surviving,  \* its local list
  losses      \* connections lost so far

queue == <<pool, sweep, surviving>>
counters == <<in_use, waiters>>
wrapper == <<conn, unpooled, replacing>>
locals == <<pc, got, is_unpooled>>
vars == <<queue, counters, open, locals, wrapper, losses>>

AcquirePCs == {"tryGet", "readInUse", "enterWait", "wait", "leaveWait", "ping",
               "create", "count"}
PCs == {"idle", "hold", "decrement", "giveBack"} \cup AcquirePCs

Elements(s) == {s[i] : i \in DOMAIN s}

\* The connections a checkout has a reference to.
Mine(k) == {got[k], conn[k]} \ {NoConn}

\* Connection objects somebody has a reference to; the others do not exist.
Referenced == Elements(pool) \cup Elements(surviving) \cup UNION {Mine(k) : k \in Checkouts}

Init ==
  /\ pool = << >> /\ in_use = 0 /\ waiters = 0 /\ open = {}
  /\ pc = [k \in Checkouts |-> "idle"]
  /\ got = [k \in Checkouts |-> NoConn]
  /\ is_unpooled = [k \in Checkouts |-> FALSE]
  /\ conn = [k \in Checkouts |-> NoConn]
  /\ unpooled = [k \in Checkouts |-> FALSE]
  /\ replacing = [k \in Checkouts |-> FALSE]
  /\ sweep = "off" /\ surviving = << >>
  /\ losses = 0

Goto(k, label) == pc' = [pc EXCEPT ![k] = label]

-----------------------------------------------------------------------------
(* connection() *)

\* A handler asks for a connection, at the top or while it holds another one.
Begin(k) ==
  /\ pc[k] = "idle"
  /\ Caller[k] # NoCaller => pc[Caller[k]] = "hold"
  /\ Goto(k, "tryGet")
  /\ got' = [got EXCEPT ![k] = NoConn]
  /\ is_unpooled' = [is_unpooled EXCEPT ![k] = FALSE]
  /\ UNCHANGED <<queue, counters, open, wrapper, losses>>

\* The head of the queue becomes the local conn.
TakeHead(k) ==
  /\ pool # << >>
  /\ got' = [got EXCEPT ![k] = Head(pool)]
  /\ pool' = Tail(pool)
  /\ UNCHANGED <<sweep, surviving>>

TryGetSlip(k) ==         \* a connection from the queue is not pinged
  /\ pc[k] = "tryGet"
  /\ \/ TakeHead(k) /\ Goto(k, "count")
     \/ pool = << >> /\ Goto(k, "readInUse") /\ UNCHANGED <<queue, got>>
  /\ UNCHANGED <<is_unpooled, counters, open, wrapper, losses>>

\* self._pool.get_nowait()
TryGet(k) ==
  /\ pc[k] = "tryGet"
  /\ \/ TakeHead(k) /\ Goto(k, "ping")
     \/ pool = << >> /\ Goto(k, "readInUse") /\ UNCHANGED <<queue, got>>
  /\ UNCHANGED <<is_unpooled, counters, open, wrapper, losses>>

\* pool_exhausted is decided under the lock and acted on after it.
ReadInUse(k) ==
  /\ pc[k] = "readInUse"
  /\ Goto(k, IF in_use >= maxsize THEN "enterWait" ELSE "create")
  /\ UNCHANGED <<queue, counters, open, got, is_unpooled, wrapper, losses>>

EnterWait(k) ==
  /\ pc[k] = "enterWait"
  /\ waiters' = waiters + 1
  /\ Goto(k, "wait")
  /\ UNCHANGED <<queue, in_use, open, got, is_unpooled, wrapper, losses>>

WaitGetSlip(k) ==        \* only a timeout lowers waiters
  /\ pc[k] = "wait"
  /\ TakeHead(k) /\ Goto(k, "ping")
  /\ UNCHANGED <<is_unpooled, counters, open, wrapper, losses>>

\* self._pool.get(timeout=self._pool_wait) returns a connection,
WaitGet(k) ==
  /\ pc[k] = "wait"
  /\ TakeHead(k) /\ Goto(k, "leaveWait")
  /\ UNCHANGED <<is_unpooled, counters, open, wrapper, losses>>

WaitTimeoutSlip(k) ==    \* get() without a timeout
  /\ pc[k] = "wait" /\ pool = << >>
  /\ UNCHANGED vars

\* or finds the queue empty when the time is up: a one-off connection.
WaitTimeout(k) ==
  /\ pc[k] = "wait" /\ pool = << >>
  /\ is_unpooled' = [is_unpooled EXCEPT ![k] = TRUE]
  /\ Goto(k, "leaveWait")
  /\ UNCHANGED <<queue, counters, open, got, wrapper, losses>>

LeaveWaitSlip(k) ==      \* lowered twice, and not clamped
  /\ pc[k] = "leaveWait"
  /\ waiters' = waiters - 2
  /\ Goto(k, IF is_unpooled[k] THEN "create" ELSE "ping")
  /\ UNCHANGED <<queue, in_use, open, got, is_unpooled, wrapper, losses>>

LeaveWait(k) ==
  /\ pc[k] = "leaveWait"
  /\ waiters' = IF waiters = 0 THEN 0 ELSE waiters - 1
  /\ Goto(k, IF is_unpooled[k] THEN "create" ELSE "ping")
  /\ UNCHANGED <<queue, in_use, open, got, is_unpooled, wrapper, losses>>

\* ping(reconnect=True) finds the server, over a new socket if it must, or it
\* fails and the connection is dropped.
Ping(k) ==
  /\ pc[k] = "ping"
  /\ \/ open' = open \cup {got[k]} /\ Goto(k, "count") /\ UNCHANGED got
     \/ open' = open \ {got[k]} /\ Goto(k, "create")
        /\ got' = [got EXCEPT ![k] = NoConn]
  /\ UNCHANGED <<queue, counters, is_unpooled, wrapper, losses>>

\* _create_new_connection(), twice if need be.  When both fail the error leaves
\* connection(): a handler ends, _execute_cursor swallows it and goes on with
\* the wrapper it has.
Create(k) ==
  /\ pc[k] = "create"
  /\ \/ \E c \in Conns \ Referenced :
          /\ open' = open \cup {c}
          /\ got' = [got EXCEPT ![k] = c]
          /\ Goto(k, "count")
          /\ UNCHANGED replacing
     \/ /\ Goto(k, IF replacing[k] THEN "hold" ELSE "idle")
        /\ replacing' = [replacing EXCEPT ![k] = FALSE]
        /\ UNCHANGED <<open, got>>
  /\ UNCHANGED <<queue, counters, is_unpooled, conn, unpooled, losses>>

CountSlip(k) ==          \* one-off connections are not counted
  /\ pc[k] = "count"
  /\ in_use' = IF is_unpooled[k] THEN in_use ELSE in_use + 1
  /\ conn' = [conn EXCEPT ![k] = got[k]]
  /\ got' = [got EXCEPT ![k] = NoConn]
  /\ unpooled' = [unpooled EXCEPT ![k] = is_unpooled[k]]
  /\ replacing' = [replacing EXCEPT ![k] = FALSE]
  /\ Goto(k, "hold")
  /\ UNCHANGED <<queue, waiters, open, is_unpooled, losses>>

\* in_use += 1, and the wrapper is made.  A handler works with it; for
\* _execute_cursor its connection moves into the wrapper the handler already
\* has, and the new wrapper is forgotten without having been closed.
Count(k) ==
  /\ pc[k] = "count"
  /\ in_use' = in_use + 1
  /\ conn' = [conn EXCEPT ![k] = got[k]]
  /\ got' = [got EXCEPT ![k] = NoConn]
  /\ unpooled' = [unpooled EXCEPT ![k] = IF replacing[k] THEN @ ELSE is_unpooled[k]]
  /\ replacing' = [replacing EXCEPT ![k] = FALSE]
  /\ Goto(k, "hold")
  /\ UNCHANGED <<queue, waiters, open, is_unpooled, losses>>

-----------------------------------------------------------------------------
(* While a handler holds the connection *)

NoInner(k) == \A i \in Checkouts : Caller[i] = k => pc[i] = "idle"

\* A query fails with 2006 or 2013: _execute_cursor closes the connection and
\* asks for another.
QueryLost(k) ==
  /\ pc[k] = "hold" /\ NoInner(k) /\ conn[k] \in open
  /\ losses < MaxLosses /\ losses' = losses + 1
  /\ open' = open \ {conn[k]}
  /\ replacing' = [replacing EXCEPT ![k] = TRUE]
  /\ is_unpooled' = [is_unpooled EXCEPT ![k] = FALSE]
  /\ Goto(k, "tryGet")
  /\ UNCHANGED <<queue, counters, got, conn, unpooled>>

\* The handler leaves its with block: PooledConnection.close().
Leave(k) ==
  /\ pc[k] = "hold" /\ NoInner(k)
  /\ Goto(k, "decrement")
  /\ UNCHANGED <<queue, counters, open, got, is_unpooled, wrapper, losses>>

\* in_use is lowered before the connection is back in the queue.
Decrement(k) ==
  /\ pc[k] = "decrement"
  /\ in_use' = IF in_use = 0 THEN 0 ELSE in_use - 1
  /\ Goto(k, "giveBack")
  /\ UNCHANGED <<queue, waiters, open, got, is_unpooled, wrapper, losses>>

GiveBackSlip(k) ==       \* the wrapper keeps its reference
  /\ pc[k] = "giveBack"
  /\ IF unpooled[k] \/ Len(pool) >= maxsize
     THEN open' = open \ {conn[k]} /\ UNCHANGED pool
     ELSE pool' = Append(pool, conn[k]) /\ UNCHANGED open
  /\ Goto(k, "idle")
  /\ UNCHANGED <<sweep, surviving, counters, got, is_unpooled, wrapper, losses>>

DropSlip(k) ==           \* a connection the queue has no room for is not closed
  /\ pc[k] = "giveBack"
  /\ IF unpooled[k] THEN open' = open \ {conn[k]} ELSE UNCHANGED open
  /\ pool' = IF unpooled[k] \/ Len(pool) >= maxsize THEN pool ELSE Append(pool, conn[k])
  /\ conn' = [conn EXCEPT ![k] = NoConn]
  /\ Goto(k, "idle")
  /\ UNCHANGED <<sweep, surviving, counters, got, is_unpooled, unpooled, replacing, losses>>

\* put_nowait() raises when the queue is full.
GiveBack(k) ==
  /\ pc[k] = "giveBack"
  /\ IF unpooled[k] \/ Len(pool) >= maxsize
     THEN open' = open \ {conn[k]} /\ UNCHANGED pool
     ELSE pool' = Append(pool, conn[k]) /\ UNCHANGED open
  /\ conn' = [conn EXCEPT ![k] = NoConn]
  /\ Goto(k, "idle")
  /\ UNCHANGED <<sweep, surviving, counters, got, is_unpooled, unpooled, replacing, losses>>

-----------------------------------------------------------------------------
(* sweep_idle_connections: every minute, while the workers go on *)

SweepStart ==
  /\ sweep = "off" /\ sweep' = "take"
  /\ UNCHANGED <<pool, surviving, counters, open, locals, wrapper, losses>>

\* It empties the queue, keeping a connection or closing it for its age.
SweepTake ==
  /\ sweep = "take"
  /\ IF pool = << >>
     THEN sweep' = "put" /\ UNCHANGED <<pool, surviving, open>>
     ELSE /\ pool' = Tail(pool)
          /\ \/ surviving' = Append(surviving, Head(pool)) /\ UNCHANGED open
             \/ open' = open \ {Head(pool)} /\ UNCHANGED surviving
          /\ UNCHANGED sweep
  /\ UNCHANGED <<counters, locals, wrapper, losses>>

\* It puts back what it kept, closing what the queue has no room for.
SweepPut ==
  /\ sweep = "put"
  /\ IF surviving = << >>
     THEN sweep' = "off" /\ UNCHANGED <<pool, surviving, open>>
     ELSE /\ surviving' = Tail(surviving)
          /\ IF Len(pool) >= maxsize
             THEN open' = open \ {Head(surviving)} /\ UNCHANGED pool
             ELSE pool' = Append(pool, Head(surviving)) /\ UNCHANGED open
          /\ UNCHANGED sweep
  /\ UNCHANGED <<counters, locals, wrapper, losses>>

-----------------------------------------------------------------------------
Acquire(k) ==
  \/ TryGet(k) \/ ReadInUse(k) \/ EnterWait(k) \/ WaitGet(k) \/ WaitTimeout(k)
  \/ LeaveWait(k) \/ Ping(k) \/ Create(k) \/ Count(k)

Release(k) == Decrement(k) \/ GiveBack(k)

Next ==
  \/ \E k \in Checkouts : Begin(k) \/ Acquire(k) \/ QueryLost(k) \/ Leave(k) \/ Release(k)
  \/ SweepStart \/ SweepTake \/ SweepPut

Spec == Init /\ [][Next]_vars

\* A thread inside connection() goes on.  Nobody has to ask for a connection, or
\* to give one back.
FairSpec == Spec /\ \A k \in Checkouts : WF_vars(Acquire(k))

-----------------------------------------------------------------------------
(* What the pool guarantees *)

TypeOK ==
  /\ pool \in Seq(Conns) /\ surviving \in Seq(Conns)
  /\ in_use \in Nat /\ waiters \in Nat /\ losses \in Nat
  /\ open \subseteq Conns
  /\ pc \in [Checkouts -> PCs]
  /\ got \in [Checkouts -> Conns \cup {NoConn}]
  /\ conn \in [Checkouts -> Conns \cup {NoConn}]
  /\ is_unpooled \in [Checkouts -> BOOLEAN]
  /\ unpooled \in [Checkouts -> BOOLEAN]
  /\ replacing \in [Checkouts -> BOOLEAN]
  /\ sweep \in {"off", "take", "put"}

Distinct(s) == \A i, j \in DOMAIN s : s[i] = s[j] => i = j

\* No connection is in two hands: two handlers, a handler and the queue, or the
\* sweeper and anyone else.
ExclusiveConnection ==
  /\ Distinct(pool) /\ Distinct(surviving)
  /\ Elements(pool) \cap Elements(surviving) = {}
  /\ \A k \in Checkouts :
       /\ Mine(k) \cap (Elements(pool) \cup Elements(surviving)) = {}
       /\ got[k] = conn[k] => got[k] = NoConn
       /\ \A q \in Checkouts : q # k => Mine(k) \cap Mine(q) = {}

\* No socket is forgotten: whatever is open can still be reached, by a checkout,
\* the queue or the sweeper, and so will be closed or used again.
NoneForgotten == open \subseteq Referenced

\* The queue may hold connections that were closed while a query was replaced;
\* the ping sees to it that no checkout hands one to a handler.
HandedOutOpen == \A k \in Checkouts : pc[k] = "count" => got[k] \in open

\* Whom the counter in_use counts.
Counted == {k \in Checkouts : conn[k] # NoConn /\ pc[k] # "giveBack"}

\* in_use counts each connection a handler has, and no more than one extra for
\* every loss; so the max(0, ...) of close() never hides a missing increment.
InUseAccounted ==
  /\ Cardinality(Counted) <= in_use
  /\ in_use <= Cardinality(Counted) + losses

\* The checkouts between the two locks around the wait.
Waiting == {k \in Checkouts : pc[k] \in {"wait", "leaveWait"}}

\* waiters counts them, so its max(0, ...) never hides a missing increment either.
WaitersExact == waiters = Cardinality(Waiting)

\* The checkouts under way.
Busy == {k \in Checkouts : pc[k] # "idle"}

\* The process has no more open sockets than checkouts under way and idle
\* connections it may keep, those in the hands of the sweeper apart: of the
\* one-off and surplus connections a race or a full queue leaves, none stays open.
SocketsBounded == Cardinality(open) <= maxsize + Len(surviving) + Cardinality(Busy)

\* Every checkout that has begun ends, with a connection or an error, although
\* a handler may hold one connection while it waits for another.
CheckoutEnds == \A k \in Checkouts : pc[k] \in AcquirePCs ~> pc[k] \in {"hold", "idle"}

-----------------------------------------------------------------------------
(* The promise of the component, see ConnectionLending *)

Lending == INSTANCE ConnectionLending WITH
             Borrowers <- Checkouts, free <- Elements(pool) \cup Elements(surviving),
             lent <- [k \in Checkouts |-> Mine(k)], usable <- open

\* Whatever queue, waits, timeouts and replacements do, each step lends, opens,
\* closes or returns one connection, by the one who has it.
ImplementsLending == Lending!Spec

-----------------------------------------------------------------------------
(* What the repository says of the pool, and the code does not keep *)

\* "Number of database connections currently checked out" (app/health.py): when
\* no checkout is under way, the gauge is 0.
GaugeReturnsToZero == (\A k \in Checkouts : pc[k] = "idle") => in_use = 0
=============================================================================
