---------------------------- MODULE LoginLimiter ----------------------------
(***************************************************************************)
(* Logging in with a password: login and emergency_admin_login of          *)
(* app/auth.py, the limit on failed attempts of app/security.py and its    *)
(* table helpdesk_login_attempts.  Several worker processes, each with     *)
(* several threads, share the table; each process keeps a tracker of its   *)
(* own, _FALLBACK_FAILURES, for when the table cannot be read.             *)
(*                                                                         *)
(* Failures are counted before a password is verified and recorded after   *)
(* it, in statements of their own.  Only FAILURE rows of the last          *)
(* LOGIN_WINDOW_MINUTES are ever counted: the others, and SUCCESS rows,    *)
(* are left out, and time is what takes a row out of the window (Expire).  *)
(*                                                                         *)
(* An operator named ...Slip is no part of the specification: it is the    *)
(* operator below it with a plausible mistake, which a run has to notice.  *)
(***************************************************************************)
EXTENDS Naturals, FiniteSets

CONSTANTS
  Accounts,     \* what may be typed as an email, in lower case
  Networks,     \* client addresses
  Workers,      \* worker processes
  Requests,     \* the logins of a behaviour
  Threads,      \* how many are served at a time, over all workers
  MaxUser,      \* LOGIN_MAX_ATTEMPTS_USER
  MaxNetwork,   \* LOGIN_MAX_ATTEMPTS_IP
  MaxLocal,     \* entries of the tracker that lock an account out
  MaxSends,     \* attempts of _execute_cursor
  MaxCrashes,   \* bound on worker crashes
  Forms, Blank  \* what is posted, and the locals of no request

Login == [account : Accounts, network : Networks, worker : Workers,
          right : BOOLEAN,                  \* the password is
          kept : SUBSET Requests,           \* the pruned list of the tracker
          sent : 0 .. MaxSends,             \* times the INSERT was applied
          counted : BOOLEAN,                \* history: admitted by the table
          lost : BOOLEAN,                   \* history: and failed without a row
          cleared : BOOLEAN]                \* history: deleted the failures

ASSUME LimiterConstants ==
  /\ IsFiniteSet(Requests)
  /\ Threads \in Nat /\ MaxLocal \in Nat /\ MaxSends \in Nat /\ MaxCrashes \in Nat
  /\ MaxUser \in Nat \ {0} /\ MaxNetwork \in Nat \ {0}
  /\ Blank \in Login /\ Forms \subseteq Login
  /\ \A f \in Forms \cup {Blank} : f.sent = 0 /\ ~f.counted /\ ~f.lost /\ ~f.cleared

VARIABLES
  failures,  \* FAILURE rows in the window: <<request, which copy>>
  tracker,   \* _FALLBACK_FAILURES of each worker
  pc, job,   \* next step and locals of each login
  ended,     \* history: the logins that had ended when a login began
  gone,      \* history: those let through whose row has aged or been cleared
  crashes

vars == <<failures, tracker, pc, job, ended, gone, crashes>>

EndPCs == {"limited", "unavailable", "rejected", "accepted"}
PCs == {"idle", "countAccount", "countNetwork", "prune", "decide", "verify",
        "trackFailure", "insertFailure", "trackSuccess", "insertSuccess", "clear"} \cup EndPCs

Running(r) == pc[r] \notin EndPCs \cup {"idle"}

\* SELECT COUNT(*) ... WHERE identifier = / ip_address =, over one reading.
OfAccount(a) == {row \in failures : job[row[1]].account = a}
OfNetwork(n) == {row \in failures : job[row[1]].network = n}

\* The entries of one account in the tracker of a worker.
Remembered(w, a) == {q \in tracker[w] : job[q].account = a}

\* The limits, on those counts.
AccountFullSlip(a) == Cardinality(OfAccount(a)) > MaxUser
AccountFull(a) == Cardinality(OfAccount(a)) >= MaxUser
NetworkFullSlip(n) == FALSE
NetworkFull(n) == Cardinality(OfNetwork(n)) >= MaxNetwork

Goto(r, label) == pc' = [pc EXCEPT ![r] = label]
Set(r, j) == job' = [job EXCEPT ![r] = j]

Gone(rows) == gone' = gone \cup {q \in {row[1] : row \in rows} : job[q].counted}

-----------------------------------------------------------------------------
(* check_login_rate_limit.                                                  *)

Arrive(r, f) ==
  /\ pc[r] = "idle" /\ Cardinality({q \in Requests : Running(q)}) < Threads
  /\ Goto(r, "countAccount") /\ Set(r, f)
  /\ ended' = [ended EXCEPT ![r] = {q \in Requests : pc[q] \in EndPCs}]
  /\ UNCHANGED <<failures, tracker, crashes, gone>>

\* A count that cannot be had sends the login to the tracker.
CountAccount(r) ==
  /\ pc[r] = "countAccount"
  /\ Goto(r, IF AccountFull(job[r].account) THEN "limited" ELSE "countNetwork")
     \/ Goto(r, "prune")
  /\ UNCHANGED <<failures, tracker, job, ended, crashes, gone>>

CountNetwork(r) ==
  /\ pc[r] = "countNetwork"
  /\ \/ NetworkFull(job[r].network) /\ Goto(r, "limited") /\ UNCHANGED job
     \/ ~NetworkFull(job[r].network) /\ Goto(r, "verify") /\ Set(r, [job[r] EXCEPT !.counted = TRUE])
     \/ Goto(r, "prune") /\ UNCHANGED job
  /\ UNCHANGED <<failures, tracker, ended, crashes, gone>>

\* The list of the account is read, filtered, and put back: another thread
\* may have appended in between.
Prune(r) ==
  /\ pc[r] = "prune"
  /\ Set(r, [job[r] EXCEPT !.kept = Remembered(job[r].worker, job[r].account)])
  /\ Goto(r, "decide")
  /\ UNCHANGED <<failures, tracker, ended, crashes, gone>>

Decide(r) ==
  /\ pc[r] = "decide"
  /\ LET w == job[r].worker
     IN  tracker' = [tracker EXCEPT ![w] = (@ \ Remembered(w, job[r].account)) \cup job[r].kept]
  /\ Goto(r, IF Cardinality(job[r].kept) >= MaxLocal THEN "limited" ELSE "verify")
  /\ Set(r, [job[r] EXCEPT !.kept = {}])
  /\ UNCHANGED <<failures, ended, crashes, gone>>

-----------------------------------------------------------------------------
(* authenticate_user, and record_login_attempt.                             *)

\* Without a connection it raises; a query of its own that fails counts as a
\* wrong password.
Verify(r) ==
  /\ pc[r] = "verify"
  /\ \/ job[r].right /\ Goto(r, "trackSuccess")
     \/ Goto(r, "trackFailure")
     \/ Goto(r, "unavailable")
  /\ UNCHANGED <<failures, tracker, job, ended, crashes, gone>>

TrackFailure(r) ==
  /\ pc[r] = "trackFailure"
  /\ tracker' = [tracker EXCEPT ![job[r].worker] = @ \cup {r}]
  /\ Goto(r, "insertFailure")
  /\ UNCHANGED <<failures, job, ended, crashes, gone>>

TrackSuccess(r) ==
  /\ pc[r] = "trackSuccess"
  /\ LET w == job[r].worker
     IN  tracker' = [tracker EXCEPT ![w] = @ \ Remembered(w, job[r].account)]
  /\ Goto(r, "insertSuccess")
  /\ UNCHANGED <<failures, job, ended, crashes, gone>>

\* The INSERT is sent up to MaxSends times, and each may have been applied
\* with its answer lost.  An error is logged and the answer is the same.
MaySendSlip(r) == job[r].sent <= MaxSends
MaySend(r) == job[r].sent < MaxSends

InsertFailure(r) ==
  /\ pc[r] = "insertFailure"
  /\ \/ /\ MaySend(r)
        /\ failures' = failures \cup {<<r, job[r].sent + 1>>}
        /\ \/ Set(r, [job[r] EXCEPT !.sent = @ + 1]) /\ UNCHANGED pc
           \/ Set(r, [job[r] EXCEPT !.sent = 0]) /\ Goto(r, "rejected")
     \/ /\ Set(r, [job[r] EXCEPT !.sent = 0, !.lost = job[r].counted /\ job[r].sent = 0])
        /\ Goto(r, "rejected")
        /\ UNCHANGED failures
  /\ UNCHANGED <<tracker, ended, crashes, gone>>

\* The SUCCESS row is inserted first; if that fails the failures stay.
InsertSuccess(r) ==
  /\ pc[r] = "insertSuccess"
  /\ Goto(r, "clear") \/ Goto(r, "accepted")
  /\ UNCHANGED <<failures, tracker, job, ended, crashes, gone>>

\* DELETE ... WHERE identifier = ... AND outcome = 'FAILURE'.
ClearedSlip(r) == {row \in failures : row[1] = r}
Cleared(r) == OfAccount(job[r].account)

Clear(r) ==
  /\ pc[r] = "clear"
  /\ \/ /\ failures' = failures \ Cleared(r) /\ Set(r, [job[r] EXCEPT !.cleared = TRUE])
        /\ Gone(Cleared(r))
     \/ UNCHANGED <<failures, job, gone>>
  /\ Goto(r, "accepted")
  /\ UNCHANGED <<tracker, ended, crashes>>

-----------------------------------------------------------------------------
(* The environment.                                                         *)

\* A row, or an entry of a tracker, gets older than the window; in which
\* order is left open.
Expire ==
  /\ \/ /\ \E row \in failures : failures' = failures \ {row} /\ Gone({row})
        /\ UNCHANGED tracker
     \/ /\ \E w \in Workers : \E q \in tracker[w] : tracker' = [tracker EXCEPT ![w] = @ \ {q}]
        /\ UNCHANGED <<failures, gone>>
  /\ UNCHANGED <<pc, job, ended, crashes>>

\* A worker dies, with its requests and its tracker, and is respawned.
Crash(w) ==
  /\ crashes < MaxCrashes
  /\ crashes' = crashes + 1
  /\ tracker' = [tracker EXCEPT ![w] = {}]
  /\ pc' = [r \in Requests |-> IF Running(r) /\ job[r].worker = w THEN "unavailable" ELSE pc[r]]
  /\ UNCHANGED <<failures, job, ended, gone>>

Init ==
  /\ failures = {} /\ tracker = [w \in Workers |-> {}]
  /\ pc = [r \in Requests |-> "idle"] /\ job = [r \in Requests |-> Blank]
  /\ ended = [r \in Requests |-> {}] /\ gone = {} /\ crashes = 0

Step(r) ==
  \/ CountAccount(r) \/ CountNetwork(r) \/ Prune(r) \/ Decide(r) \/ Verify(r)
  \/ TrackFailure(r) \/ TrackSuccess(r) \/ InsertFailure(r) \/ InsertSuccess(r) \/ Clear(r)

Next ==
  \/ \E r \in Requests : (\E f \in Forms : Arrive(r, f)) \/ Step(r)
  \/ Expire
  \/ \E w \in Workers : Crash(w)

Spec == Init /\ [][Next]_vars

-----------------------------------------------------------------------------
TypeOK ==
  /\ failures \subseteq Requests \X (1 .. MaxSends)
  /\ tracker \in [Workers -> SUBSET Requests]
  /\ pc \in [Requests -> PCs] /\ job \in [Requests -> Login]
  /\ ended \in [Requests -> SUBSET Requests] /\ gone \subseteq Requests
  /\ crashes \in 0 .. MaxCrashes

Recorded(r) == \E n \in 1 .. MaxSends : <<r, n>> \in failures

\* A login that the table let through and that was answered as failed, except one
\* whose INSERT was not applied and one whose row has aged or been cleared since;
\* or one whose row is there though its worker died before it answered.
Standing(r) ==
  /\ job[r].counted
  /\ \/ Recorded(r)
     \/ pc[r] = "rejected" /\ ~job[r].lost /\ r \notin gone

\* However the logins of an account overlap, and on whichever workers, those the
\* table let through and answered as failed are at most MaxUser - 1 in a window, and
\* one more for every login that can be served at a time: the count is read before
\* the password is verified and the failure written after it (app/security.py:60).
\* Not counted, here as in the code, are failures whose INSERT is not applied: it
\* logs the error and answers the same, so of these there may be any number
\* (:171); and those before a success, which clears the account.
AccountIsBounded ==
  \A a \in Accounts :
    Cardinality({r \in Requests : job[r].account = a /\ Standing(r)}) <= MaxUser - 1 + Threads

\* The same of the logins from one address, with the same two exceptions; here
\* it is successes of whichever accounts that clear their rows.
NetworkIsBounded ==
  \A n \in Networks :
    Cardinality({r \in Requests : job[r].network = n /\ Standing(r)})
      <= MaxNetwork - 1 + Threads

\* After a login that deleted the failures of its account, the only ones left
\* are of logins that ran along with it, or began later: no answer that is
\* lost, retry or other worker brings an earlier one back.
SuccessClears ==
  \A r \in Requests : job[r].cleared =>
    \A row \in OfAccount(job[r].account) : row[1] \notin ended[r]
=============================================================================
