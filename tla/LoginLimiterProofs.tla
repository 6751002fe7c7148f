------------------------- MODULE LoginLimiterProofs -------------------------
(***************************************************************************)
(* Proofs about LoginLimiter, for any number of accounts, addresses,       *)
(* workers, logins and threads, and any limits.                            *)
(*                                                                         *)
(* The bounds are on logins that have failed; what is inductive is a bound *)
(* on those and the ones still on their way (Admitted, AdmittedFrom).      *)
(* Only passing the count adds to them: then fewer than the limit have     *)
(* failed, and no more are on their way than are served at a time.  That   *)
(* failures which were answered have left a row is Accounted.              *)
(***************************************************************************)
EXTENDS LoginLimiter, FiniteSetTheorems, FunctionTheorems, TLAPS

-----------------------------------------------------------------------------
(* The inductive invariant.                                                *)

Served == {q \in Requests : Running(q)}

Admitted(a) ==
  {q \in Requests : /\ job[q].account = a
                    /\ \/ pc[q] = "countNetwork"
                       \/ job[q].counted /\ (Running(q) \/ Recorded(q))}
AdmittedFrom(n) ==
  {q \in Requests : job[q].network = n /\ job[q].counted /\ (Running(q) \/ Recorded(q))}

Stages ==
  \A r \in Requests :
    /\ pc[r] \in {"idle", "countAccount", "countNetwork", "prune", "decide"} => ~job[r].counted
    /\ pc[r] = "idle" => ~Recorded(r) /\ ~job[r].cleared

EndedOK == \A q \in Requests : \A s \in ended[q] : pc[s] \in EndPCs

\* A failure the INSERT of which was applied has its row, or had.
Explained(r) ==
  /\ pc[r] \notin {"insertFailure", "unavailable"} => job[r].sent = 0
  /\ /\ job[r].counted
     /\ \/ pc[r] = "insertFailure" /\ job[r].sent # 0
        \/ pc[r] = "rejected" /\ ~job[r].lost
     => Recorded(r) \/ r \in gone

Accounted == \A r \in Requests : Explained(r)

Base == TypeOK /\ Stages /\ EndedOK /\ SuccessClears

Few == /\ Cardinality(Served) <= Threads
       /\ \A a \in Accounts : Cardinality(Admitted(a)) <= MaxUser - 1 + Threads
       /\ \A n \in Networks : Cardinality(AdmittedFrom(n)) <= MaxNetwork - 1 + Threads

IInv == Base /\ Few

-----------------------------------------------------------------------------
LEMMA Finite ==
  ASSUME TypeOK
  PROVE  /\ IsFiniteSet(failures) /\ IsFiniteSet(Served) /\ Cardinality(Served) \in Nat
         /\ \A S \in SUBSET Requests : IsFiniteSet(S) /\ Cardinality(S) \in Nat
<1>1. \A S \in SUBSET Requests : IsFiniteSet(S) /\ Cardinality(S) \in Nat
  BY LimiterConstants, FS_Subset, FS_CardinalityType
<1>2. IsFiniteSet(1 .. MaxSends)
  BY LimiterConstants, FS_Interval
<1>3. IsFiniteSet(Requests \X (1 .. MaxSends))
  BY <1>2, LimiterConstants, FS_Product
<1>4. IsFiniteSet(failures)
  BY <1>3, FS_Subset DEF TypeOK
<1> QED BY <1>1, <1>4 DEF Served

\* A set of rows is at least as large as the set of logins that wrote them.
LEMMA Writers ==
  ASSUME TypeOK, NEW rows \in SUBSET failures, NEW S \in SUBSET Requests,
         \A q \in S : \E row \in rows : row[1] = q
  PROVE  Cardinality(S) <= Cardinality(rows) /\ Cardinality(rows) \in Nat
<1>1. IsFiniteSet(rows)
  BY Finite, FS_Subset
<1> DEFINE kept == {row \in rows : row[1] \in S}
           f == [row \in kept |-> row[1]]
<1>2. kept \in SUBSET rows /\ IsFiniteSet(kept) /\ Cardinality(kept) <= Cardinality(rows)
  BY <1>1, FS_Subset
<1>3. f \in Surjection(kept, S)
  BY DEF Surjection
<1>4. Cardinality(S) <= Cardinality(kept)
  BY <1>2, <1>3, FS_Surjection
<1>5. Cardinality(kept) \in Nat /\ Cardinality(rows) \in Nat /\ Cardinality(S) \in Nat
  BY <1>1, <1>2, Finite, FS_CardinalityType
<1> QED BY <1>2, <1>4, <1>5

\* Fewer than limit have failed, and no more than Threads are on their way.
LEMMA Bounded ==
  ASSUME TypeOK, NEW limit \in Nat \ {0}, NEW rows \in SUBSET failures,
         ~(Cardinality(rows) >= limit), Cardinality(Served) <= Threads,
         NEW S \in SUBSET Requests,
         \A q \in S : Running(q) \/ \E row \in rows : row[1] = q
  PROVE  Cardinality(S) <= limit - 1 + Threads
<1> DEFINE wrote == {q \in S : \E row \in rows : row[1] = q}
<1>1. Cardinality(wrote) <= Cardinality(rows) /\ Cardinality(rows) \in Nat
  <2>1. wrote \in SUBSET Requests /\ \A q \in wrote : \E row \in rows : row[1] = q
    OBVIOUS
  <2> HIDE DEF wrote
  <2> QED BY <2>1, Writers
<1>2. S \in SUBSET (wrote \cup Served)
  BY DEF Served
<1>3. IsFiniteSet(wrote) /\ IsFiniteSet(Served) /\ wrote \in SUBSET Requests
  BY Finite
<1> HIDE DEF wrote
<1>4. /\ IsFiniteSet(wrote \cup Served)
      /\ Cardinality(wrote \cup Served) <= Cardinality(wrote) + Cardinality(Served)
  <2>1. Cardinality(wrote \cup Served) =
           Cardinality(wrote) + Cardinality(Served) - Cardinality(wrote \cap Served)
        /\ IsFiniteSet(wrote \cup Served)
    BY <1>3, FS_Union
  <2>2. Cardinality(wrote \cap Served) \in Nat /\ Cardinality(wrote) \in Nat
        /\ Cardinality(Served) \in Nat
    BY <1>3, Finite
  <2> QED BY <2>1, <2>2
<1>5. Cardinality(S) <= Cardinality(wrote \cup Served)
  BY <1>2, <1>4, FS_Subset
<1>6. Cardinality(S) \in Nat /\ Cardinality(wrote) \in Nat /\ Cardinality(Served) \in Nat
      /\ Cardinality(wrote \cup Served) \in Nat
  BY <1>3, <1>4, Finite, FS_CardinalityType
<1> QED BY <1>1, <1>4, <1>5, <1>6, LimiterConstants

LEMMA Fewer ==
  ASSUME TypeOK, NEW S \in SUBSET Requests, NEW T, T \subseteq S, NEW limit \in Int,
         Cardinality(S) <= limit
  PROVE  Cardinality(T) <= limit
<1>1. Cardinality(T) <= Cardinality(S) /\ Cardinality(T) \in Nat /\ Cardinality(S) \in Nat
  BY Finite, FS_Subset
<1> QED BY <1>1

\* Nobody new is served, and nobody new is admitted beyond the bounds.
LEMMA StaysFew ==
  ASSUME IInv,
         Served' \subseteq Served,
         \A a \in Accounts : Admitted(a)' \subseteq Admitted(a)
                            \/ Cardinality(Admitted(a)') <= MaxUser - 1 + Threads,
         \A n \in Networks : AdmittedFrom(n)' \subseteq AdmittedFrom(n)
                            \/ Cardinality(AdmittedFrom(n)') <= MaxNetwork - 1 + Threads
  PROVE  Few'
<1>1. ASSUME NEW S \in SUBSET Requests, NEW T, T \subseteq S
      PROVE  Cardinality(T) <= Cardinality(S) /\ Cardinality(T) \in Nat /\ Cardinality(S) \in Nat
  BY <1>1, Finite, FS_Subset DEF IInv, Base
<1>2. Cardinality(Served)' <= Threads
  BY <1>1, LimiterConstants DEF IInv, Few, Served
<1>3. ASSUME NEW a \in Accounts
      PROVE  Cardinality(Admitted(a)') <= MaxUser - 1 + Threads
  <2>1. Cardinality(Admitted(a)) <= MaxUser - 1 + Threads /\ Admitted(a) \in SUBSET Requests
    BY DEF IInv, Few, Admitted
  <2>2. CASE Admitted(a)' \subseteq Admitted(a)
    BY <1>1, <2>1, <2>2, LimiterConstants
  <2> QED BY <2>2
<1>4. ASSUME NEW n \in Networks
      PROVE  Cardinality(AdmittedFrom(n)') <= MaxNetwork - 1 + Threads
  <2>1. Cardinality(AdmittedFrom(n)) <= MaxNetwork - 1 + Threads /\ AdmittedFrom(n) \in SUBSET Requests
    BY DEF IInv, Few, AdmittedFrom
  <2>2. CASE AdmittedFrom(n)' \subseteq AdmittedFrom(n)
    BY <1>1, <2>1, <2>2, LimiterConstants
  <2> QED BY <2>2
<1> QED BY <1>2, <1>3, <1>4 DEF Few

-----------------------------------------------------------------------------
(* The steps.                                                              *)

\* A login goes on without being admitted, and may write rows of its own.
LEMMA GoesOn ==
  ASSUME IInv, NEW r \in Requests, Running(r),
         NEW label \in PCs \ {"idle", "countNetwork"}, NEW j \in Login,
         label \in {"countAccount", "prune", "decide"} => ~job[r].counted,
         pc' = [pc EXCEPT ![r] = label], job' = [job EXCEPT ![r] = j],
         j.account = job[r].account, j.network = job[r].network,
         j.counted = job[r].counted, j.cleared = job[r].cleared,
         failures' \subseteq Requests \X (1 .. MaxSends),
         \A row \in failures' : row \in failures \/ row[1] = r,
         tracker' \in [Workers -> SUBSET Requests], ended' = ended, crashes' = crashes /\ gone' \subseteq Requests
  PROVE  IInv'
<1>1. TypeOK /\ pc'[r] = label /\ job'[r] = j
      /\ \A q \in Requests \ {r} : pc'[q] = pc[q] /\ job'[q] = job[q]
  BY DEF IInv, Base, TypeOK
<1>2. TypeOK'
  BY <1>1 DEF TypeOK
<1>3. \A q \in Requests : /\ Running(q)' => Running(q)
                          /\ Recorded(q)' => Recorded(q) \/ q = r
                          /\ job'[q].account = job[q].account /\ job'[q].network = job[q].network
                          /\ job'[q].counted = job[q].counted /\ job'[q].cleared = job[q].cleared
  BY <1>1 DEF Running, Recorded
<1>4. Stages'
  BY <1>1, <1>3 DEF IInv, Base, Stages, Running
<1>5. EndedOK'
  BY <1>1 DEF IInv, Base, EndedOK, TypeOK, Running
<1>6. SuccessClears'
  <2>1. \A q \in Requests : r \notin ended[q]
    BY DEF IInv, Base, EndedOK, Running
  <2>2. \A row \in failures' : row[1] \in Requests
    BY <1>2 DEF TypeOK
  <2> QED BY <1>3, <2>1, <2>2 DEF IInv, Base, SuccessClears, OfAccount
<1>7. Few'
  <2>1. Served' \subseteq Served
    BY <1>1, <1>3 DEF Served, Running, EndPCs
  <2>2. ASSUME NEW a \in Accounts PROVE Admitted(a)' \subseteq Admitted(a)
    BY <1>1, <1>3 DEF Admitted, Running, Recorded, EndPCs
  <2>3. ASSUME NEW n \in Networks PROVE AdmittedFrom(n)' \subseteq AdmittedFrom(n)
    BY <1>1, <1>3 DEF AdmittedFrom, Running, Recorded
  <2> QED BY <2>1, <2>2, <2>3, StaysFew
<1> QED BY <1>2, <1>4, <1>5, <1>6, <1>7 DEF IInv, Base

\* A login that passes a count of the table.
LEMMA GetsThrough ==
  ASSUME IInv, NEW r \in Requests, Running(r),
         NEW label \in PCs \ {"idle"}, NEW j \in Login,
         pc' = [pc EXCEPT ![r] = label], job' = [job EXCEPT ![r] = j],
         label \in {"countNetwork", "verify"}, j.counted <=> label = "verify",
         j.account = job[r].account, j.network = job[r].network, j.cleared = job[r].cleared,
         failures' = failures, tracker' = tracker, ended' = ended, crashes' = crashes /\ gone' \subseteq Requests
  PROVE  /\ Base'
         /\ Served' \subseteq Served
         /\ \A q \in Requests : /\ job'[q].account = job[q].account
                                /\ job'[q].network = job[q].network
                                /\ q # r => pc'[q] = pc[q] /\ job'[q] = job[q]
<1>1. TypeOK /\ pc'[r] = label /\ job'[r] = j
      /\ \A q \in Requests \ {r} : pc'[q] = pc[q] /\ job'[q] = job[q]
  BY DEF IInv, Base, TypeOK
<1>2. TypeOK'
  BY <1>1 DEF TypeOK
<1>3. \A q \in Requests : /\ Running(q)' <=> Running(q)
                          /\ Recorded(q)' <=> Recorded(q)
                          /\ job'[q].account = job[q].account /\ job'[q].network = job[q].network
                          /\ job'[q].cleared = job[q].cleared
  BY <1>1 DEF Running, Recorded, EndPCs
<1>4. Stages'
  BY <1>1, <1>3 DEF IInv, Base, Stages, Running, Recorded
<1>5. EndedOK'
  BY <1>1 DEF IInv, Base, EndedOK, TypeOK, Running
<1>6. SuccessClears'
  BY <1>2, <1>3 DEF IInv, Base, SuccessClears, OfAccount, TypeOK
<1>7. Base'
  BY <1>2, <1>4, <1>5, <1>6 DEF Base
<1>8. Served' \subseteq Served
  BY <1>1, <1>3 DEF Served, Running, EndPCs
<1> QED BY <1>1, <1>3, <1>7, <1>8

LEMMA CountAccountStep == ASSUME IInv, NEW r \in Requests, CountAccount(r) PROVE IInv'
<1>1. /\ TypeOK /\ job[r] \in Login /\ pc[r] = "countAccount" /\ Running(r) /\ ~job[r].counted
      /\ job' = [job EXCEPT ![r] = job[r]]
      /\ failures' = failures /\ tracker' = tracker /\ ended' = ended /\ crashes' = crashes /\ gone' \subseteq Requests
  BY DEF IInv, Base, TypeOK, Stages, CountAccount, Running, EndPCs
<1>2. ASSUME NEW label \in {"limited", "prune"}, Goto(r, label)
      PROVE  IInv'
  <2>1. label \in PCs \ {"idle", "countNetwork"}
    BY DEF PCs, EndPCs
  <2> QED BY <1>1, <1>2, <2>1, GoesOn DEF Goto, TypeOK
<1>3. ASSUME ~AccountFull(job[r].account), Goto(r, "countNetwork")
      PROVE  IInv'
  <2> PICK a0 : a0 = job[r].account
    OBVIOUS
  <2>1. "countNetwork" \in PCs
    BY DEF PCs
  <2>2. /\ Base'
        /\ Served' \subseteq Served
        /\ \A q \in Requests : /\ job'[q].account = job[q].account
                               /\ job'[q].network = job[q].network
                               /\ q # r => pc'[q] = pc[q] /\ job'[q] = job[q]
    BY <1>1, <1>3, <2>1, GetsThrough DEF Goto
  <2>3. job'[r] = job[r] /\ ~job[r].counted
    BY <1>1 DEF TypeOK
  <2>4. ASSUME NEW n \in Networks PROVE AdmittedFrom(n)' \subseteq AdmittedFrom(n)
    BY <1>1, <2>2, <2>3 DEF AdmittedFrom, Running, Recorded, EndPCs
  <2>5. ASSUME NEW a \in Accounts, a # a0
        PROVE  Admitted(a)' \subseteq Admitted(a)
    <3>1. ASSUME NEW q \in Requests, q \in Admitted(a)'
          PROVE  q \in Admitted(a)
      <4>1. q # r
        BY <1>1, <2>2, <2>5, <3>1 DEF Admitted
      <4> QED BY <1>1, <2>2, <3>1, <4>1 DEF Admitted, Running, Recorded
    <3> QED BY <3>1 DEF Admitted
  <2>6. Cardinality(Admitted(a0)') <= MaxUser - 1 + Threads
    <3> DEFINE S == Admitted(a0)'
               rows == OfAccount(a0)
    <3>1. S \in SUBSET Requests /\ rows \in SUBSET failures
      BY DEF Admitted, OfAccount
    <3>2. ASSUME NEW q \in S
          PROVE  Running(q) \/ \E row \in rows : row[1] = q
      <4>1. /\ q \in Requests /\ job[q].account = a0
            /\ Running(q) \/ Recorded(q)
        BY <1>1, <2>2, <2>3 DEF Admitted, Running, Recorded, EndPCs
      <4>2. CASE Recorded(q)
        <5>1. PICK k \in 1 .. MaxSends : <<q, k>> \in failures
          BY <4>2 DEF Recorded
        <5> QED BY <4>1, <5>1 DEF OfAccount
      <4> QED BY <4>1, <4>2
    <3>3. ~(Cardinality(rows) >= MaxUser)
      BY <1>3 DEF AccountFull
    <3>4. Cardinality(Served) <= Threads
      BY DEF IInv, Few
    <3> HIDE DEF S, rows
    <3>5. Cardinality(S) <= MaxUser - 1 + Threads
      BY <1>1, <3>1, <3>2, <3>3, <3>4, Bounded, LimiterConstants
    <3> QED BY <3>5 DEF S
  <2>7. Few'
    BY <2>2, <2>4, <2>5, <2>6, StaysFew
  <2> QED BY <2>2, <2>7 DEF IInv
<1> QED BY <1>1, <1>2, <1>3 DEF CountAccount

LEMMA CountNetworkStep == ASSUME IInv, NEW r \in Requests, CountNetwork(r) PROVE IInv'
<1>1. /\ TypeOK /\ job[r] \in Login /\ pc[r] = "countNetwork" /\ Running(r) /\ ~job[r].counted
      /\ failures' = failures /\ tracker' = tracker /\ ended' = ended /\ crashes' = crashes /\ gone' \subseteq Requests
  BY DEF IInv, Base, TypeOK, Stages, CountNetwork, Running, EndPCs
<1>2. ASSUME NEW label \in {"limited", "prune"}, Goto(r, label), UNCHANGED job
      PROVE  IInv'
  <2>1. label \in PCs \ {"idle", "countNetwork"}
    BY DEF PCs, EndPCs
  <2>2. job' = [job EXCEPT ![r] = job[r]]
    BY <1>1, <1>2 DEF TypeOK
  <2> QED BY <1>1, <1>2, <2>1, <2>2, GoesOn DEF Goto, TypeOK
<1>3. ASSUME ~NetworkFull(job[r].network), Goto(r, "verify"),
             Set(r, [job[r] EXCEPT !.counted = TRUE])
      PROVE  IInv'
  <2> DEFINE j == [job[r] EXCEPT !.counted = TRUE]
  <2> PICK n0 : n0 = job[r].network
    OBVIOUS
  <2>1. /\ "verify" \in PCs \ {"idle"} /\ j \in Login /\ j.counted
        /\ j.account = job[r].account /\ j.network = job[r].network
        /\ j.cleared = job[r].cleared
    BY <1>1 DEF PCs, Login
  <2>2. /\ Base'
        /\ Served' \subseteq Served
        /\ \A q \in Requests : /\ job'[q].account = job[q].account
                               /\ job'[q].network = job[q].network
                               /\ q # r => pc'[q] = pc[q] /\ job'[q] = job[q]
    <3> HIDE DEF j
    <3>1. job' = [job EXCEPT ![r] = j] /\ pc' = [pc EXCEPT ![r] = "verify"]
      BY <1>3 DEF Goto, Set, j
    <3> QED BY <1>1, <2>1, <3>1, GetsThrough
  <2> HIDE DEF j
  <2>7. /\ pc'[r] = "verify" /\ failures' = failures /\ pc[r] = "countNetwork"
        /\ job'[r].network = n0 /\ job[r].network = n0
        /\ \A q \in Requests : /\ job'[q].account = job[q].account
                               /\ job'[q].network = job[q].network
                               /\ q # r => pc'[q] = pc[q] /\ job'[q] = job[q]
    BY <1>1, <1>3, <2>2 DEF Goto, TypeOK
  <2>3. ASSUME NEW a \in Accounts PROVE Admitted(a)' \subseteq Admitted(a)
    <3>1. ASSUME NEW q \in Requests, q \in Admitted(a)'
          PROVE  q \in Admitted(a)
      <4>1. CASE q # r
        <5>1. job'[q] = job[q] /\ pc'[q] = pc[q] /\ failures' = failures
          BY <2>7, <4>1
        <5> QED BY <3>1, <5>1 DEF Admitted, Running, Recorded
      <4>2. CASE q = r
        <5>1. job'[r].account = job[r].account /\ pc[r] = "countNetwork"
          BY <2>7
        <5> QED BY <3>1, <4>2, <5>1 DEF Admitted
      <4> QED BY <4>1, <4>2
    <3> QED BY <3>1 DEF Admitted
  <2>4. ASSUME NEW n \in Networks, n # n0
        PROVE  AdmittedFrom(n)' \subseteq AdmittedFrom(n)
    <3>1. ASSUME NEW q \in Requests, q \in AdmittedFrom(n)'
          PROVE  q \in AdmittedFrom(n)
      <4>1. q # r
        BY <2>7, <2>4, <3>1 DEF AdmittedFrom
      <4>2. job'[q] = job[q] /\ pc'[q] = pc[q] /\ failures' = failures
        BY <2>7, <4>1
      <4> QED BY <3>1, <4>2 DEF AdmittedFrom, Running, Recorded
    <3> QED BY <3>1 DEF AdmittedFrom
  <2>5. Cardinality(AdmittedFrom(n0)') <= MaxNetwork - 1 + Threads
    <3> DEFINE S == AdmittedFrom(n0)'
               rows == OfNetwork(n0)
    <3>1. S \in SUBSET Requests /\ rows \in SUBSET failures
      BY DEF AdmittedFrom, OfNetwork
    <3>2. ASSUME NEW q \in S
          PROVE  Running(q) \/ \E row \in rows : row[1] = q
      <4>1. /\ q \in Requests /\ job[q].network = n0
            /\ Running(q) \/ Recorded(q)
        <5>1. q \in Requests /\ job'[q].network = n0 /\ (q # r => Running(q)' \/ Recorded(q)')
          BY DEF AdmittedFrom
        <5>2. job'[q].network = job[q].network /\ failures' = failures
              /\ (q # r => pc'[q] = pc[q])
          BY <2>7, <5>1
        <5> QED BY <1>1, <5>1, <5>2 DEF Running, Recorded
      <4>2. CASE Recorded(q)
        <5>1. PICK k \in 1 .. MaxSends : <<q, k>> \in failures
          BY <4>2 DEF Recorded
        <5> QED BY <4>1, <5>1 DEF OfNetwork
      <4> QED BY <4>1, <4>2
    <3>3. ~(Cardinality(rows) >= MaxNetwork)
      BY <1>3 DEF NetworkFull
    <3>4. Cardinality(Served) <= Threads
      BY DEF IInv, Few
    <3> HIDE DEF S, rows
    <3>5. Cardinality(S) <= MaxNetwork - 1 + Threads
      BY <1>1, <3>1, <3>2, <3>3, <3>4, Bounded, LimiterConstants
    <3> QED BY <3>5 DEF S
  <2>6. Few'
    BY <2>2, <2>3, <2>4, <2>5, StaysFew
  <2> QED BY <2>2, <2>6 DEF IInv
<1> QED BY <1>1, <1>2, <1>3 DEF CountNetwork

LEMMA PruneStep == ASSUME IInv, NEW r \in Requests, Prune(r) PROVE IInv'
<1> DEFINE j == [job[r] EXCEPT !.kept = Remembered(job[r].worker, job[r].account)]
<1>1. /\ TypeOK /\ job[r] \in Login /\ Running(r) /\ ~job[r].counted /\ failures' = failures
      /\ tracker' \in [Workers -> SUBSET Requests] /\ ended' = ended /\ crashes' = crashes /\ gone' \subseteq Requests
  BY DEF IInv, Base, TypeOK, Stages, Prune, Running, EndPCs
<1>2. Remembered(job[r].worker, job[r].account) \subseteq Requests
  BY <1>1 DEF Remembered, Login, TypeOK
<1>3. /\ "decide" \in PCs \ {"idle", "countNetwork"} /\ j \in Login
      /\ j.account = job[r].account /\ j.network = job[r].network
      /\ j.counted = job[r].counted /\ j.cleared = job[r].cleared
  BY <1>1, <1>2 DEF PCs, Login
<1>4. job' = [job EXCEPT ![r] = j] /\ pc' = [pc EXCEPT ![r] = "decide"]
  BY DEF Prune, Goto, Set
<1> HIDE DEF j
<1> QED BY <1>1, <1>3, <1>4, GoesOn DEF TypeOK

LEMMA DecideStep == ASSUME IInv, NEW r \in Requests, Decide(r) PROVE IInv'
<1> DEFINE j == [job[r] EXCEPT !.kept = {}]
           label == IF Cardinality(job[r].kept) >= MaxLocal THEN "limited" ELSE "verify"
<1>1. /\ TypeOK /\ job[r] \in Login /\ Running(r) /\ failures' = failures
      /\ ended' = ended /\ crashes' = crashes /\ gone' \subseteq Requests
  BY DEF IInv, Base, TypeOK, Decide, Running, EndPCs
<1>2. tracker' \in [Workers -> SUBSET Requests]
  BY <1>1 DEF Decide, TypeOK, Login
<1>3. /\ label \in PCs \ {"idle", "countNetwork"} /\ j \in Login
      /\ label \notin {"countAccount", "prune", "decide"}
      /\ j.account = job[r].account /\ j.network = job[r].network
      /\ j.counted = job[r].counted /\ j.cleared = job[r].cleared
  BY <1>1 DEF PCs, EndPCs, Login
<1>4. job' = [job EXCEPT ![r] = j] /\ pc' = [pc EXCEPT ![r] = label]
  BY DEF Decide, Goto, Set
<1> HIDE DEF j, label
<1> QED BY <1>1, <1>2, <1>3, <1>4, GoesOn DEF TypeOK

\* The steps that leave a login's locals alone.
LEMMA MovesOn ==
  ASSUME IInv, NEW r \in Requests, Running(r),
         NEW label \in PCs \ {"idle", "countAccount", "countNetwork", "prune", "decide"},
         Goto(r, label), tracker' \in [Workers -> SUBSET Requests],
         UNCHANGED <<failures, job, ended, crashes, gone>>
  PROVE  IInv'
<1>1. job[r] \in Login /\ job' = [job EXCEPT ![r] = job[r]] /\ TypeOK
  BY DEF IInv, Base, TypeOK
<1> QED BY <1>1, GoesOn DEF Goto, TypeOK

LEMMA VerifyStep == ASSUME IInv, NEW r \in Requests, Verify(r) PROVE IInv'
<1>1. PICK label \in {"trackSuccess", "trackFailure", "unavailable"} : Goto(r, label)
  BY DEF Verify
<1>2. label \in PCs \ {"idle", "countAccount", "countNetwork", "prune", "decide"}
  BY DEF PCs, EndPCs
<1>3. tracker' \in [Workers -> SUBSET Requests] /\ UNCHANGED <<failures, job, ended, crashes, gone>> /\ Running(r)
  BY DEF Verify, IInv, Base, TypeOK, Running, EndPCs
<1> QED BY <1>1, <1>2, <1>3, MovesOn

LEMMA TrackFailureStep == ASSUME IInv, NEW r \in Requests, TrackFailure(r) PROVE IInv'
<1>1. "insertFailure" \in PCs \ {"idle", "countAccount", "countNetwork", "prune", "decide"}
  BY DEF PCs
<1>2. tracker' \in [Workers -> SUBSET Requests] /\ UNCHANGED <<failures, job, ended, crashes, gone>> /\ Running(r)
  BY DEF TrackFailure, IInv, Base, TypeOK, Running, EndPCs
<1> QED BY <1>1, <1>2, MovesOn DEF TrackFailure

LEMMA TrackSuccessStep == ASSUME IInv, NEW r \in Requests, TrackSuccess(r) PROVE IInv'
<1>1. "insertSuccess" \in PCs \ {"idle", "countAccount", "countNetwork", "prune", "decide"}
  BY DEF PCs
<1>2. tracker' \in [Workers -> SUBSET Requests] /\ UNCHANGED <<failures, job, ended, crashes, gone>> /\ Running(r)
  BY DEF TrackSuccess, IInv, Base, TypeOK, Running, EndPCs
<1> QED BY <1>1, <1>2, MovesOn DEF TrackSuccess

LEMMA InsertSuccessStep == ASSUME IInv, NEW r \in Requests, InsertSuccess(r) PROVE IInv'
<1>1. PICK label \in {"clear", "accepted"} : Goto(r, label)
  BY DEF InsertSuccess
<1>2. label \in PCs \ {"idle", "countAccount", "countNetwork", "prune", "decide"}
  BY DEF PCs, EndPCs
<1>3. tracker' \in [Workers -> SUBSET Requests] /\ UNCHANGED <<failures, job, ended, crashes, gone>> /\ Running(r)
  BY DEF InsertSuccess, IInv, Base, TypeOK, Running, EndPCs
<1> QED BY <1>1, <1>2, <1>3, MovesOn

LEMMA InsertFailureStep == ASSUME IInv, NEW r \in Requests, InsertFailure(r) PROVE IInv'
<1>1. /\ TypeOK /\ job[r] \in Login /\ pc[r] = "insertFailure" /\ Running(r)
      /\ pc' \in {pc, [pc EXCEPT ![r] = "rejected"]}
      /\ tracker' = tracker /\ ended' = ended /\ crashes' = crashes /\ gone' \subseteq Requests
  BY DEF IInv, Base, TypeOK, InsertFailure, Goto, Running, EndPCs
<1>2. PICK label \in {"insertFailure", "rejected"} : pc' = [pc EXCEPT ![r] = label]
  BY <1>1 DEF TypeOK
<1>3. label \in PCs \ {"idle", "countAccount", "countNetwork", "prune", "decide"}
  BY DEF PCs, EndPCs
<1>4. PICK n \in 0 .. MaxSends, b \in BOOLEAN :
        job' = [job EXCEPT ![r] = [job[r] EXCEPT !.sent = n, !.lost = b]]
  <2>1. 0 \in 0 .. MaxSends /\ (MaySend(r) => job[r].sent + 1 \in 0 .. MaxSends)
    BY <1>1, LimiterConstants DEF Login, MaySend
  <2>2. \A k : [job[r] EXCEPT !.sent = k] = [job[r] EXCEPT !.sent = k, !.lost = job[r].lost]
    BY <1>1 DEF Login
  <2>3. job[r].lost \in BOOLEAN /\ (job[r].counted /\ job[r].sent = 0) \in BOOLEAN
    BY <1>1 DEF Login
  <2> QED BY <2>1, <2>2, <2>3 DEF InsertFailure, Set
<1>5. /\ failures' \subseteq Requests \X (1 .. MaxSends)
      /\ \A row \in failures' : row \in failures \/ row[1] = r
  <2>1. MaySend(r) => job[r].sent + 1 \in 1 .. MaxSends
    BY <1>1, LimiterConstants DEF Login, MaySend
  <2> QED BY <1>1, <2>1 DEF InsertFailure, TypeOK
<1> DEFINE j == [job[r] EXCEPT !.sent = n, !.lost = b]
<1>6. /\ j \in Login /\ j.account = job[r].account /\ j.network = job[r].network
      /\ j.counted = job[r].counted /\ j.cleared = job[r].cleared
  BY <1>1 DEF Login
<1> HIDE DEF j
<1>7. job' = [job EXCEPT ![r] = j]
  BY <1>4 DEF j
<1> QED BY <1>1, <1>2, <1>3, <1>5, <1>6, <1>7, GoesOn DEF TypeOK

LEMMA ClearStep == ASSUME IInv, NEW r \in Requests, Clear(r) PROVE IInv'
<1>1. /\ TypeOK /\ job[r] \in Login /\ Running(r) /\ Goto(r, "accepted")
      /\ tracker' \in [Workers -> SUBSET Requests]
      /\ ended' = ended /\ crashes' = crashes /\ gone' \subseteq Requests
  BY DEF IInv, Base, TypeOK, Clear, Cleared, OfAccount, Gone, Running, EndPCs
<1>2. "accepted" \in PCs \ {"idle", "countAccount", "countNetwork", "prune", "decide"}
  BY DEF PCs, EndPCs
<1>3. CASE UNCHANGED <<failures, job, gone>>
  BY <1>1, <1>2, <1>3, MovesOn
<1>4. CASE failures' = failures \ Cleared(r) /\ Set(r, [job[r] EXCEPT !.cleared = TRUE])
  <2>1. /\ pc'[r] = "accepted" /\ job'[r] = [job[r] EXCEPT !.cleared = TRUE]
        /\ \A q \in Requests : q # r => pc'[q] = pc[q] /\ job'[q] = job[q]
    BY <1>1, <1>4 DEF Goto, Set, TypeOK
  <2>2. job'[r] \in Login /\ job'[r].counted = job[r].counted
    BY <1>1, <2>1 DEF Login
  <2>3. \A q \in Requests : job'[q].account = job[q].account /\ job'[q].network = job[q].network
    BY <1>1, <2>1 DEF Login
  <2>4. TypeOK'
    BY <1>1, <1>2, <1>4, <2>2 DEF TypeOK, Goto, Set
  <2>5. \A q \in Requests : Recorded(q)' => Recorded(q)
    BY <1>4 DEF Recorded
  <2>6. Stages'
    BY <2>1, <2>5 DEF IInv, Base, Stages, Recorded
  <2>7. EndedOK'
    BY <1>1, <2>1 DEF IInv, Base, EndedOK, TypeOK, Running, EndPCs
  <2>8. SuccessClears'
    <3> SUFFICES ASSUME NEW q \in Requests, job'[q].cleared,
                        NEW row \in failures', job'[row[1]].account = job'[q].account
                 PROVE  row[1] \notin ended[q]
      BY <1>1 DEF SuccessClears, OfAccount
    <3>1. row \in failures /\ row[1] \in Requests /\ row \notin Cleared(r)
      BY <1>4, <2>4 DEF TypeOK
    <3>2. job[row[1]].account = job[q].account
      BY <2>3, <3>1
    <3>3. q # r
      BY <3>1, <3>2 DEF Cleared, OfAccount
    <3> QED BY <2>1, <3>1, <3>2, <3>3 DEF IInv, Base, SuccessClears, OfAccount
  <2>9. Few'
    <3>1. Served' \subseteq Served
      BY <1>1, <2>1 DEF Served, Running, EndPCs
    <3>2. ASSUME NEW a \in Accounts PROVE Admitted(a)' \subseteq Admitted(a)
      <4>1. ASSUME NEW q \in Requests, q \in Admitted(a)' PROVE q \in Admitted(a)
        BY <1>1, <2>1, <2>2, <2>3, <2>5, <4>1 DEF Admitted, Running, Recorded, EndPCs
      <4> QED BY <4>1 DEF Admitted
    <3>3. ASSUME NEW n \in Networks PROVE AdmittedFrom(n)' \subseteq AdmittedFrom(n)
      <4>1. ASSUME NEW q \in Requests, q \in AdmittedFrom(n)' PROVE q \in AdmittedFrom(n)
        BY <1>1, <2>1, <2>2, <2>3, <2>5, <4>1 DEF AdmittedFrom, Running, Recorded, EndPCs
      <4> QED BY <4>1 DEF AdmittedFrom
    <3> QED BY <3>1, <3>2, <3>3, StaysFew
  <2> QED BY <2>4, <2>6, <2>7, <2>8, <2>9 DEF IInv, Base
<1> QED BY <1>3, <1>4 DEF Clear

\* Rows go, and logins end, on their own.
LEMMA Fades ==
  ASSUME IInv, failures' \subseteq failures, tracker' \in [Workers -> SUBSET Requests],
         pc' \in [Requests -> PCs], job' = job, ended' = ended, crashes' \in 0 .. MaxCrashes,
         gone' \subseteq Requests,
         \A q \in Requests : pc'[q] = pc[q] \/ (Running(q) /\ pc'[q] = "unavailable")
  PROVE  IInv'
<1>1. TypeOK'
  BY DEF IInv, Base, TypeOK
<1>2. \A q \in Requests : /\ Recorded(q)' => Recorded(q)
                          /\ Running(q)' => Running(q)
  BY DEF Recorded, Running, EndPCs
<1>3. Stages'
  BY <1>2 DEF IInv, Base, Stages, Recorded
<1>4. EndedOK'
  BY DEF IInv, Base, EndedOK, TypeOK, Running, EndPCs
<1>5. SuccessClears'
  BY DEF IInv, Base, SuccessClears, OfAccount
<1>6. Few'
  <2>1. Served' \subseteq Served
    BY DEF Served, Running, EndPCs
  <2>2. ASSUME NEW a \in Accounts PROVE Admitted(a)' \subseteq Admitted(a)
    <3>1. ASSUME NEW q \in Requests, q \in Admitted(a)' PROVE q \in Admitted(a)
      BY <3>1 DEF Admitted, Running, Recorded, EndPCs
    <3> QED BY <3>1 DEF Admitted
  <2>3. ASSUME NEW n \in Networks PROVE AdmittedFrom(n)' \subseteq AdmittedFrom(n)
    <3>1. ASSUME NEW q \in Requests, q \in AdmittedFrom(n)' PROVE q \in AdmittedFrom(n)
      BY <3>1 DEF AdmittedFrom, Running, Recorded, EndPCs
    <3> QED BY <3>1 DEF AdmittedFrom
  <2> QED BY <2>1, <2>2, <2>3, StaysFew
<1> QED BY <1>1, <1>3, <1>4, <1>5, <1>6 DEF IInv, Base

LEMMA ExpireStep == ASSUME IInv, Expire PROVE IInv'
<1>1. TypeOK /\ pc' = pc /\ job' = job /\ ended' = ended /\ crashes' = crashes
  BY DEF IInv, Base, Expire
<1>2. failures' \subseteq failures /\ tracker' \in [Workers -> SUBSET Requests]
  BY <1>1 DEF Expire, TypeOK
<1>4. gone' \subseteq Requests
  BY <1>1 DEF Expire, Gone, TypeOK
<1>3. /\ pc' \in [Requests -> PCs] /\ crashes' \in 0 .. MaxCrashes
      /\ \A q \in Requests : pc'[q] = pc[q] \/ (Running(q) /\ pc'[q] = "unavailable")
  BY <1>1 DEF TypeOK
<1> QED BY <1>1, <1>2, <1>3, <1>4, Fades

LEMMA CrashStep == ASSUME IInv, NEW w \in Workers, Crash(w) PROVE IInv'
<1>1. /\ TypeOK /\ job' = job /\ ended' = ended /\ failures' = failures
      /\ crashes' \in 0 .. MaxCrashes /\ gone' \subseteq Requests
  BY LimiterConstants DEF IInv, Base, Crash, TypeOK
<1>2. tracker' \in [Workers -> SUBSET Requests] /\ pc' \in [Requests -> PCs]
  BY <1>1 DEF Crash, TypeOK, PCs, EndPCs
<1>3. \A q \in Requests : pc'[q] = pc[q] \/ (Running(q) /\ pc'[q] = "unavailable")
  <2> SUFFICES ASSUME NEW q \in Requests, pc'[q] # pc[q]
               PROVE  Running(q) /\ pc'[q] = "unavailable"
    OBVIOUS
  <2>1. pc'[q] = IF Running(q) /\ job[q].worker = w THEN "unavailable" ELSE pc[q]
    BY DEF Crash
  <2> QED BY <2>1
<1> QED BY <1>1, <1>2, <1>3, Fades

LEMMA ArriveStep == ASSUME IInv, NEW r \in Requests, NEW f \in Forms, Arrive(r, f) PROVE IInv'
<1>1. /\ TypeOK /\ pc[r] = "idle" /\ f \in Login /\ ~f.counted /\ ~f.cleared
      /\ ~Recorded(r) /\ Cardinality(Served) < Threads
      /\ failures' = failures /\ tracker' = tracker /\ crashes' = crashes /\ gone' \subseteq Requests
  BY LimiterConstants DEF IInv, Base, Arrive, Stages, Served, TypeOK
<1>2. /\ pc'[r] = "countAccount" /\ job'[r] = f
      /\ \A q \in Requests : q # r => pc'[q] = pc[q] /\ job'[q] = job[q] /\ ended'[q] = ended[q]
      /\ ended'[r] = {q \in Requests : pc[q] \in EndPCs}
  BY <1>1 DEF Arrive, Goto, Set, TypeOK
<1>3. TypeOK'
  BY <1>1 DEF Arrive, Goto, Set, TypeOK, PCs
<1>4. Stages'
  BY <1>1, <1>2 DEF IInv, Base, Stages, Recorded
<1>5. EndedOK'
  BY <1>1, <1>2 DEF IInv, Base, EndedOK, TypeOK, EndPCs
<1>6. SuccessClears'
  <2> SUFFICES ASSUME NEW q \in Requests, job'[q].cleared,
                      NEW row \in failures', job'[row[1]].account = job'[q].account
               PROVE  row[1] \notin ended'[q]
    BY DEF SuccessClears, OfAccount
  <2>1. q # r
    BY <1>1, <1>2
  <2>2. row \in failures /\ row[1] \in Requests /\ row[1] # r
    BY <1>1 DEF TypeOK, Recorded
  <2> QED BY <1>2, <2>1, <2>2 DEF IInv, Base, SuccessClears, OfAccount
<1>7. ASSUME NEW a \in Accounts PROVE Admitted(a)' \subseteq Admitted(a)
  <2>1. ASSUME NEW q \in Requests, q \in Admitted(a)' PROVE q \in Admitted(a)
    BY <1>1, <1>2, <2>1 DEF Admitted, Running, Recorded, EndPCs
  <2> QED BY <2>1 DEF Admitted
<1>8. ASSUME NEW n \in Networks PROVE AdmittedFrom(n)' \subseteq AdmittedFrom(n)
  <2>1. ASSUME NEW q \in Requests, q \in AdmittedFrom(n)' PROVE q \in AdmittedFrom(n)
    BY <1>1, <1>2, <2>1 DEF AdmittedFrom, Running, Recorded, EndPCs
  <2> QED BY <2>1 DEF AdmittedFrom
<1>9. Cardinality(Served') <= Threads
  <2>1. Served' = Served \cup {r} /\ r \notin Served
    BY <1>1, <1>2 DEF Served, Running, EndPCs
  <2>2. Cardinality(Served') = Cardinality(Served) + 1
    BY <1>1, <2>1, Finite, FS_AddElement
  <2> QED BY <1>1, <2>2, Finite, LimiterConstants
<1>10. Few'
  <2>1. ASSUME NEW S \in SUBSET Requests, NEW T, T \subseteq S
        PROVE  Cardinality(T) <= Cardinality(S) /\ Cardinality(T) \in Nat /\ Cardinality(S) \in Nat
    BY <1>1, <2>1, Finite, FS_Subset
  <2>2. ASSUME NEW a \in Accounts PROVE Cardinality(Admitted(a)') <= MaxUser - 1 + Threads
    <3>1. Cardinality(Admitted(a)) <= MaxUser - 1 + Threads /\ Admitted(a) \in SUBSET Requests
      BY DEF IInv, Few, Admitted
    <3> QED BY <1>7, <2>1, <3>1, LimiterConstants
  <2>3. ASSUME NEW n \in Networks PROVE Cardinality(AdmittedFrom(n)') <= MaxNetwork - 1 + Threads
    <3>1. Cardinality(AdmittedFrom(n)) <= MaxNetwork - 1 + Threads /\ AdmittedFrom(n) \in SUBSET Requests
      BY DEF IInv, Few, AdmittedFrom
    <3> QED BY <1>8, <2>1, <3>1, LimiterConstants
  <2> QED BY <1>9, <2>2, <2>3 DEF Few
<1> QED BY <1>3, <1>4, <1>5, <1>6, <1>10 DEF IInv, Base

-----------------------------------------------------------------------------
(* The theorems.                                                           *)

LEMMA Initially == Init => IInv
<1> SUFFICES ASSUME Init PROVE IInv
  OBVIOUS
<1>1. \A q \in Requests : pc[q] = "idle" /\ job[q] = Blank /\ ended[q] = {}
  BY DEF Init
<1>2. ~Blank.counted /\ ~Blank.cleared
  BY LimiterConstants
<1>3. TypeOK
  BY LimiterConstants DEF Init, TypeOK, PCs
<1>4. Base
  BY <1>1, <1>2, <1>3 DEF Base, Stages, EndedOK, SuccessClears, Recorded, Init
<1>5. /\ Served = {}
      /\ \A a \in Accounts : Admitted(a) = {}
      /\ \A n \in Networks : AdmittedFrom(n) = {}
  BY <1>1, <1>2 DEF Served, Admitted, AdmittedFrom, Running
<1>6. Few
  <2>1. Cardinality({}) = 0
    BY FS_EmptySet
  <2>2. 0 <= Threads /\ 0 <= MaxUser - 1 + Threads /\ 0 <= MaxNetwork - 1 + Threads
    BY LimiterConstants
  <2> QED BY <1>5, <2>1, <2>2 DEF Few
<1> QED BY <1>4, <1>6 DEF IInv

LEMMA Inductive == IInv /\ [Next]_vars => IInv'
<1> SUFFICES ASSUME IInv, [Next]_vars PROVE IInv'
  OBVIOUS
<1>1. ASSUME NEW r \in Requests, NEW f \in Forms, Arrive(r, f) PROVE IInv'
  BY <1>1, ArriveStep
<1>2. ASSUME NEW r \in Requests, Step(r) PROVE IInv'
  BY <1>2, CountAccountStep, CountNetworkStep, PruneStep, DecideStep, VerifyStep,
     TrackFailureStep, TrackSuccessStep, InsertFailureStep, InsertSuccessStep, ClearStep
     DEF Step
<1>3. ASSUME Expire PROVE IInv'
  BY <1>3, ExpireStep
<1>4. ASSUME NEW w \in Workers, Crash(w) PROVE IInv'
  BY <1>4, CrashStep
<1>5. ASSUME UNCHANGED vars PROVE IInv'
  <2>1. TypeOK /\ \A q \in Requests : pc'[q] = pc[q] \/ (Running(q) /\ pc'[q] = "unavailable")
    BY <1>5 DEF IInv, Base, vars
  <2> QED BY <1>5, <2>1, Fades DEF vars, TypeOK
<1> QED BY <1>1, <1>2, <1>3, <1>4, <1>5 DEF Next

\* A row goes only with a note in gone, if its login was let through.
LEMMA RowsGo ==
  ASSUME TypeOK, Next
  PROVE  /\ gone \subseteq gone'
         /\ \A q \in Requests : job[q].counted /\ Recorded(q) => Recorded(q)' \/ q \in gone'
<1>1. CASE failures \subseteq failures' /\ gone' = gone
  BY <1>1 DEF Recorded
<1>2. ASSUME NEW rows, failures' = failures \ rows, Gone(rows)
      PROVE  /\ gone \subseteq gone'
             /\ \A q \in Requests : job[q].counted /\ Recorded(q) => Recorded(q)' \/ q \in gone'
  BY <1>2 DEF Recorded, Gone
<1>3. ASSUME NEW r \in Requests, Clear(r), ~UNCHANGED <<failures, gone>>
      PROVE  failures' = failures \ Cleared(r) /\ Gone(Cleared(r))
  BY <1>3 DEF Clear
<1>4. CASE Expire
  <2>1. CASE failures' = failures /\ gone' = gone
    BY <1>1, <2>1
  <2>2. CASE \E row \in failures : failures' = failures \ {row} /\ Gone({row})
    BY <1>2, <2>2
  <2> QED BY <1>4, <2>1, <2>2 DEF Expire
<1>5. ASSUME NEW r \in Requests, NEW f \in Forms, Arrive(r, f)
      PROVE  failures \subseteq failures' /\ gone' = gone
  BY <1>5 DEF Arrive
<1>6. ASSUME NEW r \in Requests, Step(r), ~Clear(r)
      PROVE  failures \subseteq failures' /\ gone' = gone
  BY <1>6 DEF Step, CountAccount, CountNetwork, Prune, Decide, Verify, TrackFailure,
              TrackSuccess, InsertFailure, InsertSuccess
<1>7. ASSUME NEW w \in Workers, Crash(w)
      PROVE  failures \subseteq failures' /\ gone' = gone
  BY <1>7 DEF Crash
<1>8. ASSUME NEW r \in Requests, Clear(r)
      PROVE  /\ gone \subseteq gone'
             /\ \A q \in Requests : job[q].counted /\ Recorded(q) => Recorded(q)' \/ q \in gone'
  <2>1. CASE UNCHANGED <<failures, gone>>
    BY <1>1, <2>1
  <2>2. CASE ~UNCHANGED <<failures, gone>>
    BY <1>2, <1>3, <1>8, <2>2
  <2> QED BY <2>1, <2>2
<1> QED BY <1>1, <1>4, <1>5, <1>6, <1>7, <1>8 DEF Next

\* A login that does not come to, or go on in, the INSERT of a failure.
LEMMA Elsewhere ==
  ASSUME TypeOK, Next, Accounted, NEW q \in Requests,
         \/ pc'[q] = pc[q] /\ job'[q] = job[q]
         \/ /\ pc'[q] \notin {"insertFailure", "rejected"}
            /\ pc'[q] = "unavailable" \/ job'[q].sent = 0
         \/ pc'[q] = "insertFailure" /\ job'[q].sent = 0
  PROVE  Explained(q)'
<1>1. CASE pc'[q] = pc[q] /\ job'[q] = job[q]
  <2>1. Explained(q)
    BY DEF Accounted
  <2>2. job'[q].counted = job[q].counted /\ job'[q].sent = job[q].sent /\ job'[q].lost = job[q].lost
    BY <1>1
  <2> QED BY <1>1, <2>1, <2>2, RowsGo DEF Explained
<1> QED BY <1>1 DEF Explained

LEMMA AccountedStep == TypeOK /\ Accounted /\ [Next]_vars => Accounted'
<1> SUFFICES ASSUME TypeOK, Accounted, [Next]_vars, NEW q \in Requests
             PROVE  Explained(q)'
  BY DEF Accounted
<1>0. pc \in [Requests -> PCs] /\ job \in [Requests -> Login] /\ Explained(q)
  BY DEF TypeOK, Accounted
<1>1. ASSUME NEW r \in Requests, NEW f \in Forms, Arrive(r, f)
      PROVE  Explained(q)'
  <2>1. Next
    BY <1>1 DEF Next
  <2>2. CASE q = r
    <3>1. pc'[q] = "countAccount" /\ job'[q] = f /\ f.sent = 0
      BY <1>0, <1>1, <2>2, LimiterConstants DEF Arrive, Goto, Set
    <3> QED BY <2>1, <3>1, Elsewhere
  <2>3. CASE q # r
    BY <1>0, <1>1, <2>1, <2>3, Elsewhere DEF Arrive, Goto, Set
  <2> QED BY <2>2, <2>3
<1>2. ASSUME NEW r \in Requests, Step(r)
      PROVE  Explained(q)'
  <2>1. Next
    BY <1>2 DEF Next
  <2>2. CASE q # r
    <3>1. pc'[q] = pc[q] /\ job'[q] = job[q]
      BY <1>0, <1>2, <2>2
         DEF Step, CountAccount, CountNetwork, Prune, Decide, Verify, TrackFailure, TrackSuccess,
             InsertFailure, InsertSuccess, Clear, Goto, Set
    <3> QED BY <2>1, <3>1, Elsewhere
  <2>3. CASE q = r /\ InsertFailure(q)
    <3>1. job[q] \in Login /\ pc[q] = "insertFailure"
      BY <1>0, <2>3 DEF InsertFailure
    <3>2. CASE MaySend(q) /\ failures' = failures \cup {<<q, job[q].sent + 1>>}
      <4>1. job[q].sent + 1 \in 1 .. MaxSends
        BY <3>1, <3>2, LimiterConstants DEF MaySend, Login
      <4>2. Recorded(q)'
        BY <3>2, <4>1 DEF Recorded
      <4>3. CASE UNCHANGED pc
        BY <3>1, <4>2, <4>3 DEF Explained
      <4>4. CASE \E j \in {[job[q] EXCEPT !.sent = 0],
                          [job[q] EXCEPT !.sent = 0, !.lost = job[q].counted /\ job[q].sent = 0]} :
                   Set(q, j) /\ Goto(q, "rejected")
        <5>1. pc'[q] = "rejected"
          BY <1>0, <4>4 DEF Goto
        <5>2. PICK j \in {[job[q] EXCEPT !.sent = 0],
                          [job[q] EXCEPT !.sent = 0, !.lost = job[q].counted /\ job[q].sent = 0]} :
                job'[q] = j
          BY <1>0, <4>4 DEF Set
        <5>3. j.sent = 0
          BY <3>1, <5>2 DEF Login
        <5> QED BY <4>2, <5>1, <5>2, <5>3 DEF Explained
      <4> QED BY <2>3, <4>3, <4>4 DEF InsertFailure
    <3>3. CASE /\ Set(q, [job[q] EXCEPT !.sent = 0, !.lost = job[q].counted /\ job[q].sent = 0])
               /\ Goto(q, "rejected") /\ UNCHANGED failures
      <4>1. /\ job'[q] = [job[q] EXCEPT !.sent = 0, !.lost = job[q].counted /\ job[q].sent = 0]
            /\ pc'[q] = "rejected"
        BY <1>0, <3>3 DEF Set, Goto
      <4>2. /\ job'[q].counted = job[q].counted /\ job'[q].sent = 0
            /\ job'[q].lost = (job[q].counted /\ job[q].sent = 0)
        BY <3>1, <4>1 DEF Login
      <4>3. job[q].counted /\ job[q].sent # 0 => Recorded(q)' \/ q \in gone'
        BY <1>0, <2>1, <3>1, RowsGo DEF Explained
      <4> QED BY <4>1, <4>2, <4>3 DEF Explained
    <3> QED BY <2>3, <3>2, <3>3 DEF InsertFailure
  <2>4. CASE q = r /\ ~InsertFailure(q)
    <3>1. /\ pc[q] \notin {"insertFailure", "unavailable"} /\ job[q] \in Login
      BY <1>0, <1>2, <2>4
         DEF Step, CountAccount, CountNetwork, Prune, Decide, Verify, TrackFailure, TrackSuccess,
             InsertSuccess, Clear
    <3>2. job[q].sent = 0
      BY <1>0, <3>1 DEF Explained
    <3>3. job'[q].sent = job[q].sent
      BY <1>0, <1>2, <2>4, <3>1
         DEF Step, CountAccount, CountNetwork, Prune, Decide, Verify, TrackFailure, TrackSuccess,
             InsertSuccess, Clear, Set, Login
    <3>4. pc'[q] # "rejected"
      BY <1>0, <1>2, <2>4
         DEF Step, CountAccount, CountNetwork, Prune, Decide, Verify, TrackFailure, TrackSuccess,
             InsertSuccess, Clear, Goto
    <3> QED BY <2>1, <3>2, <3>3, <3>4, Elsewhere
  <2> QED BY <2>2, <2>3, <2>4
<1>3. CASE Expire
  <2>1. Next /\ pc'[q] = pc[q] /\ job'[q] = job[q]
    BY <1>3 DEF Next, Expire
  <2> QED BY <2>1, Elsewhere
<1>4. ASSUME NEW w \in Workers, Crash(w)
      PROVE  Explained(q)'
  <2>1. Next
    BY <1>4 DEF Next
  <2>2. job'[q] = job[q] /\ (pc'[q] = pc[q] \/ pc'[q] = "unavailable")
    BY <1>4 DEF Crash
  <2> QED BY <2>1, <2>2, Elsewhere
<1>5. CASE UNCHANGED vars
  BY <1>0, <1>5 DEF vars, Explained, Recorded
<1> QED BY <1>1, <1>2, <1>3, <1>4, <1>5 DEF Next

LEMMA Always == Spec => []IInv
BY Initially, Inductive, PTL DEF Spec

\* So the failures that stand are those with a row.
LEMMA AlwaysAccounted == Spec => [](IInv /\ Accounted)
<1>1. Init => Accounted
  BY LimiterConstants DEF Init, Accounted, Explained
<1>2. IInv /\ Accounted /\ [Next]_vars => Accounted'
  BY AccountedStep DEF IInv, Base
<1> QED BY Initially, Inductive, <1>1, <1>2, PTL DEF Spec

LEMMA StandingHasRow ==
  ASSUME Accounted, NEW r \in Requests, Standing(r)
  PROVE  job[r].counted /\ Recorded(r)
BY DEF Accounted, Explained, Standing

\* Every variable and local keeps its type; in particular no failed login is
\* recorded more often than _execute_cursor sends its INSERT.
THEOREM TypeCorrect == Spec => []TypeOK
<1>1. IInv => TypeOK
  BY DEF IInv, Base
<1> QED BY Always, <1>1, PTL

\* check_login_rate_limit counts before the password is verified: however
\* many logins overlap, an account sees at most one failure too many for each
\* of them, beside those whose INSERT fails, which count for nobody.
THEOREM AccountBound == Spec => []AccountIsBounded
<1>1. IInv /\ Accounted => AccountIsBounded
  <2> SUFFICES ASSUME IInv, Accounted, NEW a \in Accounts
               PROVE  Cardinality({r \in Requests : job[r].account = a /\ Standing(r)})
                        <= MaxUser - 1 + Threads
    BY DEF AccountIsBounded
  <2> DEFINE T == {r \in Requests : job[r].account = a /\ Standing(r)}
  <2>1. Admitted(a) \in SUBSET Requests /\ T \subseteq Admitted(a)
    BY StandingHasRow DEF Admitted
  <2>2. Cardinality(Admitted(a)) <= MaxUser - 1 + Threads /\ MaxUser - 1 + Threads \in Int
    BY LimiterConstants DEF IInv, Few
  <2> HIDE DEF T
  <2>3. Cardinality(T) <= MaxUser - 1 + Threads
    BY <2>1, <2>2, Fewer DEF IInv, Base
  <2> QED BY <2>3 DEF T
<1> QED BY AlwaysAccounted, <1>1, PTL

\* The same for the logins from one address, with the same exception.
THEOREM NetworkBound == Spec => []NetworkIsBounded
<1>1. IInv /\ Accounted => NetworkIsBounded
  <2> SUFFICES ASSUME IInv, Accounted, NEW n \in Networks
               PROVE  Cardinality({r \in Requests : job[r].network = n /\ Standing(r)})
                        <= MaxNetwork - 1 + Threads
    BY DEF NetworkIsBounded
  <2> DEFINE T == {r \in Requests : job[r].network = n /\ Standing(r)}
  <2>1. AdmittedFrom(n) \in SUBSET Requests /\ T \subseteq AdmittedFrom(n)
    BY StandingHasRow DEF AdmittedFrom
  <2>2. Cardinality(AdmittedFrom(n)) <= MaxNetwork - 1 + Threads /\ MaxNetwork - 1 + Threads \in Int
    BY LimiterConstants DEF IInv, Few
  <2> HIDE DEF T
  <2>3. Cardinality(T) <= MaxNetwork - 1 + Threads
    BY <2>1, <2>2, Fewer DEF IInv, Base
  <2> QED BY <2>3 DEF T
<1> QED BY AlwaysAccounted, <1>1, PTL

\* A login that deleted the failures of its account leaves none of a login
\* that had ended before it began, whatever is retried or answered late.
THEOREM ClearsForGood == Spec => []SuccessClears
<1>1. IInv => SuccessClears
  BY DEF IInv, Base
<1> QED BY Always, <1>1, PTL
=============================================================================
