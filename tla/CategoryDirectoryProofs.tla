---------------------- MODULE CategoryDirectoryProofs ----------------------
(***************************************************************************)
(* Proofs about CategoryDirectory, for any number of requests, users,      *)
(* categories and threads.                                                 *)
(*                                                                         *)
(* What a handler reads goes stale, but what it writes carries its name:   *)
(* Signed(r) says that a step of r leaves behind only rows that were there *)
(* and rows of r, and r has not ended, so it is in no Before(q) (EndedOK). *)
(* A fact about the rows of Before(q) can thus be spoilt only by q (lemma  *)
(* OthersProgress), and Progress(q) says which of them hold at each of its *)
(* statements.  What an assignment has made is followed the same way: a    *)
(* step of another request takes it away only if r met it (OthersKept).    *)
(***************************************************************************)
EXTENDS CategoryDirectory, TLAPS

LEMMA Bounds == ASSUME NEW r \in Requests PROVE r # Seeded /\ r \in Cats /\ r \in Authors
  BY DirectoryConstants DEF Cats, Authors

-----------------------------------------------------------------------------
(* The inductive invariant.                                                *)

\* What kind of request is at a statement, and whom it names.
StageOK(r) ==
  /\ pc[r] # "idle" => /\ job[r].kind \in Single => \E c \in Cats : job[r].cats = {c}
                       /\ job[r].who = Keep => job[r].kind = "edit"
                       /\ job[r].who = NoOne => job[r].kind \notin {"assign", "map", "setDefault",
                                          "bulkAssign", "remove", "unmapOne", "user", "deleteUser"}
  /\ pc[r] \in {"check", "promote"} => job[r].kind \in Appointing /\ job[r].who \in People
  /\ pc[r] = "lookup" => job[r].kind \in {"assign", "setDefault"}
  /\ pc[r] = "seek" => job[r].kind \in {"assign", "map", "create", "edit"}
  /\ pc[r] = "insertMapping" => /\ job[r].kind \in {"assign", "map", "create", "edit"}
                                /\ Appointee(r) \in People
  /\ pc[r] = "setDefaults" => job[r].kind \in {"assign", "bulkAssign", "bulkRemove"}
  /\ pc[r] = "overwrite" => job[r].kind \in {"edit", "setDefault"}
  /\ pc[r] = "insertCategory" => job[r].kind = "create"
  /\ pc[r] = "reactivate" => job[r].kind = "create"
  /\ pc[r] = "setActive" => job[r].kind \in {"bulkToggle", "toggle"}
  /\ pc[r] = "writeUser" => job[r].kind = "user"
  /\ pc[r] \in {"unmap", "seeDefault", "seeOther", "elect"} =>
       \/ job[r].kind = "remove"
       \/ job[r].kind = "user" /\ job[r].saw
  /\ pc[r] = "elect" => job[r].cat \in job[r].queue
  /\ pc[r] = "unmapOne" => job[r].kind = "unmapOne"
  /\ pc[r] \in {"findTickets", "dropCategory"} => job[r].kind = "drop"
  /\ pc[r] \in {"countDefaults", "countMappings", "countTickets", "retire"} =>
       job[r].kind = "deleteUser"
  /\ pc[r] \in {"route", "insertTicket"} => job[r].kind = "ticket"
  /\ pc[r] = "insertTicket" => job[r].seen \in People

Stages == \A r \in Requests : StageOK(r)

\* Requests that had ended when another began have ended.
EndedOK == \A q \in Requests : \A s \in ended[q] : pc[s] \in EndPCs

Removing(q) == \/ job[q].kind = "remove"
               \/ job[q].kind = "user" /\ job[q].saw
Deleting(q) == job[q].kind = "deleteUser" /\ ~job[q].saw

NoMapping(q, p, cs) ==
  \A s \in DOMAIN mapping : s.category \in cs /\ s.ca = p => mapping[s] \notin Before(q)
NoDefault(q, p, cs) ==
  \A c \in DOMAIN category : c \in cs /\ category[c].default = p => category[c].author \notin Before(q)
NoTicket(q, p) == \A t \in tickets : t.assignee = p => t.author \notin Before(q)

\* Which references a removal has cleared, and a deletion has found missing.
Progress(q) ==
  /\ Removing(q) =>
       /\ pc[q] \in {"seeDefault", "seeOther", "elect", "done"} =>
            NoMapping(q, job[q].who, Scope(q))
       /\ pc[q] \in {"seeOther", "elect"} =>
            NoDefault(q, job[q].who, Scope(q) \ job[q].queue)
       /\ pc[q] = "done" => NoDefault(q, job[q].who, Scope(q))
  /\ Deleting(q) =>
       /\ /\ pc[q] \in {"countMappings", "countTickets", "retire", "done"}
          /\ "countDefaults" \notin job[q].missed
          => NoDefault(q, job[q].who, Cats)
       /\ /\ pc[q] \in {"countTickets", "retire", "done"}
          /\ "countMappings" \notin job[q].missed
          => NoMapping(q, job[q].who, Cats)
       /\ pc[q] \in {"retire", "done"} /\ "countTickets" \notin job[q].missed =>
            NoTicket(q, job[q].who)

History == \A q \in Requests : Progress(q)
Consistent == RowsKeepCategory /\ NamesAreUnique

IInv == TypeOK /\ Stages /\ EndedOK /\ History /\ Consistent

TablesOK ==
  /\ DOMAIN category \subseteq Cats /\ category \in [DOMAIN category -> Category]
  /\ DOMAIN mapping \subseteq Slots /\ mapping \in [DOMAIN mapping -> Authors]
  /\ DOMAIN staff \subseteq People /\ staff \in [DOMAIN staff -> Staff]
  /\ tickets \subseteq Ticket

-----------------------------------------------------------------------------
(* What a step of a request may do.                                        *)

\* It changes its own locals only.
Frame(r) ==
  /\ pc' \in [Requests -> PCs] /\ job' \in [Requests -> Job] /\ ended' = ended
  /\ \A q \in Requests \ {r} : pc'[q] = pc[q] /\ job'[q] = job[q]

\* What it leaves in the tables was there, or is its own.
Signed(r) ==
  /\ \A c \in DOMAIN category' :
       \/ category'[c].author = r
       \/ /\ c \in DOMAIN category /\ category'[c].author = category[c].author
          /\ category'[c].default = category[c].default
  /\ \A s \in DOMAIN mapping' :
       mapping'[s] = r \/ (s \in DOMAIN mapping /\ mapping'[s] = mapping[s])
  /\ \A t \in tickets' : t \in tickets \/ t.author = r

Effect(r) ==
  /\ Frame(r) /\ Signed(r)
  /\ TablesOK' /\ Consistent'
  /\ StageOK(r)' /\ Progress(r)'

\* No request has to do with a removal or a deletion, or none that got on.
Quiet(r) ==
  \/ job'[r].kind \notin {"remove", "user", "deleteUser"}
  \/ pc'[r] \in {"failed", "refused", "writeUser", "unmap", "countDefaults"}

-----------------------------------------------------------------------------
LEMMA Reader ==
  ASSUME TypeOK, NEW r \in Requests, NEW label \in PCs, NEW j \in Job, Read(r, label, j)
  PROVE  /\ Frame(r) /\ pc'[r] = label /\ job'[r] = j
         /\ category' = category /\ mapping' = mapping /\ staff' = staff /\ tickets' = tickets
BY DEF TypeOK, Read, Answered, Goto, Frame, tables

LEMMA Writer ==
  ASSUME TypeOK, NEW r \in Requests, NEW label \in PCs, NEW j \in Job, Applied(r, label, j)
  PROVE  /\ Frame(r)
         /\ \/ pc'[r] = label /\ job'[r] = j
            \/ pc'[r] \in {pc[r], "failed"} /\ job'[r] = job[r]
<1> USE DEF TypeOK, Frame, Goto
<1>1. CASE Answered(r, label, j)
  BY <1>1 DEF Answered, Applied
<1>2. CASE Resent(r)
  BY <1>2 DEF Resent, Applied
<1>3. CASE Stopped(r)
  BY <1>3 DEF Stopped, Applied, PCs, EndPCs
<1> QED BY <1>1, <1>2, <1>3 DEF Applied

LEMMA QuietProgress == ASSUME NEW r \in Requests, Quiet(r) PROVE Progress(r)'
BY DEF Quiet, Progress, Removing, Deleting

\* A failed request has nothing to keep.
LEMMA Over ==
  ASSUME IInv, NEW r \in Requests, pc[r] # "idle", pc'[r] \in EndPCs, job'[r] = job[r]
  PROVE  StageOK(r)'
BY DEF IInv, Stages, StageOK, EndPCs, Appointee

LEMMA Unwritten ==
  ASSUME IInv, NEW r \in Requests, NEW label \in PCs, NEW j \in Job, Read(r, label, j),
         StageOK(r)', Progress(r)'
  PROVE  Effect(r)
<1>1. /\ Frame(r)
      /\ category' = category /\ mapping' = mapping /\ staff' = staff /\ tickets' = tickets
  BY Reader DEF IInv
<1> QED BY <1>1 DEF IInv, Effect, Signed, TablesOK, TypeOK, Consistent, RowsKeepCategory, NamesAreUnique

LEMMA Unnoticed ==
  ASSUME IInv, NEW r \in Requests, NEW label \in PCs, Ignored(r, label),
         pc'[r] = label /\ job'[r] = job[r] => StageOK(r)' /\ Progress(r)'
  PROVE  Effect(r)
<1>1. job[r] \in Job /\ TypeOK
  BY DEF IInv, TypeOK
<1>2. Read(r, label, job[r])
  BY DEF Ignored, Decide
<1>3. pc'[r] = label /\ job'[r] = job[r]
  BY <1>1, <1>2, Reader
<1> QED BY <1>1, <1>2, <1>3, Unwritten

LEMMA FailStep == ASSUME IInv, NEW r \in Requests, Fail(r) PROVE Effect(r)
<1>1. /\ pc[r] # "idle" /\ pc'[r] = "failed" /\ job' = job /\ Frame(r)
      /\ category' = category /\ mapping' = mapping /\ staff' = staff /\ tickets' = tickets
  BY DEF IInv, TypeOK, Fail, Running, Stopped, Goto, Frame, tables, PCs, EndPCs
<1>2. StageOK(r)' /\ Progress(r)'
  BY <1>1, Over, QuietProgress DEF Quiet, EndPCs
<1> QED
  BY <1>1, <1>2 DEF IInv, Effect, Signed, TablesOK, TypeOK, Consistent, RowsKeepCategory, NamesAreUnique

-----------------------------------------------------------------------------
(* The statements that only read.                                          *)

LEMMA JobType == ASSUME TypeOK, NEW r \in Requests PROVE job[r] \in Job /\ pc[r] \in PCs
BY DEF TypeOK

LEMMA FirstStage ==
  ASSUME NEW r \in Requests, IInv, pc[r] \in {"check", "promote"},
         pc'[r] = First[job[r].kind], job'[r] = job[r]
  PROVE  StageOK(r)' /\ Quiet(r) /\ First[job[r].kind] \in PCs
<1>1. job[r] \in Job /\ StageOK(r)
  BY DEF IInv, TypeOK, Stages
<1> QED BY <1>1 DEF StageOK, First, Quiet, Appointing, Single, PCs, EndPCs, Appointee

LEMMA CheckStep == ASSUME IInv, NEW r \in Requests, Check(r) PROVE Effect(r)
<1>1. job[r] \in Job /\ StageOK(r) /\ pc[r] = "check" /\ TypeOK
  BY DEF IInv, TypeOK, Stages, Check
<1>2. CASE Decide(r, "promote")
  <2>1. /\ pc'[r] = "promote" /\ job'[r] = job[r] /\ "promote" \in PCs
    BY <1>1, <1>2, Reader DEF Decide, PCs
  <2>2. StageOK(r)' /\ Quiet(r)
    BY <1>1, <2>1 DEF StageOK, Quiet, Appointing, Appointee
  <2> QED BY <1>1, <1>2, <2>1, <2>2, Unwritten, QuietProgress DEF Decide
<1>3. CASE Decide(r, First[job[r].kind])
  <2>1. First[job[r].kind] \in PCs
    BY <1>1 DEF StageOK, First, Appointing, PCs
  <2>2. pc'[r] = First[job[r].kind] /\ job'[r] = job[r]
    BY <1>1, <1>3, <2>1, Reader DEF Decide
  <2> QED BY <1>1, <1>3, <2>1, <2>2, FirstStage, Unwritten, QuietProgress DEF Decide
<1> QED BY <1>1, <1>2, <1>3 DEF Check

LEMMA CarryOnStep == ASSUME IInv, NEW r \in Requests, CarryOn(r) PROVE Effect(r)
<1>1. job[r] \in Job /\ StageOK(r) /\ TypeOK /\ job[r].kind \in {"create", "edit"}
  BY DEF IInv, TypeOK, Stages, CarryOn
<1>2. CASE pc[r] = "insertMapping" /\ Decide(r, "seek")
  <2>1. pc'[r] = "seek" /\ job'[r] = job[r] /\ "seek" \in PCs
    BY <1>1, <1>2, Reader DEF Decide, PCs
  <2>2. StageOK(r)' /\ Quiet(r)
    BY <1>1, <1>2, <2>1 DEF StageOK, Quiet
  <2> QED BY <1>1, <1>2, <2>1, <2>2, Unwritten, QuietProgress DEF Decide
<1>3. CASE /\ pc[r] \in {"check", "promote"}
           /\ Read(r, First[job[r].kind],
                   [job[r] EXCEPT !.who = IF job[r].kind = "edit" THEN Keep ELSE NoOne])
  <2> DEFINE j == [job[r] EXCEPT !.who = IF job[r].kind = "edit" THEN Keep ELSE NoOne]
  <2>1. First[job[r].kind] \in PCs /\ j \in Job /\ j.kind = job[r].kind /\ j.cats = job[r].cats
        /\ j.who = IF job[r].kind = "edit" THEN Keep ELSE NoOne
    BY <1>1 DEF First, PCs, Job
  <2>2. pc'[r] = First[job[r].kind] /\ job'[r] = j
    BY <1>1, <1>3, <2>1, Reader
  <2>3. StageOK(r)'
    BY <1>1, <1>3, <2>1, <2>2, DirectoryConstants DEF StageOK, First, Single, Appointing
  <2>4. Quiet(r)
    BY <1>1, <2>1, <2>2 DEF Quiet
  <2> QED BY <1>3, <2>1, <2>3, <2>4, Unwritten, QuietProgress
<1> QED BY <1>2, <1>3 DEF CarryOn

LEMMA LookupStep == ASSUME IInv, NEW r \in Requests, Lookup(r) PROVE Effect(r)
<1>1. job[r] \in Job /\ StageOK(r) /\ pc[r] = "lookup" /\ TypeOK
  BY DEF IInv, TypeOK, Stages, Lookup
<1>2. PICK c \in job[r].cats :
        CASE c \notin Existing -> Decide(r, "failed")
          [] c \in Existing /\ job[r].kind = "setDefault" ->
               Read(r, "overwrite", [job[r] EXCEPT !.name = category[c].name])
          [] c \in Existing /\ job[r].kind = "assign" ->
               IF Found(job[r].who)
               THEN Read(r, "seek", [job[r] EXCEPT !.seen = category[c].default])
               ELSE Decide(r, "failed")
  BY DEF Lookup
<1>3. job[r].kind \in {"assign", "setDefault"}
  BY <1>1 DEF StageOK
<1>4. CASE Decide(r, "failed")
  <2>1. "failed" \in PCs /\ pc'[r] = "failed" /\ job'[r] = job[r]
    BY <1>1, <1>4, Reader DEF Decide, PCs, EndPCs
  <2> QED
    BY <1>1, <1>4, <2>1, Over, QuietProgress, Unwritten DEF Decide, Quiet, EndPCs
<1>5. CASE /\ c \in Existing /\ job[r].kind = "setDefault"
           /\ Read(r, "overwrite", [job[r] EXCEPT !.name = category[c].name])
  <2> DEFINE j == [job[r] EXCEPT !.name = category[c].name]
  <2>1. "overwrite" \in PCs /\ j \in Job /\ j.kind = job[r].kind /\ j.cats = job[r].cats
        /\ j.who = job[r].who
    BY <1>1, <1>5 DEF PCs, Job, TypeOK, Existing, Category
  <2>2. pc'[r] = "overwrite" /\ job'[r] = j
    BY <1>1, <1>5, <2>1, Reader
  <2>3. StageOK(r)' /\ Quiet(r)
    BY <1>1, <1>5, <2>1, <2>2 DEF StageOK, Quiet
  <2> QED BY <1>5, <2>1, <2>3, Unwritten, QuietProgress
<1>6. CASE /\ c \in Existing /\ job[r].kind = "assign"
           /\ Read(r, "seek", [job[r] EXCEPT !.seen = category[c].default])
  <2> DEFINE j == [job[r] EXCEPT !.seen = category[c].default]
  <2>1. "seek" \in PCs /\ j \in Job /\ j.kind = job[r].kind /\ j.cats = job[r].cats
        /\ j.who = job[r].who
    BY <1>1, <1>6 DEF PCs, Job, TypeOK, Existing, Category
  <2>2. pc'[r] = "seek" /\ job'[r] = j
    BY <1>1, <1>6, <2>1, Reader
  <2>3. StageOK(r)' /\ Quiet(r)
    BY <1>1, <1>6, <2>1, <2>2 DEF StageOK, Quiet
  <2> QED BY <1>6, <2>1, <2>3, Unwritten, QuietProgress
<1> QED BY <1>2, <1>3, <1>4, <1>5, <1>6

LEMMA SeekStep == ASSUME IInv, NEW r \in Requests, Seek(r) PROVE Effect(r)
<1>1. job[r] \in Job /\ StageOK(r) /\ pc[r] = "seek" /\ TypeOK
      /\ job[r].kind \in {"assign", "map", "create", "edit"}
  BY DEF IInv, TypeOK, Stages, Seek, StageOK
<1>2. CASE Decide(r, AfterMapping(r))
  <2>1. AfterMapping(r) \in {"overwrite", "setDefaults", "done"} /\ AfterMapping(r) \in PCs
        /\ (AfterMapping(r) = "overwrite" => job[r].kind = "edit")
        /\ (AfterMapping(r) = "setDefaults" => job[r].kind = "assign")
    BY DEF AfterMapping, PCs, EndPCs
  <2>2. pc'[r] = AfterMapping(r) /\ job'[r] = job[r]
    BY <1>1, <1>2, <2>1, Reader DEF Decide
  <2>3. StageOK(r)' /\ Quiet(r)
    BY <1>1, <2>1, <2>2 DEF StageOK, Quiet
  <2> QED BY <1>1, <1>2, <2>1, <2>3, Unwritten, QuietProgress DEF Decide
<1>3. ASSUME Appointee(r) # NoOne, NEW b \in job[r].todo, NEW label \in {"seek", "insertMapping"},
             Read(r, label, [job[r] EXCEPT !.todo = @ \ {b}, !.at = b])
      PROVE  Effect(r)
  <2> DEFINE j == [job[r] EXCEPT !.todo = @ \ {b}, !.at = b]
  <2>1. label \in PCs /\ j \in Job /\ j.kind = job[r].kind /\ j.cats = job[r].cats
        /\ j.who = job[r].who /\ j.seen = job[r].seen
    BY <1>1 DEF PCs, Job
  <2>2. pc'[r] = label /\ job'[r] = j
    BY <1>1, <1>3, <2>1, Reader
  <2>3. Appointee(r) \in People /\ Appointee(r)' = Appointee(r)
    BY <1>1, <1>3, <2>1, <2>2 DEF Appointee, Job
  <2>4. StageOK(r)' /\ Quiet(r)
    BY <1>1, <2>1, <2>2, <2>3 DEF StageOK, Quiet
  <2> QED BY <1>3, <2>1, <2>4, Unwritten, QuietProgress
<1> QED BY <1>2, <1>3 DEF Seek

LEMMA FindTicketsStep == ASSUME IInv, NEW r \in Requests, FindTickets(r) PROVE Effect(r)
<1> DEFINE label == IF \E c \in job[r].cats : TicketsIn(c) # {} THEN "refused" ELSE "dropCategory"
<1>1. job[r] \in Job /\ StageOK(r) /\ pc[r] = "findTickets" /\ TypeOK
  BY DEF IInv, TypeOK, Stages, FindTickets
<1>2. label \in PCs /\ label \in {"refused", "dropCategory"} /\ Read(r, label, job[r])
  BY DEF PCs, EndPCs, FindTickets, Decide
<1>3. pc'[r] = label /\ job'[r] = job[r]
  BY <1>1, <1>2, Reader
<1>4. StageOK(r)' /\ Quiet(r)
  BY <1>1, <1>2, <1>3 DEF StageOK, Quiet
<1> QED BY <1>1, <1>2, <1>4, Unwritten, QuietProgress

LEMMA RouteStep == ASSUME IInv, NEW r \in Requests, Route(r) PROVE Effect(r)
<1>1. job[r] \in Job /\ StageOK(r) /\ pc[r] = "route" /\ TypeOK
  BY DEF IInv, TypeOK, Stages, Route
<1>2. CASE Decide(r, "refused")
  <2>1. "refused" \in PCs /\ pc'[r] = "refused" /\ job'[r] = job[r]
    BY <1>1, <1>2, Reader DEF Decide, PCs, EndPCs
  <2> QED
    BY <1>1, <1>2, <2>1, Over, QuietProgress, Unwritten DEF Decide, Quiet, EndPCs
<1>3. ASSUME NEW p \in Candidates(r), Read(r, "insertTicket", [job[r] EXCEPT !.seen = p])
      PROVE  Effect(r)
  <2> DEFINE j == [job[r] EXCEPT !.seen = p]
  <2>1. /\ \A c \in Cats : Mapped(c) \subseteq People
        /\ UNION {Mapped(c) : c \in job[r].cats} \subseteq People
    BY <1>1 DEF Mapped, Job
  <2>2. ({category[c].default : c \in job[r].cats \cap Existing} \cup {job[r].seen}) \ {NoOne}
           \subseteq People
    BY <1>1 DEF TypeOK, Existing, Category, Job
  <2>3. {q \in DOMAIN staff : staff[q] = [role |-> "CA", active |-> TRUE]} \subseteq People
    BY <1>1 DEF TypeOK
  <2>4. p \in People
    BY <2>1, <2>2, <2>3, Zenon DEF Candidates
  <2>5. "insertTicket" \in PCs /\ j \in Job /\ j.kind = job[r].kind /\ j.cats = job[r].cats
        /\ j.who = job[r].who /\ j.seen = p
    BY <1>1, <2>4 DEF PCs, Job
  <2>6. pc'[r] = "insertTicket" /\ job'[r] = j
    BY <1>1, <1>3, <2>5, Reader
  <2>7. StageOK(r)' /\ Quiet(r)
    BY <1>1, <2>4, <2>5, <2>6 DEF StageOK, Quiet
  <2> QED BY <1>3, <2>5, <2>7, Unwritten, QuietProgress
<1> QED BY <1>1, <1>2, <1>3 DEF Route

-----------------------------------------------------------------------------
(* The statements that write.                                              *)

LEMMA Written ==
  ASSUME IInv, NEW r \in Requests, NEW label \in PCs, NEW j \in Job, Applied(r, label, j),
         Running(r), Signed(r), TablesOK', Consistent',
         pc'[r] = label /\ job'[r] = j => StageOK(r)' /\ Progress(r)',
         pc'[r] = pc[r] /\ job'[r] = job[r] => Progress(r)'
  PROVE  Effect(r)
<1>1. TypeOK /\ StageOK(r) /\ pc[r] # "idle"
  BY DEF IInv, Stages, Running
<1>2. /\ Frame(r)
      /\ \/ pc'[r] = label /\ job'[r] = j
         \/ pc'[r] \in {pc[r], "failed"} /\ job'[r] = job[r]
  BY <1>1, Writer
<1>3. CASE pc'[r] = pc[r] /\ job'[r] = job[r]
  <2>1. StageOK(r)'
    BY <1>1, <1>3 DEF StageOK, Appointee
  <2> QED BY <1>2, <1>3, <2>1 DEF Effect
<1>4. CASE pc'[r] = "failed" /\ job'[r] = job[r]
  BY <1>1, <1>2, <1>4, Over, QuietProgress DEF Effect, Quiet, EndPCs
<1> QED BY <1>2, <1>3, <1>4 DEF Effect

\* A request that is not removing anybody, and is nowhere near deleting one.
LEMMA Harmless ==
  ASSUME IInv, NEW r \in Requests, NEW label \in PCs, NEW j \in Job, Applied(r, label, j),
         Running(r), Signed(r), TablesOK', Consistent',
         j.kind = job[r].kind, j.who = job[r].who,
         job[r].kind \notin {"remove", "user", "deleteUser"},
         pc'[r] = label /\ job'[r] = j => StageOK(r)'
  PROVE  Effect(r)
BY Written, QuietProgress DEF Quiet

LEMMA SameRows ==
  ASSUME Consistent, DOMAIN category' = DOMAIN category,
         \A c \in DOMAIN category : category'[c].name = category[c].name,
         DOMAIN mapping' \subseteq DOMAIN mapping, tickets' = tickets
  PROVE  Consistent'
BY DEF Consistent, RowsKeepCategory, NamesAreUnique

LEMMA FailedDecision ==
  ASSUME IInv, NEW r \in Requests, Running(r), NEW label \in {"failed", "refused"}, Decide(r, label)
  PROVE  Effect(r)
<1>1. job[r] \in Job /\ TypeOK /\ pc[r] # "idle" /\ label \in PCs /\ label \in EndPCs
  BY DEF IInv, TypeOK, Running, PCs, EndPCs
<1>2. pc'[r] = label /\ job'[r] = job[r]
  BY <1>1, Reader DEF Decide
<1> QED BY <1>1, <1>2, Over, QuietProgress, Unwritten DEF Decide, Quiet

LEMMA WithRoleOK ==
  ASSUME TypeOK, NEW p \in People, NEW role \in {"CA", "FACULTY"}, NEW on \in BOOLEAN
  PROVE  /\ DOMAIN WithRole(p, role, on) \subseteq People
         /\ WithRole(p, role, on) \in [DOMAIN WithRole(p, role, on) -> Staff]
<1>1. DOMAIN WithRole(p, role, on) = DOMAIN staff \cup {p} /\ DOMAIN staff \subseteq People
  BY DEF WithRole, TypeOK
<1>2. \A q \in DOMAIN staff \cup {p} : WithRole(p, role, on)[q] \in Staff
  BY DEF WithRole, TypeOK, Staff
<1> QED BY <1>1, <1>2 DEF WithRole

LEMMA PromoteStep == ASSUME IInv, NEW r \in Requests, Promote(r) PROVE Effect(r)
<1>1. job[r] \in Job /\ StageOK(r) /\ pc[r] = "promote" /\ TypeOK /\ Consistent
  BY DEF IInv, TypeOK, Stages, Promote
<1>2. /\ Running(r) /\ job[r].kind \in Appointing /\ job[r].who \in People
      /\ First[job[r].kind] \in PCs
  BY <1>1 DEF Running, EndPCs, StageOK, Appointing, First, PCs
<1>3. pc'[r] = First[job[r].kind] /\ job'[r] = job[r] => StageOK(r)' /\ Progress(r)'
  BY <1>1, FirstStage, QuietProgress
<1>4. CASE Ignored(r, First[job[r].kind])
  BY <1>2, <1>3, <1>4, Unnoticed
<1>5. CASE /\ \E on \in BOOLEAN : staff' = WithRole(job[r].who, "CA", on)
           /\ Applied(r, First[job[r].kind], job[r])
           /\ UNCHANGED <<category, mapping, tickets>>
  <2>1. DOMAIN staff' \subseteq People /\ staff' \in [DOMAIN staff' -> Staff]
    BY <1>1, <1>2, <1>5, WithRoleOK
  <2>2. Signed(r) /\ TablesOK' /\ Consistent'
    BY <1>1, <1>5, <2>1 DEF Signed, TablesOK, TypeOK, Consistent, RowsKeepCategory, NamesAreUnique
  <2> QED BY <1>1, <1>2, <1>3, <1>5, <2>2, Harmless DEF Appointing
<1>6. job[r].who \in DOMAIN staff => staff[job[r].who].active \in BOOLEAN
  BY <1>1 DEF TypeOK, Staff
<1> QED BY <1>4, <1>5, <1>6, Zenon DEF Promote

LEMMA InsertMappingStep == ASSUME IInv, NEW r \in Requests, InsertMapping(r) PROVE Effect(r)
<1>1. job[r] \in Job /\ StageOK(r) /\ pc[r] = "insertMapping" /\ TypeOK /\ Consistent
  BY DEF IInv, TypeOK, Stages, InsertMapping
<1>2. /\ Running(r) /\ job[r].kind \in {"assign", "map", "create", "edit"}
      /\ Appointee(r) \in People
  BY <1>1 DEF Running, EndPCs, StageOK
<1>3. PICK c \in Targets(r) :
        LET slot == SlotOf(r, c, job[r].at)
        IN  \/ /\ Insertable(slot)
               /\ mapping' = [s \in DOMAIN mapping \cup {slot} |->
                                IF s = slot THEN r ELSE mapping[s]]
               /\ Applied(r, "seek", job[r])
               /\ UNCHANGED <<category, staff, tickets>>
            \/ /\ ~Insertable(slot)
               /\ Decide(r, IF job[r].kind \in {"assign", "map"} THEN "failed" ELSE "seek")
  BY DEF InsertMapping
<1> DEFINE slot == SlotOf(r, c, job[r].at)
<1>4. CASE Decide(r, "failed")
  BY <1>2, <1>4, FailedDecision
<1>5. CASE Decide(r, "seek")
  <2>1. pc'[r] = "seek" /\ job'[r] = job[r] /\ "seek" \in PCs
    BY <1>1, <1>5, Reader DEF Decide, PCs
  <2>2. StageOK(r)' /\ Quiet(r)
    BY <1>1, <1>2, <2>1 DEF StageOK, Quiet
  <2> QED BY <1>1, <1>5, <2>1, <2>2, Unwritten, QuietProgress DEF Decide
<1>6. CASE /\ Insertable(slot)
           /\ mapping' = [s \in DOMAIN mapping \cup {slot} |-> IF s = slot THEN r ELSE mapping[s]]
           /\ Applied(r, "seek", job[r])
           /\ UNCHANGED <<category, staff, tickets>>
  <2>1. slot \in Slots /\ slot.category \in DOMAIN category
    BY <1>1, <1>2, <1>6 DEF SlotOf, Slots, Insertable, Existing, TypeOK, Job
  <2> HIDE DEF slot
  <2>2. /\ category' = category /\ staff' = staff /\ tickets' = tickets
        /\ DOMAIN mapping' = DOMAIN mapping \cup {slot}
        /\ \A s \in DOMAIN mapping' : mapping'[s] = IF s = slot THEN r ELSE mapping[s]
        /\ mapping' = [s \in DOMAIN mapping' |-> mapping'[s]]
    BY <1>6
  <2>3. TablesOK'
    BY <1>1, <2>1, <2>2, Bounds DEF TablesOK, TypeOK
  <2>4. Signed(r) /\ Consistent'
    BY <1>1, <2>1, <2>2 DEF Signed, Consistent, RowsKeepCategory, NamesAreUnique
  <2>5. pc'[r] = "seek" /\ job'[r] = job[r] => StageOK(r)'
    BY <1>1, <1>2 DEF StageOK
  <2> QED BY <1>1, <1>2, <1>6, <2>3, <2>4, <2>5, Harmless DEF PCs
<1> QED BY <1>3, <1>4, <1>5, <1>6

LEMMA AppointedOK ==
  ASSUME TypeOK, Consistent, NEW r \in Requests, NEW cs, NEW p \in People \cup {NoOne},
         category' = Appointed(cs, p, r),
         mapping' = mapping, staff' = staff, tickets' = tickets
  PROVE  Signed(r) /\ TablesOK' /\ Consistent'
<1>1. /\ DOMAIN category' = DOMAIN category /\ category' = [c \in DOMAIN category |-> category'[c]]
      /\ \A c \in DOMAIN category :
           category'[c] = IF c \in cs THEN [category[c] EXCEPT !.default = p, !.author = r]
                                      ELSE category[c]
  BY DEF Appointed, Existing
<1>2. \A c \in DOMAIN category :
        /\ category'[c] \in Category /\ category'[c].name = category[c].name
        /\ category'[c].author = r \/ category'[c] = category[c]
  BY <1>1, Bounds DEF TypeOK, Category
<1>3. TablesOK'
  BY <1>1, <1>2 DEF TypeOK, TablesOK
<1>4. Signed(r)
  BY <1>1, <1>2 DEF Signed
<1> QED BY <1>1, <1>2, <1>3, <1>4, SameRows

LEMMA SetDefaultsStep == ASSUME IInv, NEW r \in Requests, SetDefaults(r) PROVE Effect(r)
<1>1. job[r] \in Job /\ StageOK(r) /\ pc[r] = "setDefaults" /\ TypeOK /\ Consistent
  BY DEF IInv, TypeOK, Stages, SetDefaults
<1>2. /\ Running(r) /\ job[r].kind \in {"assign", "bulkAssign", "bulkRemove"}
      /\ job[r].who \in People \cup {NoOne} /\ "done" \in PCs
  BY <1>1 DEF Running, EndPCs, PCs, StageOK, Job
<1>3. Signed(r) /\ TablesOK' /\ Consistent'
  BY <1>1, <1>2, AppointedOK DEF SetDefaults
<1>4. pc'[r] = "done" /\ job'[r] = job[r] => StageOK(r)'
  BY <1>1, Over DEF EndPCs
<1> QED BY <1>1, <1>2, <1>3, <1>4, Harmless DEF SetDefaults

LEMMA OverwriteStep == ASSUME IInv, NEW r \in Requests, Overwrite(r) PROVE Effect(r)
<1>1. job[r] \in Job /\ StageOK(r) /\ pc[r] = "overwrite" /\ TypeOK /\ Consistent
  BY DEF IInv, TypeOK, Stages, Overwrite
<1>2. /\ Running(r) /\ job[r].kind \in {"edit", "setDefault"} /\ "done" \in PCs
      /\ Appointee(r) \in People \cup {NoOne} /\ job[r].name \in Names
  BY <1>1 DEF Running, EndPCs, PCs, StageOK, Job, Appointee
<1>3. PICK d : job[r].cats = {d}
  BY <1>1, <1>2 DEF StageOK, Single
<1>4. CASE Decide(r, "failed")
  BY <1>2, <1>4, FailedDecision
<1>5. CASE NameFree(job[r].name, job[r].cats) /\ ~Decide(r, "failed")
  <2>1. /\ category' = [c \in Existing |->
             IF c \in job[r].cats
             THEN [category[c] EXCEPT !.name = job[r].name, !.author = r, !.default = Appointee(r)]
             ELSE category[c]]
        /\ Applied(r, "done", job[r]) /\ mapping' = mapping /\ staff' = staff /\ tickets' = tickets
    BY <1>5 DEF Overwrite
  <2>2. /\ DOMAIN category' = DOMAIN category /\ category' = [c \in DOMAIN category |-> category'[c]]
        /\ \A c \in DOMAIN category \ {d} : category'[c] = category[c]
        /\ d \in DOMAIN category =>
             category'[d] = [category[d] EXCEPT !.name = job[r].name, !.author = r,
                                                !.default = Appointee(r)]
    BY <1>3, <2>1 DEF Existing
  <2>3. d \in DOMAIN category =>
          /\ category'[d] \in Category
          /\ category'[d].author = r /\ category'[d].name = job[r].name
    BY <1>1, <1>2, <2>2, Bounds DEF TypeOK, Category
  <2>4. TablesOK'
    BY <1>1, <2>1, <2>2, <2>3 DEF TypeOK, TablesOK
  <2>5. Signed(r)
    BY <2>1, <2>2, <2>3 DEF Signed
  <2>6. \A c \in DOMAIN category \ {d} : category[c].name # job[r].name
    BY <1>3, <1>5 DEF NameFree, Named, Existing
  <2>7. \A c, e \in DOMAIN category : category'[c].name = category'[e].name => c = e
    <3>1. SUFFICES ASSUME NEW c \in DOMAIN category, NEW e \in DOMAIN category, c # e
                   PROVE  category'[c].name # category'[e].name
      OBVIOUS
    <3>2. CASE c # d /\ e # d
      BY <1>1, <2>2, <3>1, <3>2 DEF Consistent, NamesAreUnique
    <3>3. CASE c = d
      BY <2>2, <2>3, <2>6, <3>1, <3>3
    <3>4. CASE e = d
      BY <2>2, <2>3, <2>6, <3>1, <3>4
    <3> QED BY <3>2, <3>3, <3>4
  <2>8. Consistent'
    BY <1>1, <2>1, <2>2, <2>7 DEF Consistent, RowsKeepCategory, NamesAreUnique
  <2>9. pc'[r] = "done" /\ job'[r] = job[r] => StageOK(r)'
    BY <1>1, Over DEF EndPCs
  <2> QED BY <1>1, <1>2, <2>1, <2>4, <2>5, <2>8, <2>9, Harmless
<1> QED BY <1>4, <1>5 DEF Overwrite

LEMMA InsertCategoryStep == ASSUME IInv, NEW r \in Requests, InsertCategory(r) PROVE Effect(r)
<1>1. job[r] \in Job /\ StageOK(r) /\ pc[r] = "insertCategory" /\ TypeOK /\ Consistent
  BY DEF IInv, TypeOK, Stages, InsertCategory
<1>2. /\ Running(r) /\ job[r].kind = "create" /\ "seek" \in PCs
      /\ job[r].who \in People \cup {NoOne} /\ job[r].name \in Names
  BY <1>1, DirectoryConstants DEF Running, EndPCs, PCs, StageOK, Job
<1>3. CASE Decide(r, "failed")
  BY <1>2, <1>3, FailedDecision
<1>4. CASE NameFree(job[r].name, {}) /\ r \notin Existing /\ ~Decide(r, "failed")
  <2> DEFINE row == [name |-> job[r].name, default |-> job[r].who, active |-> TRUE, author |-> r]
  <2>1. /\ category' = [c \in Existing \cup {r} |-> IF c = r THEN row ELSE category[c]]
        /\ Applied(r, "seek", job[r]) /\ mapping' = mapping /\ staff' = staff /\ tickets' = tickets
    BY <1>4 DEF InsertCategory
  <2>2. row \in Category /\ row.author = r /\ row.name = job[r].name
    BY <1>2, Bounds DEF Category
  <2> HIDE DEF row
  <2>3. /\ DOMAIN category' = DOMAIN category \cup {r}
        /\ category' = [c \in DOMAIN category' |-> category'[c]]
        /\ category'[r] = row /\ r \notin DOMAIN category
        /\ \A c \in DOMAIN category : category'[c] = category[c]
    BY <1>4, <2>1 DEF Existing
  <2>4. TablesOK'
    BY <1>1, <2>1, <2>2, <2>3, Bounds DEF TypeOK, TablesOK
  <2>5. Signed(r)
    BY <2>1, <2>2, <2>3 DEF Signed
  <2>6. \A c \in DOMAIN category : category[c].name # job[r].name
    BY <1>4 DEF NameFree, Named, Existing
  <2>7. Consistent'
    BY <1>1, <2>1, <2>2, <2>3, <2>6 DEF Consistent, RowsKeepCategory, NamesAreUnique
  <2>8. pc'[r] = "seek" /\ job'[r] = job[r] => StageOK(r)'
    BY <1>1, <1>2 DEF StageOK
  <2> QED BY <1>1, <1>2, <2>1, <2>4, <2>5, <2>7, <2>8, Harmless
<1> QED BY <1>3, <1>4 DEF InsertCategory

LEMMA SetActiveStep == ASSUME IInv, NEW r \in Requests, SetActive(r) PROVE Effect(r)
<1>1. job[r] \in Job /\ StageOK(r) /\ pc[r] \in {"setActive", "reactivate"} /\ TypeOK /\ Consistent
  BY DEF IInv, TypeOK, Stages, SetActive
<1>2. /\ Running(r) /\ job[r].kind \in {"create", "bulkToggle", "toggle"} /\ "done" \in PCs
  BY <1>1 DEF Running, EndPCs, PCs, StageOK
<1> DEFINE cs == IF pc[r] = "reactivate" THEN Named(job[r].name) ELSE job[r].cats
           value == CASE pc[r] = "reactivate" -> TRUE
                      [] job[r].kind = "toggle" -> ~job[r].saw
                      [] OTHER -> job[r].on
<1>3. value \in BOOLEAN
  BY <1>1 DEF Job
<1>4. /\ category' = [c \in Existing |-> IF c \in cs THEN [category[c] EXCEPT !.active = value]
                                                     ELSE category[c]]
      /\ Applied(r, "done", job[r]) /\ mapping' = mapping /\ staff' = staff /\ tickets' = tickets
  BY DEF SetActive
<1> HIDE DEF cs, value
<1>5. /\ DOMAIN category' = DOMAIN category /\ category' = [c \in DOMAIN category |-> category'[c]]
      /\ \A c \in DOMAIN category :
           category'[c] = IF c \in cs THEN [category[c] EXCEPT !.active = value] ELSE category[c]
  BY <1>4 DEF Existing
<1>6. \A c \in DOMAIN category :
        /\ category'[c] \in Category /\ category'[c].name = category[c].name
        /\ category'[c].author = category[c].author /\ category'[c].default = category[c].default
  BY <1>1, <1>3, <1>5 DEF TypeOK, Category
<1>7. TablesOK'
  BY <1>1, <1>4, <1>5, <1>6 DEF TypeOK, TablesOK
<1>8. Signed(r)
  BY <1>4, <1>5, <1>6 DEF Signed
<1>9. Consistent'
  BY <1>1, <1>4, <1>5, <1>6, SameRows
<1>10. pc'[r] = "done" /\ job'[r] = job[r] => StageOK(r)'
  BY <1>1, Over DEF EndPCs
<1> QED BY <1>1, <1>2, <1>4, <1>7, <1>8, <1>9, <1>10, Harmless

LEMMA DropCategoryStep == ASSUME IInv, NEW r \in Requests, DropCategory(r) PROVE Effect(r)
<1>1. job[r] \in Job /\ StageOK(r) /\ pc[r] = "dropCategory" /\ TypeOK /\ Consistent
  BY DEF IInv, TypeOK, Stages, DropCategory
<1>2. /\ Running(r) /\ job[r].kind = "drop" /\ "done" \in PCs
  BY <1>1 DEF Running, EndPCs, PCs, StageOK
<1>3. CASE Decide(r, "failed")
  BY <1>2, <1>3, FailedDecision
<1>4. CASE Droppable(job[r].cats) /\ ~Decide(r, "failed")
  <2>1. /\ category' = [c \in Existing \ job[r].cats |-> category[c]]
        /\ mapping' = [s \in {s \in DOMAIN mapping : s.category \notin job[r].cats} |-> mapping[s]]
        /\ Applied(r, "done", job[r]) /\ staff' = staff /\ tickets' = tickets
    BY <1>4 DEF DropCategory
  <2>2. /\ DOMAIN category' = DOMAIN category \ job[r].cats
        /\ category' = [c \in DOMAIN category' |-> category'[c]]
        /\ \A c \in DOMAIN category' : category'[c] = category[c]
    BY <2>1 DEF Existing
  <2>3. /\ DOMAIN mapping' = {s \in DOMAIN mapping : s.category \notin job[r].cats}
        /\ mapping' = [s \in DOMAIN mapping' |-> mapping'[s]]
        /\ \A s \in DOMAIN mapping' : mapping'[s] = mapping[s]
    BY <2>1
  <2>4. TablesOK'
    BY <1>1, <2>1, <2>2, <2>3 DEF TypeOK, TablesOK
  <2>5. Signed(r)
    BY <2>1, <2>2, <2>3 DEF Signed
  <2>6. \A t \in tickets : t.category \notin job[r].cats
    BY <1>4 DEF Droppable, TicketsIn
  <2>7. RowsKeepCategory'
    BY <1>1, <2>1, <2>2, <2>3, <2>6 DEF Consistent, RowsKeepCategory
  <2>8. NamesAreUnique'
    BY <1>1, <2>2 DEF Consistent, NamesAreUnique
  <2>9. pc'[r] = "done" /\ job'[r] = job[r] => StageOK(r)'
    BY <1>1, Over DEF EndPCs
  <2> QED BY <1>1, <1>2, <2>1, <2>4, <2>5, <2>7, <2>8, <2>9, Harmless DEF Consistent
<1> QED BY <1>3, <1>4 DEF DropCategory

LEMMA InsertTicketStep == ASSUME IInv, NEW r \in Requests, InsertTicket(r) PROVE Effect(r)
<1>1. job[r] \in Job /\ StageOK(r) /\ pc[r] = "insertTicket" /\ TypeOK /\ Consistent
  BY DEF IInv, TypeOK, Stages, InsertTicket
<1>2. /\ Running(r) /\ job[r].kind = "ticket" /\ "done" \in PCs /\ job[r].seen \in People
  BY <1>1 DEF Running, EndPCs, PCs, StageOK
<1>3. CASE Decide(r, "failed")
  BY <1>2, <1>3, FailedDecision
<1>4. CASE job[r].cats \subseteq Existing /\ ~Decide(r, "failed")
  <2> DEFINE new == {[category |-> c, assignee |-> job[r].seen, author |-> r] : c \in job[r].cats}
  <2>1. /\ tickets' = tickets \cup new
        /\ Applied(r, "done", job[r])
        /\ category' = category /\ mapping' = mapping /\ staff' = staff
    BY <1>4 DEF InsertTicket
  <2>2. \A t \in new : t \in Ticket /\ t.author = r /\ t.category \in DOMAIN category
    BY <1>1, <1>2, <1>4, Bounds DEF Ticket, Existing, TypeOK
  <2> HIDE DEF new
  <2>3. TablesOK' /\ Signed(r)
    BY <1>1, <2>1, <2>2 DEF TablesOK, TypeOK, Signed
  <2>4. Consistent'
    BY <1>1, <2>1, <2>2 DEF Consistent, RowsKeepCategory, NamesAreUnique
  <2>5. pc'[r] = "done" /\ job'[r] = job[r] => StageOK(r)'
    BY <1>1, Over DEF EndPCs
  <2> QED BY <1>1, <1>2, <2>1, <2>3, <2>4, <2>5, Harmless
<1> QED BY <1>3, <1>4 DEF InsertTicket

\* Fewer mappings, of which none is new.
LEMMA Unmapping ==
  ASSUME TypeOK, Consistent, NEW r \in Requests, NEW kept \in SUBSET (DOMAIN mapping),
         mapping' = [s \in kept |-> mapping[s]],
         category' = category, staff' = staff, tickets' = tickets
  PROVE  Signed(r) /\ TablesOK' /\ Consistent'
<1>1. /\ DOMAIN mapping' = kept /\ mapping' = [s \in DOMAIN mapping' |-> mapping'[s]]
      /\ \A s \in kept : mapping'[s] = mapping[s]
  OBVIOUS
<1> QED BY <1>1 DEF Signed, TablesOK, TypeOK, Consistent, RowsKeepCategory, NamesAreUnique

LEMMA UnmapOneStep == ASSUME IInv, NEW r \in Requests, UnmapOne(r) PROVE Effect(r)
<1>1. job[r] \in Job /\ StageOK(r) /\ pc[r] = "unmapOne" /\ TypeOK /\ Consistent
  BY DEF IInv, TypeOK, Stages, UnmapOne
<1>2. /\ Running(r) /\ job[r].kind = "unmapOne" /\ "done" \in PCs
  BY <1>1 DEF Running, EndPCs, PCs, StageOK
<1> DEFINE kept == {s \in DOMAIN mapping : ~(/\ s.category \in job[r].cats
                                            /\ s.ca = job[r].who
                                            /\ s.block \in job[r].blocks)}
<1>3. Signed(r) /\ TablesOK' /\ Consistent'
  <2>1. kept \in SUBSET (DOMAIN mapping) /\ mapping' = [s \in kept |-> mapping[s]]
        /\ category' = category /\ staff' = staff /\ tickets' = tickets
    BY DEF UnmapOne
  <2> HIDE DEF kept
  <2> QED BY <1>1, <2>1, Unmapping
<1>4. pc'[r] = "done" /\ job'[r] = job[r] => StageOK(r)'
  BY <1>1, Over DEF EndPCs
<1> QED BY <1>1, <1>2, <1>3, <1>4, Harmless DEF UnmapOne

-----------------------------------------------------------------------------
(* Removals and deletions.                                                 *)

\* A running request is not one that had ended when another began.
LEMMA NotBefore ==
  ASSUME IInv, NEW r \in Requests, NEW q \in Requests, Running(r)
  PROVE  r \notin Before(q)
BY Bounds DEF IInv, EndedOK, Running, Before

LEMMA WriteUserStep == ASSUME IInv, NEW r \in Requests, WriteUser(r) PROVE Effect(r)
<1>1. job[r] \in Job /\ StageOK(r) /\ pc[r] = "writeUser" /\ TypeOK /\ Consistent
  BY DEF IInv, TypeOK, Stages, WriteUser
<1>2. /\ Running(r) /\ job[r].kind = "user" /\ {"done", "unmap"} \subseteq PCs
      /\ job[r].who \in People /\ job[r].role \in {"CA", "FACULTY"} /\ job[r].on \in BOOLEAN
  BY <1>1 DEF Running, EndPCs, PCs, StageOK, Job
<1> DEFINE label == IF job[r].saw THEN "unmap" ELSE "done"
<1>3. pc'[r] = label /\ job'[r] = job[r] => StageOK(r)' /\ Progress(r)'
  BY <1>1, <1>2 DEF StageOK, Progress, Removing, Deleting
<1>4. pc'[r] = pc[r] /\ job'[r] = job[r] => Progress(r)'
  BY <1>1, QuietProgress DEF Quiet
<1>5. label \in PCs
  BY <1>2
<1>6. \/ /\ staff' = WithRole(job[r].who, job[r].role, job[r].on)
         /\ Applied(r, label, job[r])
         /\ category' = category /\ mapping' = mapping /\ tickets' = tickets
      \/ Ignored(r, label)
  BY DEF WriteUser
<1> HIDE DEF label
<1>7. CASE Ignored(r, label)
  BY <1>3, <1>5, <1>7, Unnoticed
<1>8. CASE /\ staff' = WithRole(job[r].who, job[r].role, job[r].on)
           /\ Applied(r, label, job[r])
           /\ category' = category /\ mapping' = mapping /\ tickets' = tickets
  <2>1. DOMAIN staff' \subseteq People /\ staff' \in [DOMAIN staff' -> Staff]
    BY <1>1, <1>2, <1>8, WithRoleOK
  <2>2. Signed(r) /\ TablesOK' /\ Consistent'
    BY <1>1, <1>8, <2>1 DEF Signed, TablesOK, TypeOK, Consistent, RowsKeepCategory, NamesAreUnique
  <2> QED BY <1>1, <1>2, <1>3, <1>4, <1>5, <1>8, <2>2, Written
<1> QED BY <1>6, <1>7, <1>8

\* Nothing changes what other requests have got done.
LEMMA OthersProgress ==
  ASSUME IInv, NEW r \in Requests, Running(r), Frame(r), Signed(r), NEW q \in Requests \ {r}
  PROVE  Progress(q)'
<1>1. /\ Progress(q) /\ r \notin Before(q) /\ Before(q)' = Before(q)
      /\ pc'[q] = pc[q] /\ job'[q] = job[q]
  BY NotBefore DEF IInv, History, Frame, Before
<1>2. Scope(q)' = Scope(q)
  BY <1>1 DEF Scope
<1>3. ASSUME Removing(q)', pc'[q] \in {"seeDefault", "seeOther", "elect", "done"}
      PROVE  NoMapping(q, job[q].who, Scope(q))'
  <2>1. NoMapping(q, job[q].who, Scope(q))
    BY <1>1, <1>3 DEF Progress, Removing
  <2> QED BY <1>1, <1>2, <2>1 DEF NoMapping, Signed
<1>4. ASSUME Removing(q)', pc'[q] \in {"seeOther", "elect"}
      PROVE  NoDefault(q, job[q].who, Scope(q) \ job[q].queue)'
  <2>1. NoDefault(q, job[q].who, Scope(q) \ job[q].queue)
    BY <1>1, <1>4 DEF Progress, Removing
  <2> QED BY <1>1, <1>2, <2>1 DEF NoDefault, Signed
<1>5. ASSUME Removing(q)', pc'[q] = "done"
      PROVE  NoDefault(q, job[q].who, Scope(q))'
  <2>1. NoDefault(q, job[q].who, Scope(q))
    BY <1>1, <1>5 DEF Progress, Removing
  <2> QED BY <1>1, <1>2, <2>1 DEF NoDefault, Signed
<1>6. ASSUME Deleting(q)', "countDefaults" \notin job'[q].missed,
             pc'[q] \in {"countMappings", "countTickets", "retire", "done"}
      PROVE  NoDefault(q, job[q].who, Cats)'
  <2>1. NoDefault(q, job[q].who, Cats)
    BY <1>1, <1>6 DEF Progress, Deleting
  <2> QED BY <1>1, <2>1 DEF NoDefault, Signed
<1>7. ASSUME Deleting(q)', "countMappings" \notin job'[q].missed,
             pc'[q] \in {"countTickets", "retire", "done"}
      PROVE  NoMapping(q, job[q].who, Cats)'
  <2>1. NoMapping(q, job[q].who, Cats)
    BY <1>1, <1>7 DEF Progress, Deleting
  <2> QED BY <1>1, <2>1 DEF NoMapping, Signed
<1>8. ASSUME Deleting(q)', "countTickets" \notin job'[q].missed,
             pc'[q] \in {"retire", "done"}
      PROVE  NoTicket(q, job[q].who)'
  <2>1. NoTicket(q, job[q].who)
    BY <1>1, <1>8 DEF Progress, Deleting
  <2> QED BY <1>1, <2>1 DEF NoTicket, Signed
<1> QED BY <1>3, <1>4, <1>5, <1>6, <1>7, <1>8 DEF Progress

LEMMA UnmapStep == ASSUME IInv, NEW r \in Requests, Unmap(r) PROVE Effect(r)
<1>1. job[r] \in Job /\ StageOK(r) /\ pc[r] = "unmap" /\ TypeOK /\ Consistent
  BY DEF IInv, TypeOK, Stages, Unmap
<1>2. /\ Running(r) /\ "seeDefault" \in PCs /\ Removing(r)
  BY <1>1 DEF Running, EndPCs, PCs, StageOK, Removing
<1>3. CASE Decide(r, "refused")
  BY <1>2, <1>3, FailedDecision
<1>4. CASE ~Decide(r, "refused")
  <2> DEFINE kept == {s \in DOMAIN mapping : ~(s.category \in Scope(r) /\ s.ca = job[r].who)}
  <2>1. /\ kept \in SUBSET (DOMAIN mapping) /\ mapping' = [s \in kept |-> mapping[s]]
        /\ \A s \in kept : s.category \in Scope(r) => s.ca # job[r].who
        /\ category' = category /\ staff' = staff /\ tickets' = tickets
        /\ Applied(r, "seeDefault", job[r])
    BY <1>4 DEF Unmap, Without
  <2> HIDE DEF kept
  <2>2. Signed(r) /\ TablesOK' /\ Consistent'
    BY <1>1, <2>1, Unmapping
  <2>3. ASSUME pc'[r] = "seeDefault", job'[r] = job[r]
        PROVE  StageOK(r)' /\ Progress(r)'
    <3>1. StageOK(r)'
      BY <1>1, <1>2, <2>3 DEF StageOK, Removing
    <3>2. NoMapping(r, job[r].who, Scope(r))'
      BY <2>1, <2>3 DEF NoMapping, Scope
    <3>3. Progress(r)'
      BY <1>2, <2>3, <3>2 DEF Progress, Removing, Deleting
    <3> QED BY <3>1, <3>3
  <2>4. pc'[r] = pc[r] /\ job'[r] = job[r] => Progress(r)'
    BY <1>1, QuietProgress DEF Quiet
  <2> QED BY <1>1, <1>2, <2>1, <2>2, <2>3, <2>4, Written
<1> QED BY <1>3, <1>4

LEMMA SeeDefaultStep == ASSUME IInv, NEW r \in Requests, SeeDefault(r) PROVE Effect(r)
<1>1. job[r] \in Job /\ StageOK(r) /\ pc[r] = "seeDefault" /\ TypeOK /\ Progress(r)
  BY DEF IInv, TypeOK, Stages, History, SeeDefault
<1>2. Removing(r) /\ NoMapping(r, job[r].who, Scope(r))
  BY <1>1 DEF StageOK, Removing, Progress
<1> DEFINE affected == DefaultsOf(job[r].who) \cap Scope(r)
           label == IF affected = {} THEN "done" ELSE "seeOther"
           j == [job[r] EXCEPT !.queue = affected]
<1>3. affected \subseteq Cats
  BY <1>1 DEF DefaultsOf, Existing, TypeOK
<1>4. /\ label \in PCs /\ j \in Job /\ label \in {"done", "seeOther"}
      /\ j.kind = job[r].kind /\ j.cats = job[r].cats /\ j.who = job[r].who
      /\ j.saw = job[r].saw /\ j.queue = affected
      /\ Read(r, label, j)
  BY <1>1, <1>3 DEF PCs, EndPCs, Job, SeeDefault
<1>5. label = "done" => affected = {}
  OBVIOUS
<1>6. \A c \in DOMAIN category : c \in Scope(r) /\ c \notin affected => category[c].default # job[r].who
  BY DEF DefaultsOf, Existing
<1> HIDE DEF affected, label, j
<1>7. /\ pc'[r] = label /\ job'[r] = j /\ ended' = ended
      /\ category' = category /\ mapping' = mapping /\ tickets' = tickets
  BY <1>1, <1>4, Reader DEF Frame
<1>8. StageOK(r)'
  BY <1>1, <1>2, <1>4, <1>7 DEF StageOK, Removing
<1>9. Scope(r)' = Scope(r) /\ Before(r)' = Before(r)
  BY <1>4, <1>7 DEF Scope, Before
<1>10. NoMapping(r, job[r].who, Scope(r))'
  BY <1>2, <1>4, <1>7, <1>9 DEF NoMapping
<1>11. NoDefault(r, job[r].who, Scope(r) \ job[r].queue)'
  BY <1>4, <1>6, <1>7, <1>9 DEF NoDefault
<1>12. pc'[r] = "done" => NoDefault(r, job[r].who, Scope(r))'
  BY <1>4, <1>5, <1>6, <1>7, <1>9 DEF NoDefault
<1>13. Progress(r)'
  BY <1>2, <1>4, <1>7, <1>10, <1>11, <1>12 DEF Progress, Removing, Deleting
<1> QED BY <1>4, <1>8, <1>13, Unwritten

LEMMA SeeOtherStep == ASSUME IInv, NEW r \in Requests, SeeOther(r) PROVE Effect(r)
<1>1. job[r] \in Job /\ StageOK(r) /\ pc[r] = "seeOther" /\ TypeOK /\ Progress(r)
  BY DEF IInv, TypeOK, Stages, History, SeeOther
<1>2. /\ Removing(r) /\ NoMapping(r, job[r].who, Scope(r))
      /\ NoDefault(r, job[r].who, Scope(r) \ job[r].queue)
  BY <1>1 DEF StageOK, Removing, Progress
<1>3. PICK c \in job[r].queue, p \in People \cup {NoOne} :
        Read(r, "elect", [job[r] EXCEPT !.cat = c, !.seen = p])
  BY DEF SeeOther
<1> DEFINE j == [job[r] EXCEPT !.cat = c, !.seen = p]
<1>4. /\ "elect" \in PCs /\ j \in Job
      /\ j.kind = job[r].kind /\ j.cats = job[r].cats /\ j.who = job[r].who
      /\ j.saw = job[r].saw /\ j.queue = job[r].queue /\ j.cat = c
      /\ Read(r, "elect", j)
  BY <1>1, <1>3 DEF PCs, Job
<1> HIDE DEF j
<1>5. /\ pc'[r] = "elect" /\ job'[r] = j /\ ended' = ended
      /\ category' = category /\ mapping' = mapping /\ tickets' = tickets
  BY <1>1, <1>4, Reader DEF Frame
<1>6. StageOK(r)'
  BY <1>1, <1>2, <1>3, <1>4, <1>5 DEF StageOK, Removing
<1>7. Scope(r)' = Scope(r) /\ Before(r)' = Before(r)
  BY <1>4, <1>5 DEF Scope, Before
<1>8. NoMapping(r, job[r].who, Scope(r))' /\ NoDefault(r, job[r].who, Scope(r) \ job[r].queue)'
  BY <1>2, <1>4, <1>5, <1>7 DEF NoMapping, NoDefault
<1>9. Progress(r)'
  BY <1>2, <1>4, <1>5, <1>8 DEF Progress, Removing, Deleting
<1> QED BY <1>4, <1>6, <1>9, Unwritten

LEMMA ElectStep == ASSUME IInv, NEW r \in Requests, Elect(r) PROVE Effect(r)
<1>1. /\ job[r] \in Job /\ StageOK(r) /\ pc[r] = "elect" /\ TypeOK /\ Progress(r) /\ Consistent
  BY DEF IInv, TypeOK, Stages, History, Elect
<1>2. /\ Removing(r) /\ NoMapping(r, job[r].who, Scope(r)) /\ Running(r)
      /\ NoDefault(r, job[r].who, Scope(r) \ job[r].queue)
  BY <1>1 DEF StageOK, Removing, Progress, Running, EndPCs
<1> DEFINE rest == job[r].queue \ {job[r].cat}
           label == IF rest = {} THEN "done" ELSE "seeOther"
           j == [job[r] EXCEPT !.queue = rest]
<1>3. /\ label \in PCs /\ j \in Job /\ label \in {"done", "seeOther"}
      /\ j.kind = job[r].kind /\ j.cats = job[r].cats /\ j.who = job[r].who
      /\ j.saw = job[r].saw /\ j.queue = rest
  BY <1>1 DEF PCs, EndPCs, Job
<1>4. /\ category' = Appointed({job[r].cat}, job[r].seen, r) /\ Applied(r, label, j)
      /\ mapping' = mapping /\ staff' = staff /\ tickets' = tickets
  BY DEF Elect
<1>5. label = "done" => rest = {}
  OBVIOUS
<1> HIDE DEF label, j
<1>6. Signed(r) /\ TablesOK' /\ Consistent'
  <2>1. job[r].seen \in People \cup {NoOne}
    BY <1>1 DEF Job
  <2> QED BY <1>1, <1>4, <2>1, AppointedOK
<1>7. ended' = ended /\ Before(r)' = Before(r) /\ r \notin Before(r)
  BY <1>1, <1>2, <1>3, <1>4, Writer, NotBefore DEF Frame, Before
<1>8. \A c \in DOMAIN category' :
        \/ category'[c].author = r
        \/ c \in DOMAIN category /\ c # job[r].cat /\ category'[c] = category[c]
  BY <1>1, <1>4 DEF Appointed, Existing, TypeOK, Category
<1>9. ASSUME pc'[r] = label, job'[r] = j
      PROVE  StageOK(r)' /\ Progress(r)'
  <2>1. StageOK(r)'
    BY <1>1, <1>2, <1>3, <1>9 DEF StageOK, Removing
  <2>2. Scope(r)' = Scope(r)
    BY <1>3, <1>9 DEF Scope
  <2>3. NoMapping(r, job[r].who, Scope(r))'
    BY <1>2, <1>3, <1>4, <1>7, <1>9, <2>2 DEF NoMapping
  <2>4. NoDefault(r, job[r].who, Scope(r) \ job[r].queue)'
    BY <1>2, <1>3, <1>7, <1>8, <1>9, <2>2 DEF NoDefault
  <2>5. pc'[r] = "done" => NoDefault(r, job[r].who, Scope(r))'
    BY <1>2, <1>3, <1>5, <1>7, <1>8, <1>9, <2>2 DEF NoDefault
  <2>6. Progress(r)'
    BY <1>2, <1>3, <1>9, <2>3, <2>4, <2>5 DEF Progress, Removing, Deleting
  <2> QED BY <2>1, <2>6
<1>10. ASSUME pc'[r] = pc[r], job'[r] = job[r]
       PROVE  Progress(r)'
  <2>1. Scope(r)' = Scope(r)
    BY <1>10 DEF Scope
  <2>2. NoMapping(r, job[r].who, Scope(r))'
    BY <1>2, <1>4, <1>7, <1>10, <2>1 DEF NoMapping
  <2>3. NoDefault(r, job[r].who, Scope(r) \ job[r].queue)'
    BY <1>2, <1>7, <1>8, <1>10, <2>1 DEF NoDefault
  <2> QED BY <1>1, <1>2, <1>10, <2>2, <2>3 DEF Progress, Removing, Deleting
<1> QED BY <1>2, <1>3, <1>4, <1>6, <1>9, <1>10, Written

LEMMA CountStep == ASSUME IInv, NEW r \in Requests, Count(r) PROVE Effect(r)
<1>1. /\ job[r] \in Job /\ StageOK(r) /\ TypeOK /\ Progress(r)
      /\ pc[r] \in Counts
  BY DEF IInv, TypeOK, Stages, History, Count, NextCount, Counts
<1>2. job[r].kind = "deleteUser" /\ job[r].who \in People
  BY <1>1 DEF StageOK, Job, Counts
<1> DEFINE label == NextCount[pc[r]]
<1>3. /\ label \in PCs /\ label = (IF pc[r] = "countDefaults" THEN "countMappings"
                                  ELSE IF pc[r] = "countMappings" THEN "countTickets" ELSE "retire")
  BY <1>1 DEF PCs, NextCount, Counts
<1>4. PICK found \in BOOLEAN, missed \in SUBSET Counts :
        /\ Read(r, label, [job[r] EXCEPT !.saw = found, !.missed = missed])
        /\ \/ missed = job[r].missed /\ found = (job[r].saw \/ Refers(pc[r], job[r].who))
           \/ missed = job[r].missed \cup {pc[r]} /\ found = job[r].saw
  <2>1. job[r].saw \in BOOLEAN /\ job[r].missed \in SUBSET Counts
    BY <1>1 DEF Job
  <2>2. [job[r] EXCEPT !.saw = job[r].saw \/ Refers(pc[r], job[r].who)]
          = [job[r] EXCEPT !.saw = job[r].saw \/ Refers(pc[r], job[r].who), !.missed = job[r].missed]
    BY <1>1 DEF Job
  <2>3. [job[r] EXCEPT !.missed = @ \cup {pc[r]}]
          = [job[r] EXCEPT !.saw = job[r].saw, !.missed = job[r].missed \cup {pc[r]}]
    BY <1>1 DEF Job
  <2>4. (job[r].saw \/ Refers(pc[r], job[r].who)) \in BOOLEAN
    BY <2>1 DEF Refers
  <2>5. \/ Read(r, label, [job[r] EXCEPT !.saw = job[r].saw \/ Refers(pc[r], job[r].who)])
        \/ Read(r, label, [job[r] EXCEPT !.missed = @ \cup {pc[r]}])
    BY DEF Count
  <2>6. CASE Read(r, label, [job[r] EXCEPT !.saw = job[r].saw \/ Refers(pc[r], job[r].who)])
    BY <2>1, <2>2, <2>4, <2>6, Zenon
  <2>7. job[r].missed \cup {pc[r]} \in SUBSET Counts
    BY <1>1, <2>1
  <2>8. CASE Read(r, label, [job[r] EXCEPT !.missed = @ \cup {pc[r]}])
    BY <2>1, <2>3, <2>7, <2>8, Zenon
  <2> QED BY <2>5, <2>6, <2>8
<1> DEFINE j == [job[r] EXCEPT !.saw = found, !.missed = missed]
<1>5. /\ j \in Job /\ j.kind = "deleteUser" /\ j.cats = job[r].cats /\ j.who = job[r].who
      /\ j.saw = found /\ j.missed = missed
  BY <1>1, <1>2, <1>4 DEF Job
<1>6. Read(r, label, j)
  BY <1>4
<1> HIDE DEF label, j
<1>7. /\ pc'[r] = label /\ job'[r] = j /\ ended' = ended
      /\ category' = category /\ mapping' = mapping /\ tickets' = tickets
  BY <1>1, <1>3, <1>5, <1>6, Reader DEF Frame
<1>8. StageOK(r)'
  BY <1>1, <1>2, <1>3, <1>5, <1>7 DEF StageOK, Counts
<1>9. Before(r)' = Before(r)
  BY <1>7 DEF Before
<1>10. ASSUME ~found
       PROVE  Progress(r)'
  <2>1. ~job[r].saw /\ (pc[r] \notin missed => ~Refers(pc[r], job[r].who))
        /\ job[r].missed \subseteq missed
    BY <1>4, <1>10
  <2>2. "countDefaults" \notin missed => NoDefault(r, job[r].who, Cats)
    <3>1. CASE pc[r] = "countDefaults"
      BY <2>1, <3>1 DEF Refers, NoDefault, DefaultsOf, Existing
    <3>2. CASE pc[r] # "countDefaults"
      BY <1>1, <1>2, <2>1, <3>2 DEF Progress, Deleting, Counts
    <3> QED BY <3>1, <3>2
  <2>3. pc[r] # "countDefaults" /\ "countMappings" \notin missed => NoMapping(r, job[r].who, Cats)
    <3>1. CASE pc[r] = "countMappings"
      BY <2>1, <3>1 DEF Refers, NoMapping
    <3>2. CASE pc[r] = "countTickets"
      BY <1>1, <1>2, <2>1, <3>2 DEF Progress, Deleting
    <3> QED BY <1>1, <3>1, <3>2 DEF Counts
  <2>4. pc[r] = "countTickets" /\ "countTickets" \notin missed => NoTicket(r, job[r].who)
    BY <2>1 DEF Refers, NoTicket
  <2>5. /\ "countDefaults" \notin missed => NoDefault(r, job[r].who, Cats)'
        /\ pc[r] # "countDefaults" /\ "countMappings" \notin missed => NoMapping(r, job[r].who, Cats)'
        /\ pc[r] = "countTickets" /\ "countTickets" \notin missed => NoTicket(r, job[r].who)'
    BY <1>5, <1>7, <1>9, <2>2, <2>3, <2>4 DEF NoDefault, NoMapping, NoTicket
  <2> QED BY <1>1, <1>3, <1>5, <1>7, <2>5 DEF Progress, Removing, Deleting, Counts
<1>11. ASSUME found
       PROVE  Progress(r)'
  BY <1>5, <1>7, <1>11 DEF Progress, Removing, Deleting
<1> QED BY <1>3, <1>5, <1>6, <1>8, <1>10, <1>11, Unwritten

LEMMA RetireStep == ASSUME IInv, NEW r \in Requests, Retire(r) PROVE Effect(r)
<1>1. /\ job[r] \in Job /\ StageOK(r) /\ pc[r] = "retire" /\ TypeOK /\ Progress(r) /\ Consistent
  BY DEF IInv, TypeOK, Stages, History, Retire
<1>2. /\ job[r].kind = "deleteUser" /\ Running(r) /\ "done" \in PCs
  BY <1>1 DEF StageOK, Running, PCs, EndPCs
<1>3. /\ category' = category /\ mapping' = mapping /\ tickets' = tickets
      /\ ended' = ended /\ Before(r)' = Before(r)
      /\ Ignored(r, "done") \/ Applied(r, "done", job[r])
  BY DEF Retire, Ignored, Decide, Read, Applied, tables, Before
<1>4. ASSUME pc'[r] \in {"retire", "done"}, job'[r] = job[r]
      PROVE  Progress(r)'
  <2>1. ASSUME Deleting(r)
        PROVE  /\ "countDefaults" \notin job[r].missed => NoDefault(r, job[r].who, Cats)'
               /\ "countMappings" \notin job[r].missed => NoMapping(r, job[r].who, Cats)'
               /\ "countTickets" \notin job[r].missed => NoTicket(r, job[r].who)'
    <3>1. /\ "countDefaults" \notin job[r].missed => NoDefault(r, job[r].who, Cats)
          /\ "countMappings" \notin job[r].missed => NoMapping(r, job[r].who, Cats)
          /\ "countTickets" \notin job[r].missed => NoTicket(r, job[r].who)
      BY <1>1, <2>1 DEF Progress
    <3> QED BY <1>3, <1>4, <3>1 DEF NoDefault, NoMapping, NoTicket
  <2> QED BY <1>2, <1>4, <2>1 DEF Progress, Removing, Deleting
<1>5. pc'[r] = "done" /\ job'[r] = job[r] => StageOK(r)'
  BY <1>1, Over DEF EndPCs
<1>6. CASE Ignored(r, "done")
  BY <1>2, <1>4, <1>5, <1>6, Unnoticed
<1>7. ASSUME ~Ignored(r, "done")
      PROVE  Effect(r)
  <2>1. Applied(r, "done", job[r])
    BY <1>3, <1>7
  <2>2. DOMAIN staff' \subseteq People /\ staff' \in [DOMAIN staff' -> Staff]
    <3>1. CASE job[r].saw
      <4>1. staff' = [q \in DOMAIN staff |-> IF q = job[r].who
                                             THEN [staff[q] EXCEPT !.active = FALSE] ELSE staff[q]]
        BY <1>7, <3>1 DEF Retire
      <4>2. \A q \in DOMAIN staff : staff'[q] \in Staff
        BY <1>1, <4>1 DEF TypeOK, Staff
      <4> QED BY <1>1, <4>1, <4>2 DEF TypeOK
    <3>2. CASE ~job[r].saw
      <4>1. staff' = [q \in DOMAIN staff \ {job[r].who} |-> staff[q]]
        BY <1>7, <3>2 DEF Retire
      <4> QED BY <1>1, <4>1 DEF TypeOK
    <3> QED BY <3>1, <3>2
  <2>3. Signed(r) /\ TablesOK' /\ Consistent'
    BY <1>1, <1>3, <2>2 DEF Signed, TablesOK, TypeOK, Consistent, RowsKeepCategory, NamesAreUnique
  <2> QED BY <1>1, <1>2, <1>4, <1>5, <2>1, <2>3, Written
<1> QED BY <1>6, <1>7

-----------------------------------------------------------------------------
(* The invariant.                                                          *)

LEMMA Preserved ==
  ASSUME IInv, NEW r \in Requests, Running(r), Effect(r)
  PROVE  IInv'
<1>1. TypeOK'
  <2>1. ended' = ended /\ TypeOK
    BY DEF Effect, Frame, IInv
  <2> QED BY <2>1 DEF Effect, Frame, TablesOK, TypeOK
<1>2. Stages'
  BY DEF IInv, Stages, StageOK, Effect, Frame, Appointee
<1>3. EndedOK'
  BY DEF IInv, EndedOK, TypeOK, Effect, Frame, Running
<1>4. History'
  BY OthersProgress DEF Effect, History
<1> QED BY <1>1, <1>2, <1>3, <1>4 DEF IInv, Effect

LEMMA EntryOK ==
  ASSUME NEW f \in Forms
  PROVE  /\ Entry(f) \in PCs
         /\ Entry(f) \notin EndPCs \cup {"idle"}
BY DirectoryConstants
   DEF Entry, First, Job, Kinds, Single, Appointing, PCs, EndPCs

LEMMA ArriveStep ==
  ASSUME IInv, NEW r \in Requests, NEW f \in Forms, Arrive(r, f)
  PROVE  IInv'
<1>1. f \in Job /\ Entry(f) \in PCs /\ TypeOK /\ pc[r] = "idle"
  BY DirectoryConstants, EntryOK DEF IInv, Arrive
<1>2. PICK p \in People \cup {NoOne}, saw \in BOOLEAN :
        Answered(r, Entry(f), [f EXCEPT !.seen = p, !.todo = f.blocks, !.queue = f.cats,
                                        !.missed = {}, !.saw = saw])
  <2>1. \A role : (\/ Demotes(f, role)
                   \/ f.kind = "toggle" /\ \E c \in f.cats : category[c].active) \in BOOLEAN
    BY DEF Demotes
  <2> QED BY <2>1, Zenon DEF Arrive
<1> DEFINE j == [f EXCEPT !.seen = p, !.todo = f.blocks, !.queue = f.cats, !.missed = {}, !.saw = saw]
<1>4. /\ j \in Job /\ j.kind = f.kind /\ j.cats = f.cats /\ j.who = f.who /\ j.saw = saw
  BY <1>1, <1>2 DEF Job
<1> HIDE DEF j
<1>5. /\ pc' = [pc EXCEPT ![r] = Entry(f)] /\ job' = [job EXCEPT ![r] = j]
      /\ ended' = [ended EXCEPT ![r] = {s \in Requests : pc[s] \in EndPCs}]
      /\ category' = category /\ mapping' = mapping /\ staff' = staff /\ tickets' = tickets
  BY <1>2 DEF Arrive, Answered, Goto, tables, j
<1>6. /\ pc'[r] = Entry(f) /\ job'[r] = j
      /\ \A q \in Requests \ {r} : pc'[q] = pc[q] /\ job'[q] = job[q] /\ ended'[q] = ended[q]
  BY <1>1, <1>5 DEF TypeOK
<1>7. TypeOK'
  BY <1>1, <1>4, <1>5 DEF TypeOK
<1>8. StageOK(r)'
  <2>1. /\ f.kind \in Single => \E c \in Cats : f.cats = {c}
        /\ f.who = Keep => f.kind = "edit"
        /\ f.who = NoOne => f.kind \in {"create", "edit", "bulkRemove", "bulkToggle",
                                        "toggle", "drop", "ticket"}
    BY DirectoryConstants
  <2>2. CASE Entry(f) = "reactivate"
    BY <1>1, <1>4, <1>6, <2>1, <2>2 DEF StageOK, Entry, First, Job, Kinds, Single, Appointing
  <2>3. CASE Entry(f) = "check"
    BY <1>1, <1>4, <1>6, <2>1, <2>3 DEF StageOK, Entry, First, Job, Kinds, Single, Appointing
  <2>4. CASE Entry(f) = First[f.kind]
    BY <1>1, <1>4, <1>6, <2>1, <2>4 DEF StageOK, First, Job, Kinds, Single, Appointing
  <2> QED BY <2>2, <2>3, <2>4 DEF Entry
<1>9. Stages'
  BY <1>6, <1>8 DEF IInv, Stages, StageOK, Appointee
<1>10. EndedOK'
  BY <1>1, <1>5, <1>6 DEF IInv, EndedOK, TypeOK, EndPCs
<1>11. Progress(r)'
  <2>1. f.kind \in {"remove", "user", "deleteUser"} =>
          Entry(f) \in {"unmap", "writeUser", "countDefaults"}
    BY DEF Entry, First, Appointing
  <2> QED BY <1>4, <1>6, <2>1, QuietProgress DEF Quiet
<1>12. ASSUME NEW q \in Requests \ {r}
       PROVE  Progress(q)'
  BY <1>5, <1>6 DEF IInv, History, Progress, Removing, Deleting, NoMapping, NoDefault, NoTicket,
                    Scope, Before
<1>13. Consistent'
  BY <1>5 DEF IInv, Consistent, RowsKeepCategory, NamesAreUnique
<1> QED BY <1>7, <1>9, <1>10, <1>11, <1>12, <1>13 DEF IInv, History

LEMMA StepEffect == ASSUME IInv, NEW r \in Requests, Step(r) PROVE Effect(r) /\ Running(r)
<1>1. Effect(r)
  BY CheckStep, PromoteStep, LookupStep, SeekStep, InsertMappingStep, CarryOnStep, SetDefaultsStep,
     OverwriteStep, InsertCategoryStep, SetActiveStep, FindTicketsStep, DropCategoryStep,
     WriteUserStep, UnmapStep, SeeDefaultStep, SeeOtherStep, ElectStep, UnmapOneStep, CountStep,
     RetireStep, RouteStep, InsertTicketStep
  DEF Step
<1>2. Running(r)
  BY DEF Step, Check, Promote, Lookup, Seek, InsertMapping, CarryOn, SetDefaults, Overwrite,
         InsertCategory, SetActive, FindTickets, DropCategory, WriteUser, Unmap, SeeDefault,
         SeeOther, Elect, UnmapOne, Count, NextCount, Retire, Route, InsertTicket, Running, EndPCs
<1> QED BY <1>1, <1>2

LEMMA Initially == Init => IInv
<1> SUFFICES ASSUME Init PROVE IInv
  OBVIOUS
<1> USE DirectoryConstants DEF Init
<1>1. TypeOK
  <2>1. /\ DOMAIN category \subseteq Cats /\ category \in [DOMAIN category -> Category]
    BY DEF Cats
  <2>2. DOMAIN mapping \subseteq Slots /\ mapping \in [DOMAIN mapping -> Authors]
    BY DEF Cats, Slots, Authors
  <2>3. pc \in [Requests -> PCs]
    BY DEF PCs
  <2> QED BY <2>1, <2>2, <2>3 DEF TypeOK
<1>2. Stages /\ EndedOK
  BY DEF Stages, StageOK, EndedOK
<1>3. History
  BY DEF History, Progress
<1>4. Consistent
  BY DEF Consistent, RowsKeepCategory, NamesAreUnique
<1> QED BY <1>1, <1>2, <1>3, <1>4 DEF IInv

LEMMA Inductive == IInv /\ [Next]_vars => IInv'
<1>1. ASSUME IInv, Next PROVE IInv'
  <2>1. PICK r \in Requests : (\E f \in Forms : Arrive(r, f)) \/ Step(r) \/ Fail(r)
    BY <1>1 DEF Next
  <2>2. CASE \E f \in Forms : Arrive(r, f)
    BY <1>1, <2>2, ArriveStep
  <2>3. CASE Step(r)
    BY <1>1, <2>3, StepEffect, Preserved
  <2>4. CASE Fail(r)
    BY <1>1, <2>4, FailStep, Preserved DEF Fail
  <2> QED BY <2>1, <2>2, <2>3, <2>4
<1>2. ASSUME IInv, UNCHANGED vars PROVE IInv'
  BY <1>2 DEF vars, tables, IInv, TypeOK, Stages, StageOK, Appointee, EndedOK, History, Progress,
     Removing, Deleting, NoMapping, NoDefault, NoTicket, Scope, Before, Consistent,
     RowsKeepCategory, NamesAreUnique
<1> QED BY <1>1, <1>2

LEMMA Always == Spec => []IInv
BY Initially, Inductive, PTL DEF Spec

\* The variables keep their types: the columns hold users, categories and
\* blocks that exist, NULL only where the handlers write it, and a handler is
\* at one of its statements.
THEOREM TypeCorrect == Spec => []TypeOK
<1>1. IInv => TypeOK
  BY DEF IInv
<1> QED BY <1>1, Always, PTL

\* remove_ca_from_category and unassign_ca_from_all_categories leave nothing
\* of what had made the user responsible when they began, whatever runs along.
THEOREM RemovalsTakeEffect == Spec => []RemovalTakesEffect
<1>1. IInv => RemovalTakesEffect
  BY DEF IInv, TypeOK, History, Progress, Removing, NoDefault, NoMapping, DefaultsOf, Existing,
         RemovalTakesEffect
<1> QED BY <1>1, Always, PTL

\* delete_user deletes nobody a row refers to that was there when it began,
\* whatever is assigned between its counts, as far as the counts answered.
THEOREM DeletionsLoseNothing == Spec => []NoReferenceLost
<1>1. IInv => NoReferenceLost
  BY DEF IInv, TypeOK, Slots, History, Progress, Deleting, NoDefault, NoMapping, NoTicket,
         DefaultsOf, Existing, NoReferenceLost
<1> QED BY <1>1, Always, PTL

\* A ticket and a mapping keep their category: a count and a DELETE in two
\* statements rely on the foreign key.
THEOREM CategoriesStay == Spec => []RowsKeepCategory
<1>1. IInv => RowsKeepCategory
  BY DEF IInv, Consistent
<1> QED BY <1>1, Always, PTL

\* No two categories of the department have the same name: category_exists
\* and the INSERT or UPDATE in two statements rely on the unique key.
THEOREM NamesStayUnique == Spec => []NamesAreUnique
<1>1. IInv => NamesAreUnique
  BY DEF IInv, Consistent
<1> QED BY <1>1, Always, PTL

-----------------------------------------------------------------------------
(* An assignment takes effect.  Spares(s) says what a step of s may take    *)
(* away, and Kept(r) how much of an assignment is made at each statement of *)
(* r and not taken away by a request that r met.                            *)

\* A removal elects a new default only where it had removed one.
QueueOK(s) == pc[s] \in {"seeOther", "elect"} => job[s].queue \subseteq Scope(s)
Queues == \A s \in Requests : QueueOK(s)

Spares(s) ==
  /\ \A p \in People : Found(p) => Found(p)' \/ (job[s].kind = "deleteUser" /\ job[s].who = p)
  /\ \A c \in DOMAIN category :
       \/ c \in DOMAIN category' /\ (category'[c].default = NoOne => category[c].default = NoOne)
       \/ c \in DOMAIN category' /\ c \in Scope(s)
          /\ job[s].kind \in {"remove", "user", "edit", "bulkRemove"}
       \/ job[s].kind = "drop" /\ c \in job[s].cats
  /\ \A slot \in DOMAIN mapping :
       \/ slot \in DOMAIN mapping'
       \/ job[s].kind \in {"remove", "user", "unmapOne"} /\ job[s].who = slot.ca
       \/ job[s].kind = "drop" /\ slot.category \in job[s].cats

\* What a request does not forget of its form.
Form(s) ==
  /\ pc'[s] # "idle"
  /\ job'[s].kind = job[s].kind /\ job'[s].cats = job[s].cats /\ job'[s].blocks = job[s].blocks
  /\ job'[s].who = job[s].who \/ job[s].kind \in {"create", "edit"}

LEMMA AnsweredForm ==
  ASSUME TypeOK, NEW s \in Requests, pc[s] # "idle", NEW label, label # "idle", NEW j,
         j.kind = job[s].kind, j.cats = job[s].cats, j.blocks = job[s].blocks,
         j.who = job[s].who \/ job[s].kind \in {"create", "edit"},
         Read(s, label, j) \/ Applied(s, label, j)
  PROVE  Form(s)
BY DEF TypeOK, Form, Read, Applied, Answered, Resent, Stopped, Goto

LEMMA KeepsForm ==
  ASSUME IInv, NEW s \in Requests, Step(s) \/ Fail(s)
  PROVE  Form(s)
<1>1. TypeOK /\ job[s] \in Job /\ pc[s] # "idle"
  <2>1. Running(s)
    BY StepEffect DEF Fail
  <2> QED BY <2>1 DEF IInv, TypeOK, Running
<1>0. First[job[s].kind] # "idle" /\ AfterMapping(s) # "idle"
       /\ (pc[s] \in DOMAIN NextCount => NextCount[pc[s]] # "idle")
  BY <1>1 DEF First, AfterMapping, NextCount, Job, Kinds, Single, Appointing
<1>2. ASSUME NEW label, label # "idle", Decide(s, label) \/ Applied(s, label, job[s])
      PROVE  Form(s)
  BY <1>1, <1>2, AnsweredForm DEF Decide
<1>3. CASE Check(s) \/ Promote(s) \/ SetDefaults(s) \/ Overwrite(s) \/ InsertCategory(s)
           \/ SetActive(s) \/ FindTickets(s) \/ DropCategory(s) \/ WriteUser(s)
  BY <1>2, <1>0, <1>3 DEF Check, Promote, SetDefaults, Overwrite, InsertCategory, SetActive, FindTickets,
     DropCategory, WriteUser, Ignored
<1>4. CASE Unmap(s) \/ UnmapOne(s) \/ Retire(s) \/ InsertTicket(s) \/ InsertMapping(s)
  BY <1>2, <1>4 DEF Unmap, UnmapOne, Retire, InsertTicket, InsertMapping, Ignored
<1>5. CASE Lookup(s)
  <2>1. PICK c \in job[s].cats :
          \/ Decide(s, "failed")
          \/ Read(s, "overwrite", [job[s] EXCEPT !.name = category[c].name])
          \/ Read(s, "seek", [job[s] EXCEPT !.seen = category[c].default])
    <3>1. StageOK(s) /\ pc[s] = "lookup"
      BY <1>5 DEF Lookup, IInv, Stages
    <3>2. job[s].kind \in {"assign", "setDefault"}
      BY <3>1 DEF StageOK
    <3> QED BY <1>5, <3>2 DEF Lookup
  <2> QED BY <1>1, <1>2, <2>1, AnsweredForm DEF Job
<1>6. CASE Seek(s)
  BY <1>1, <1>2, <1>0, <1>6, AnsweredForm DEF Seek, Job
<1>7. CASE CarryOn(s)
  BY <1>1, <1>2, <1>0, <1>7, AnsweredForm DEF CarryOn, Job
<1>8. CASE SeeDefault(s)
  BY <1>1, <1>2, <1>8, AnsweredForm DEF SeeDefault, Job
<1>9. CASE SeeOther(s)
  BY <1>1, <1>2, <1>9, AnsweredForm DEF SeeOther, Job
<1>10. CASE Elect(s)
  BY <1>1, <1>2, <1>10, AnsweredForm DEF Elect, Job
<1>11. CASE Count(s)
  BY <1>1, <1>2, <1>0, <1>11, AnsweredForm DEF Count, Job
<1>12. CASE Route(s)
  BY <1>1, <1>2, <1>12, AnsweredForm DEF Route, Job
<1>13. CASE Fail(s)
  BY <1>1, <1>13 DEF Fail, Stopped, Form, Goto, TypeOK
<1> QED BY <1>3, <1>4, <1>5, <1>6, <1>7, <1>8, <1>9, <1>10, <1>11, <1>12, <1>13 DEF Step

LEMMA ReadsSpare ==
  ASSUME NEW s \in Requests, UNCHANGED tables
  PROVE  Spares(s)
BY DEF Spares, Found, tables

LEMMA WritesSpare ==
  ASSUME IInv, Queues, NEW s \in Requests, Step(s) \/ Fail(s)
  PROVE  Spares(s)
<1>1. job[s] \in Job /\ StageOK(s) /\ TypeOK /\ QueueOK(s)
  BY DEF IInv, TypeOK, Stages, Queues
<1>2. CASE Check(s) \/ Lookup(s) \/ Seek(s) \/ CarryOn(s) \/ FindTickets(s) \/ SeeDefault(s)
           \/ SeeOther(s) \/ Count(s) \/ Route(s) \/ Fail(s)
  <2>1. UNCHANGED tables
    BY <1>1, <1>2 DEF Check, Lookup, Seek, CarryOn, FindTickets, SeeDefault, SeeOther, Count, Route, Fail,
       Decide, Read, StageOK
  <2> QED BY <2>1, ReadsSpare
<1>3. CASE Promote(s) \/ WriteUser(s)
  <2>1. /\ category' = category /\ mapping' = mapping
        /\ DOMAIN staff \subseteq DOMAIN staff'
    BY <1>3 DEF Promote, WriteUser, Ignored, Decide, Read, tables, WithRole
  <2> QED BY <2>1 DEF Spares, Found
<1>4. CASE InsertMapping(s)
  <2>1. category' = category /\ staff' = staff /\ DOMAIN mapping \subseteq DOMAIN mapping'
    BY <1>4 DEF InsertMapping, Decide, Read, tables
  <2> QED BY <2>1 DEF Spares, Found
<1>5. CASE SetDefaults(s)
  <2>1. /\ category' = Appointed(job[s].cats, job[s].who, s)
        /\ mapping' = mapping /\ staff' = staff
    BY <1>5 DEF SetDefaults
  <2>2. \/ job[s].kind = "bulkRemove" /\ Scope(s) = job[s].cats
        \/ job[s].who # NoOne
    BY <1>1, <1>5 DEF SetDefaults, StageOK, Scope
  <2>3. \A c \in DOMAIN category :
          /\ c \in DOMAIN category'
          /\ c \notin job[s].cats => category'[c] = category[c]
          /\ c \in job[s].cats => category'[c].default = job[s].who
    BY <1>1, <2>1 DEF Appointed, Existing, TypeOK, Category
  <2> QED BY <2>1, <2>2, <2>3 DEF Spares, Found
<1>6. CASE Overwrite(s)
  <2>1. CASE UNCHANGED tables
    BY <2>1, ReadsSpare
  <2>2. CASE /\ category' = [c \in Existing |->
                           IF c \in job[s].cats
                           THEN [category[c] EXCEPT !.name = job[s].name, !.author = s,
                                                    !.default = Appointee(s)]
                           ELSE category[c]]
             /\ mapping' = mapping /\ staff' = staff
    <3>1. \A c \in DOMAIN category :
            /\ c \in DOMAIN category'
            /\ c \notin job[s].cats => category'[c] = category[c]
            /\ c \in job[s].cats => category'[c].default = Appointee(s)
      BY <1>1, <2>2 DEF Existing, TypeOK, Category
    <3>2. \/ job[s].kind = "edit" /\ Scope(s) = job[s].cats
          \/ Appointee(s) # NoOne
      BY <1>1, <1>6 DEF Overwrite, StageOK, Scope, Appointee
    <3> QED BY <2>2, <3>1, <3>2 DEF Spares, Found
  <2> QED BY <1>6, <2>1, <2>2 DEF Overwrite, Decide, Read
<1>7. CASE InsertCategory(s)
  <2>1. CASE UNCHANGED tables
    BY <2>1, ReadsSpare
  <2>2. CASE ~UNCHANGED tables
    <3>1. /\ s \notin DOMAIN category /\ mapping' = mapping /\ staff' = staff
          /\ \A c \in DOMAIN category : c \in DOMAIN category' /\ category'[c] = category[c]
      BY <1>7, <2>2 DEF InsertCategory, Existing, Decide, Read
    <3> QED BY <3>1 DEF Spares, Found
  <2> QED BY <2>1, <2>2
<1>8. CASE SetActive(s)
  <2>1. mapping' = mapping /\ staff' = staff
    BY <1>8 DEF SetActive
  <2> DEFINE cs == IF pc[s] = "reactivate" THEN Named(job[s].name) ELSE job[s].cats
             value == CASE pc[s] = "reactivate" -> TRUE
                        [] job[s].kind = "toggle" -> ~job[s].saw
                        [] OTHER -> job[s].on
  <2>2. category' = [c \in Existing |-> IF c \in cs THEN [category[c] EXCEPT !.active = value]
                                                   ELSE category[c]]
    BY <1>8 DEF SetActive
  <2> HIDE DEF cs, value
  <2>3. \A c \in DOMAIN category : c \in DOMAIN category' /\ category'[c].default = category[c].default
    BY <1>1, <2>2 DEF Existing, TypeOK, Category
  <2> QED BY <2>1, <2>3 DEF Spares, Found
<1>9. CASE DropCategory(s)
  <2>1. CASE UNCHANGED tables
    BY <2>1, ReadsSpare
  <2>2. CASE ~UNCHANGED tables
    <3>1. /\ category' = [c \in Existing \ job[s].cats |-> category[c]]
          /\ mapping' = [m \in {m \in DOMAIN mapping : m.category \notin job[s].cats} |-> mapping[m]]
          /\ staff' = staff /\ job[s].kind = "drop"
      BY <1>1, <1>9, <2>2 DEF DropCategory, Decide, Read, StageOK
    <3> QED BY <3>1 DEF Spares, Found, Existing
  <2> QED BY <2>1, <2>2
<1>10. CASE Unmap(s)
  <2>1. CASE UNCHANGED tables
    BY <2>1, ReadsSpare
  <2>2. CASE ~UNCHANGED tables
    <3>1. /\ mapping' = Without(Scope(s), job[s].who)
          /\ category' = category /\ staff' = staff /\ job[s].kind \in {"remove", "user"}
      BY <1>1, <1>10, <2>2 DEF Unmap, Decide, Read, StageOK
    <3> QED BY <3>1 DEF Spares, Found, Without
  <2> QED BY <2>1, <2>2
<1>11. CASE Elect(s)
  <2>1. /\ category' = Appointed({job[s].cat}, job[s].seen, s)
        /\ mapping' = mapping /\ staff' = staff
        /\ job[s].kind \in {"remove", "user"} /\ job[s].cat \in Scope(s)
    BY <1>1, <1>11 DEF Elect, StageOK, QueueOK
  <2>2. \A c \in DOMAIN category :
          /\ c \in DOMAIN category'
          /\ c # job[s].cat => category'[c] = category[c]
    BY <2>1 DEF Appointed, Existing
  <2> QED BY <2>1, <2>2 DEF Spares, Found
<1>12. CASE UnmapOne(s)
  <2>1. /\ mapping' = [m \in {m \in DOMAIN mapping : ~(/\ m.category \in job[s].cats
                                                      /\ m.ca = job[s].who
                                                      /\ m.block \in job[s].blocks)} |-> mapping[m]]
        /\ category' = category /\ staff' = staff /\ job[s].kind = "unmapOne"
    BY <1>1, <1>12 DEF UnmapOne, StageOK
  <2> QED BY <2>1 DEF Spares, Found
<1>13. CASE Retire(s)
  <2>1. CASE UNCHANGED tables
    BY <2>1, ReadsSpare
  <2>2. CASE ~UNCHANGED tables
    <3>1. /\ DOMAIN staff \ {job[s].who} \subseteq DOMAIN staff'
          /\ category' = category /\ mapping' = mapping /\ job[s].kind = "deleteUser"
      BY <1>1, <1>13, <2>2 DEF Retire, Ignored, Decide, Read, StageOK
    <3> QED BY <3>1 DEF Spares, Found
  <2> QED BY <2>1, <2>2
<1>14. CASE InsertTicket(s)
  BY <1>14 DEF InsertTicket, Decide, Read, tables, Spares, Found
<1> QED BY <1>2, <1>3, <1>4, <1>5, <1>6, <1>7, <1>8, <1>9, <1>10, <1>11, <1>12, <1>13, <1>14
        DEF Step

LEMMA QueueStep ==
  ASSUME IInv, NEW s \in Requests, QueueOK(s), Step(s) \/ Fail(s)
  PROVE  QueueOK(s)'
<1>1. /\ job[s] \in Job /\ StageOK(s) /\ TypeOK
      /\ Form(s) /\ Scope(s)' = Scope(s)
  BY KeepsForm DEF IInv, TypeOK, Stages, Form, Scope
<1>2. CASE SeeDefault(s)
  BY <1>1, <1>2 DEF SeeDefault, Read, Answered, Goto, QueueOK, TypeOK, Job
<1>3. CASE SeeOther(s)
  BY <1>1, <1>3 DEF SeeOther, Read, Answered, Goto, QueueOK, TypeOK, Job
<1>4. CASE Elect(s)
  <2>1. job'[s].queue \subseteq job[s].queue /\ pc[s] = "elect"
    BY <1>1, <1>4 DEF Elect, Applied, Answered, Resent, Stopped, TypeOK, Job
  <2> QED BY <1>1, <2>1 DEF QueueOK
<1>5. CASE ~SeeDefault(s) /\ ~SeeOther(s) /\ ~Elect(s)
  <2>1. pc'[s] \notin {"seeOther", "elect"}
    <3>1. CASE Check(s) \/ Promote(s) \/ CarryOn(s)
      <4>1. job[s].kind \in Appointing
        BY <1>1, <3>1 DEF Check, Promote, CarryOn, StageOK, Appointing
      <4>2. First[job[s].kind] \notin {"seeOther", "elect"}
        BY <4>1 DEF First, Appointing
      <4> HIDE DEF First
      <4> QED BY <1>1, <3>1, <4>2 DEF Check, Promote, CarryOn, Ignored, Decide, Read, Applied,
                 Answered, Resent, Stopped, Goto, TypeOK
    <3>4. CASE Lookup(s)
      <4>1. job[s].kind \in {"assign", "setDefault"}
        BY <1>1, <3>4 DEF Lookup, StageOK
      <4>2. \/ Goto(s, "failed") \/ Goto(s, "overwrite") \/ Goto(s, "seek")
        BY <3>4, <4>1 DEF Lookup, Decide, Read, Answered
      <4> QED BY <1>1, <4>2 DEF Goto, TypeOK
    <3>5. CASE Seek(s) \/ InsertMapping(s)
      BY <1>1, <3>5 DEF Seek, InsertMapping, Decide, Read, Applied, Answered, Resent, Stopped, Goto,
         TypeOK, AfterMapping
    <3>2. CASE SetDefaults(s) \/ Overwrite(s) \/ InsertCategory(s) \/ SetActive(s) \/ FindTickets(s)
               \/ DropCategory(s) \/ WriteUser(s) \/ Unmap(s) \/ UnmapOne(s) \/ Fail(s)
      BY <1>1, <3>2 DEF SetDefaults, Overwrite, InsertCategory, SetActive, FindTickets,
         DropCategory, WriteUser, Unmap, UnmapOne, Fail, Ignored, Decide, Read, Applied, Answered,
         Resent, Stopped, Goto, TypeOK
    <3>3. CASE Count(s) \/ Retire(s) \/ Route(s) \/ InsertTicket(s)
      BY <1>1, <3>3 DEF Count, NextCount, Retire, Route, InsertTicket, Ignored, Decide, Read, Applied,
         Answered, Resent, Stopped, Goto, TypeOK
    <3> QED BY <1>5, <3>1, <3>2, <3>3, <3>4, <3>5 DEF Step
  <2> QED BY <2>1 DEF QueueOK
<1> QED BY <1>2, <1>3, <1>4, <1>5

\* r met a request that took a mapping of the assignee, or the category, away;
\* and one that left the category without a default assignee.
Dropped(r, c) == \E s \in Requests : Meets(s, r) /\ job[s].kind = "drop" /\ c \in job[s].cats
Taken(r, c) ==
  \E s \in Requests : Meets(s, r) /\
    \/ /\ job[s].kind \in {"remove", "user", "unmapOne", "deleteUser"}
       /\ job[s].who = job[r].who
    \/ job[s].kind = "drop" /\ c \in job[s].cats
Cleared(r, c) ==
  \E s \in Requests : /\ Meets(s, r) /\ c \in Scope(s)
                      /\ job[s].kind \in {"remove", "user", "edit", "bulkRemove", "drop"}

\* The blocks an assignment has not come to, and whether the category must have
\* a default assignee by now.
Pending(r) == CASE pc[r] = "seek" -> job[r].todo
                [] pc[r] = "insertMapping" -> job[r].todo \cup {job[r].at}
                [] OTHER -> {}
Settled(r) == \/ pc[r] = "done"
              \/ pc[r] \in {"seek", "insertMapping"} /\ job[r].seen # NoOne

MappedFor(r, c, b) == [category |-> c, ca |-> job[r].who, block |-> b] \in DOMAIN mapping

KeptIn(r, c) ==
  /\ Found(job[r].who) \/ Taken(r, c)
  /\ c \in DOMAIN category \/ Dropped(r, c)
  /\ \A b \in job[r].blocks \ Pending(r) : MappedFor(r, c, b) \/ Taken(r, c)
  /\ Settled(r) => (c \in DOMAIN category /\ category[c].default # NoOne) \/ Cleared(r, c)

Kept(r) ==
  job[r].kind = "assign" =>
    /\ pc[r] \in {"check", "promote", "lookup"} => job[r].todo = job[r].blocks
    /\ pc[r] \in {"seek", "insertMapping", "setDefaults", "done"} =>
         \A c \in job[r].cats : KeptIn(r, c)

AllKept == Queues /\ \A r \in Requests : Kept(r)

LEMMA OthersMeet ==
  ASSUME IInv, NEW s \in Requests, Running(s), Frame(s), Form(s),
         NEW r \in Requests, NEW c, pc[r] # "idle"
  PROVE  /\ s # r => Meets(s, r)
         /\ job'[r].who = job[r].who =>
              (Dropped(r, c) => Dropped(r, c)') /\ (Taken(r, c) => Taken(r, c)')
         /\ Cleared(r, c) => Cleared(r, c)'
<1>1. s \notin ended[r]
  BY DEF IInv, EndedOK, Running
<1>2. ASSUME NEW q \in Requests
      PROVE  /\ Meets(q, r) => Meets(q, r)'
             /\ job'[q].kind = job[q].kind /\ job'[q].cats = job[q].cats
             /\ job'[q].who = job[q].who \/ job[q].kind \in {"create", "edit"}
  <2>1. CASE q = s
    BY <2>1 DEF Meets, Frame, Form
  <2>2. CASE q # s
    BY <2>2 DEF Meets, Frame
  <2> QED BY <2>1, <2>2
<1>3. s # r => Meets(s, r)
  BY <1>1 DEF Meets, Running
<1>4. ASSUME job'[r].who = job[r].who
      PROVE  (Dropped(r, c) => Dropped(r, c)') /\ (Taken(r, c) => Taken(r, c)')
  BY <1>2, <1>4 DEF Dropped, Taken
<1>5. Cleared(r, c) => Cleared(r, c)'
  BY <1>2 DEF Cleared, Scope
<1> QED BY <1>3, <1>4, <1>5

\* What a step of another request takes away, it took away from a request it met.
LEMMA OthersKept ==
  ASSUME IInv, Queues, NEW s \in Requests, Step(s) \/ Fail(s),
         NEW r \in Requests, r # s, Kept(r)
  PROVE  Kept(r)'
<1>1. /\ Effect(s) /\ Running(s) /\ Form(s) /\ Spares(s)
  BY StepEffect, FailStep, KeepsForm, WritesSpare DEF Fail
<1>2. /\ Frame(s) /\ pc'[r] = pc[r] /\ job'[r] = job[r]
      /\ job[r] \in Job /\ StageOK(r)
  BY <1>1 DEF Effect, Frame, IInv, TypeOK, Stages
<1>3. ASSUME job[r].kind = "assign", pc[r] \in {"seek", "insertMapping", "setDefaults", "done"},
             NEW c \in job[r].cats
      PROVE  KeptIn(r, c)'
  <2>1. /\ Meets(s, r) /\ KeptIn(r, c) /\ job[r].who \in People
        /\ Dropped(r, c) => Dropped(r, c)'
        /\ Taken(r, c) => Taken(r, c)'
        /\ Cleared(r, c) => Cleared(r, c)'
    BY <1>1, <1>2, <1>3, OthersMeet DEF Kept, StageOK, Job
  <2>2. Meets(s, r)' /\ Scope(s)' = Scope(s)
    BY <1>1, <1>2, <2>1 DEF Meets, Form, Frame, Scope
  <2>3. /\ job[s].kind = "drop" /\ c \in job[s].cats =>
             Dropped(r, c)' /\ Taken(r, c)' /\ Cleared(r, c)'
        /\ job[s].kind \in {"remove", "user", "unmapOne", "deleteUser"} /\ job[s].who = job[r].who =>
             Taken(r, c)'
        /\ job[s].kind \in {"remove", "user", "edit", "bulkRemove"} /\ c \in Scope(s) => Cleared(r, c)'
    BY <1>1, <1>2, <2>2 DEF Form, Dropped, Taken, Cleared, Scope
  <2>4. Found(job[r].who)' \/ Taken(r, c)'
    BY <1>1, <1>2, <2>1, <2>3 DEF KeptIn, Spares, Found
  <2>5. c \in DOMAIN category' \/ Dropped(r, c)'
    BY <1>1, <2>1, <2>3 DEF KeptIn, Spares
  <2>6. Pending(r)' = Pending(r) /\ Settled(r)' = Settled(r)
    BY <1>2 DEF Pending, Settled
  <2>7. ASSUME NEW b \in job[r].blocks \ Pending(r)
        PROVE  MappedFor(r, c, b)' \/ Taken(r, c)'
    BY <1>1, <1>2, <2>1, <2>3 DEF KeptIn, Spares, MappedFor
  <2>8. Settled(r) => (c \in DOMAIN category' /\ category'[c].default # NoOne) \/ Cleared(r, c)'
    BY <1>1, <2>1, <2>3 DEF KeptIn, Spares
  <2> QED BY <1>2, <2>4, <2>5, <2>6, <2>7, <2>8 DEF KeptIn
<1> QED BY <1>2, <1>3 DEF Kept

\* What the statements of an assignment do to it.
LEMMA OwnKept ==
  ASSUME IInv, Queues, NEW r \in Requests, Step(r) \/ Fail(r), Kept(r)
  PROVE  Kept(r)'
<1>1. /\ Effect(r) /\ Running(r) /\ Form(r) /\ Frame(r)
      /\ job[r] \in Job /\ StageOK(r) /\ TypeOK
  BY StepEffect, FailStep, KeepsForm DEF Fail, Effect, IInv, TypeOK, Stages
<1>2. SUFFICES ASSUME job[r].kind = "assign", pc'[r] \notin EndPCs \ {"done"}
               PROVE  Kept(r)'
  BY <1>1 DEF Kept, Form, EndPCs
<1>3. /\ job'[r].kind = "assign" /\ job'[r].who = job[r].who /\ job'[r].cats = job[r].cats
      /\ job'[r].blocks = job[r].blocks /\ job[r].who \in People /\ Appointee(r) = job[r].who
  BY <1>1, <1>2 DEF Form, StageOK, Job, Running, Appointee, Single, Appointing
<1>4. ASSUME NEW c
      PROVE  /\ Dropped(r, c) => Dropped(r, c)' /\ Taken(r, c)
             /\ Taken(r, c) => Taken(r, c)'
             /\ Cleared(r, c) => Cleared(r, c)'
  BY <1>1, <1>3, OthersMeet DEF Running, Dropped, Taken
<1>5. CASE Check(r) \/ Promote(r)
  <2>1. pc'[r] \in {"promote", "lookup"} /\ job'[r] = job[r] /\ pc[r] \in {"check", "promote"}
    BY <1>1, <1>2, <1>5 DEF Check, Promote, First, Ignored, Decide, Read, Applied, Answered, Resent,
       Stopped, Goto, TypeOK, EndPCs
  <2> QED BY <2>1 DEF Kept
<1>6. CASE Lookup(r)
  <2>1. PICK c \in job[r].cats :
          /\ c \in Existing /\ Found(job[r].who)
          /\ Read(r, "seek", [job[r] EXCEPT !.seen = category[c].default])
    BY <1>1, <1>2, <1>6 DEF Lookup, Decide, Read, Answered, Goto, TypeOK, EndPCs
  <2>2. /\ pc[r] = "lookup" /\ pc'[r] = "seek" /\ job'[r].seen = category[c].default
        /\ job'[r].todo = job[r].blocks /\ job'[r].who = job[r].who
        /\ category' = category /\ staff' = staff
    BY <1>1, <1>2, <1>6, <2>1 DEF Lookup, Kept, Read, Answered, Goto, TypeOK, Job, tables
  <2>3. job[r].cats = {c}
    BY <1>1, <1>2, <2>2 DEF StageOK, Single
  <2>4. KeptIn(r, c)'
    BY <1>3, <2>1, <2>2 DEF KeptIn, Found, Existing, Pending, Settled
  <2> QED BY <1>3, <2>2, <2>3, <2>4 DEF Kept
<1>7. CASE Seek(r)
  <2>1. PICK c \in job[r].cats : job[r].cats = {c} /\ Targets(r) = {c}
    BY <1>1, <1>2, <1>7 DEF Seek, StageOK, Single, Targets
  <2>2. /\ pc[r] = "seek" /\ KeptIn(r, c) /\ Pending(r) = job[r].todo
        /\ Settled(r) = (job[r].seen # NoOne)
    BY <1>2, <1>7, <2>1 DEF Seek, Kept, Pending, Settled
  <2>3. /\ category' = category /\ mapping' = mapping /\ staff' = staff
    BY <1>7 DEF Seek, Decide, Read, tables
  <2>4. SUFFICES KeptIn(r, c)' /\ pc'[r] \notin {"check", "promote", "lookup"}
    BY <1>3, <2>1 DEF Kept
  <2>5. CASE job[r].todo = {} /\ Decide(r, AfterMapping(r))
    <3>1. /\ job'[r] = job[r]
          /\ pc'[r] = IF job[r].seen = NoOne THEN "setDefaults" ELSE "done"
      BY <1>1, <1>2, <2>5 DEF Decide, Read, Answered, Goto, TypeOK, AfterMapping
    <3>2. Pending(r)' \subseteq {} /\ (Settled(r)' => Settled(r))
      BY <2>2, <3>1 DEF Pending, Settled
    <3> QED BY <1>4, <2>2, <2>3, <2>5, <3>1, <3>2 DEF KeptIn, Found, MappedFor
  <2>6. CASE \E b \in job[r].todo :
               LET j == [job[r] EXCEPT !.todo = @ \ {b}, !.at = b]
               IN  IF c \in Existing /\ Found(Appointee(r)) /\ SlotOf(r, c, b) \notin DOMAIN mapping
                   THEN Read(r, "insertMapping", j)
                   ELSE Read(r, "seek", j)
    <3>1. PICK b \in job[r].todo :
            /\ job'[r] = [job[r] EXCEPT !.todo = @ \ {b}, !.at = b]
            /\ \/ pc'[r] = "insertMapping"
               \/ /\ pc'[r] = "seek"
                  /\ c \notin Existing \/ ~Found(job[r].who) \/ MappedFor(r, c, b)
      BY <1>1, <1>3, <2>6 DEF Read, Answered, Goto, TypeOK, SlotOf, MappedFor
    <3>2. /\ job'[r].todo = job[r].todo \ {b} /\ job'[r].at = b /\ job'[r].seen = job[r].seen
      BY <1>1, <3>1 DEF Job
    <3>3. (Settled(r)' => Settled(r)) /\ Pending(r)' = IF pc'[r] = "seek" THEN job[r].todo \ {b}
                                                       ELSE job[r].todo
      BY <2>2, <3>1, <3>2 DEF Pending, Settled
    <3>4. ASSUME NEW d \in job[r].blocks \ Pending(r)'
          PROVE  MappedFor(r, c, d)' \/ Taken(r, c)'
      <4>1. MappedFor(r, c, d) \/ Taken(r, c)
        <5>1. CASE d \in job[r].todo
          BY <1>4, <2>2, <3>1, <3>3, <3>4, <5>1 DEF KeptIn, Existing
        <5>2. CASE d \notin job[r].todo
          BY <2>2, <5>2 DEF KeptIn
        <5> QED BY <5>1, <5>2
      <4> QED BY <1>3, <1>4, <2>3, <4>1 DEF MappedFor
    <3> QED BY <1>3, <1>4, <2>2, <2>3, <3>1, <3>3, <3>4 DEF KeptIn, Found
  <2>7. Appointee(r) # NoOne
    BY <1>3, DirectoryConstants
  <2> QED BY <1>7, <2>1, <2>5, <2>6, <2>7 DEF Seek
<1>8. CASE InsertMapping(r)
  <2>1. PICK c \in job[r].cats : job[r].cats = {c} /\ Targets(r) = {c}
    BY <1>1, <1>2, <1>8 DEF InsertMapping, StageOK, Single, Targets
  <2>2. /\ pc[r] = "insertMapping" /\ KeptIn(r, c) /\ Pending(r) = job[r].todo \cup {job[r].at}
        /\ Settled(r) = (job[r].seen # NoOne)
    BY <1>2, <1>8, <2>1 DEF InsertMapping, Kept, Pending, Settled
  <2> DEFINE slot == SlotOf(r, c, job[r].at)
  <2>3. /\ category' = category /\ staff' = staff /\ DOMAIN mapping' = DOMAIN mapping \cup {slot}
        /\ pc'[r] \in {"insertMapping", "seek"} /\ job'[r] = job[r]
    BY <1>1, <1>2, <1>8, <2>1, <2>2 DEF InsertMapping, Decide, Read, Applied, Answered, Resent, Stopped,
       Goto, TypeOK, EndPCs
  <2>4. slot = [category |-> c, ca |-> job[r].who, block |-> job[r].at]
    BY <1>3 DEF SlotOf
  <2> HIDE DEF slot
  <2>5. MappedFor(r, c, job[r].at)' /\ \A b : MappedFor(r, c, b) => MappedFor(r, c, b)'
    BY <2>3, <2>4 DEF MappedFor
  <2>6. (Settled(r)' = Settled(r)) /\ Pending(r) \ {job[r].at} \subseteq Pending(r)'
    BY <2>2, <2>3 DEF Settled, Pending
  <2>7. KeptIn(r, c)'
    BY <1>4, <2>2, <2>3, <2>5, <2>6 DEF KeptIn, Found
  <2> QED BY <2>1, <2>3, <2>7 DEF Kept
<1>9. CASE SetDefaults(r)
  <2>1. PICK c \in job[r].cats : job[r].cats = {c}
    BY <1>1, <1>2, <1>9 DEF SetDefaults, StageOK, Single
  <2>2. /\ pc[r] = "setDefaults" /\ KeptIn(r, c) /\ Pending(r) = {}
        /\ category' = Appointed({c}, job[r].who, r) /\ mapping' = mapping /\ staff' = staff
    BY <1>2, <1>9, <2>1 DEF SetDefaults, Kept, Pending
  <2>3. pc'[r] \in {"setDefaults", "done"} /\ job'[r] = job[r]
    BY <1>1, <1>2, <1>9, <2>2 DEF SetDefaults, Applied, Answered, Resent, Stopped, Goto, TypeOK, EndPCs
  <2>4. /\ DOMAIN category' = DOMAIN category
        /\ c \in DOMAIN category => category'[c].default = job[r].who
    BY <1>1, <2>2 DEF Appointed, Existing, TypeOK, Category
  <2>5. Pending(r)' = {} /\ job[r].who # NoOne /\ (Dropped(r, c)' => Cleared(r, c)')
    BY <1>3, <2>3, DirectoryConstants DEF Pending, Dropped, Cleared, Scope
  <2>6. KeptIn(r, c)'
    BY <1>4, <2>2, <2>3, <2>4, <2>5 DEF KeptIn, Found, MappedFor
  <2> QED BY <2>1, <2>3, <2>6 DEF Kept
<1>10. ~(\/ CarryOn(r) \/ Overwrite(r) \/ InsertCategory(r) \/ SetActive(r) \/ FindTickets(r)
         \/ DropCategory(r) \/ WriteUser(r) \/ Unmap(r) \/ SeeDefault(r) \/ SeeOther(r) \/ Elect(r)
         \/ UnmapOne(r) \/ Count(r) \/ Retire(r) \/ Route(r) \/ InsertTicket(r))
  BY <1>1, <1>2 DEF StageOK, CarryOn, Overwrite, InsertCategory, SetActive, FindTickets, DropCategory,
     WriteUser, Unmap, SeeDefault, SeeOther, Elect, UnmapOne, Count, NextCount, Retire, Route, InsertTicket
<1>11. ~Fail(r)
  BY <1>1, <1>2 DEF Fail, Stopped, Goto, TypeOK, EndPCs
<1> QED BY <1>5, <1>6, <1>7, <1>8, <1>9, <1>10, <1>11 DEF Step

LEMMA ArrivalKept ==
  ASSUME IInv, AllKept, NEW q \in Requests, NEW f \in Forms, Arrive(q, f)
  PROVE  AllKept'
<1>1. /\ pc[q] = "idle" /\ TypeOK /\ f \in Job
      /\ category' = category /\ mapping' = mapping /\ staff' = staff
      /\ pc'[q] = Entry(f) /\ job'[q].kind = f.kind /\ job'[q].todo = job'[q].blocks
      /\ pc'[q] # "idle"
      /\ \A r \in Requests \ {q} : pc'[r] = pc[r] /\ job'[r] = job[r] /\ ended'[r] = ended[r]
  BY DirectoryConstants, EntryOK DEF IInv, Arrive, Answered, Goto, tables, TypeOK, Job
<1>2. ASSUME NEW r \in Requests \ {q}, pc[r] # "idle", NEW c
      PROVE  /\ Dropped(r, c) => Dropped(r, c)'
             /\ Taken(r, c) => Taken(r, c)'
             /\ Cleared(r, c) => Cleared(r, c)'
  <2>1. \A s \in Requests : Meets(s, r) =>
          Meets(s, r)' /\ job'[s] = job[s] /\ Scope(s)' = Scope(s)
    BY <1>1, <1>2 DEF Meets, Scope
  <2> QED BY <1>1, <2>1 DEF Dropped, Taken, Cleared
<1>3. ASSUME NEW r \in Requests \ {q}
      PROVE  Kept(r)' /\ QueueOK(r)'
  BY <1>1, <1>2 DEF AllKept, Queues, QueueOK, Scope, Kept, KeptIn, Found, MappedFor, Pending, Settled
<1>4. Kept(q)' /\ QueueOK(q)'
  <2>1. f.kind = "assign" => Entry(f) \in {"check", "lookup"}
    BY DEF Entry, First, Appointing
  <2>2. Entry(f) \notin {"seeOther", "elect"}
    BY DirectoryConstants DEF Entry, First, Job, Kinds, Single, Appointing
  <2> QED BY <1>1, <2>1, <2>2 DEF Kept, QueueOK
<1> QED BY <1>3, <1>4 DEF AllKept, Queues

LEMMA KeptInductive == IInv /\ AllKept /\ [Next]_vars => AllKept'
<1>1. ASSUME IInv, AllKept, Next PROVE AllKept'
  <2>1. PICK s \in Requests : (\E f \in Forms : Arrive(s, f)) \/ Step(s) \/ Fail(s)
    BY <1>1 DEF Next
  <2>2. CASE \E f \in Forms : Arrive(s, f)
    BY <1>1, <2>2, ArrivalKept
  <2>3. CASE Step(s) \/ Fail(s)
    <3>1. Frame(s) /\ QueueOK(s)'
      BY <1>1, <2>3, StepEffect, FailStep, QueueStep DEF Effect, AllKept, Queues
    <3>2. \A r \in Requests \ {s} : QueueOK(r)'
      BY <1>1, <3>1 DEF Frame, AllKept, Queues, QueueOK, Scope
    <3>3. \A r \in Requests : Kept(r)'
      BY <1>1, <2>3, OthersKept, OwnKept DEF AllKept
    <3> QED BY <3>1, <3>2, <3>3 DEF AllKept, Queues
  <2> QED BY <2>1, <2>2, <2>3
<1>2. ASSUME AllKept, UNCHANGED vars PROVE AllKept'
  BY <1>2 DEF vars, tables, AllKept, Queues, QueueOK, Scope, Kept, KeptIn, Found, MappedFor, Pending,
     Settled, Dropped, Taken, Cleared, Meets
<1> QED BY <1>1, <1>2

\* An assignment that was answered holds, for every block of the form and with
\* a default assignee, unless a request it met, or a later one, took it away.
THEOREM AssignmentsTakeEffect == Spec => []AssignmentTakesEffect
<1>1. Init => AllKept
  BY DEF Init, AllKept, Queues, QueueOK, Kept
<1>2. IInv /\ AllKept => AssignmentTakesEffect
  <2> SUFFICES ASSUME IInv, AllKept, NEW r \in Requests, pc[r] = "done", job[r].kind = "assign",
                      NEW c \in job[r].cats
               PROVE  /\ (\A b \in job[r].blocks : SlotOf(r, c, b) \in DOMAIN mapping) \/ Taken(r, c)
                      /\ (c \in Existing /\ category[c].default # NoOne) \/ Cleared(r, c)
    BY DEF AssignmentTakesEffect, Taken, Cleared
  <2>1. KeptIn(r, c) /\ Pending(r) = {} /\ Settled(r)
    BY DEF AllKept, Kept, Pending, Settled
  <2>2. Appointee(r) = job[r].who
    BY DEF IInv, Stages, StageOK, Appointee
  <2> QED BY <2>1, <2>2 DEF KeptIn, MappedFor, SlotOf, Existing
<1> QED BY <1>1, <1>2, KeptInductive, Always, PTL DEF Spec
=============================================================================
