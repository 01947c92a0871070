---------------------------- MODULE Daemon_proofs ----------------------------
(***************************************************************************)
(* Proofs about Daemon, for any number of requests, faults and keys.       *)
(*                                                                         *)
(*    OneSession             one console session at a time, and its claim  *)
(*    FirstBootMakesTheFirst the file makes a user only where there is none*)
(*    ServesWhole            a whole schema and a pair of key and          *)
(*                           certificate, before anything is served        *)
(*    KeysRunOnce            what is done under a key is not done again    *)
(*                           for 24 hours, through sweeps, meetings,       *)
(*                           failures and deaths of others                 *)
(*    OneUpdate              types, and one check or apply at a time       *)
(*    PlanNames              what is read of a dry run is what differs     *)
(*    PlansApply             plans that can be applied, while there are    *)
(*                           names left (PlansApplyWhileNamesLeft)         *)
(*                                                                         *)
(* A handler only moves on by itself (Moved), so what each invariant says  *)
(* of requests is kept where the one that moved keeps it (WorkStep).  What *)
(* is said of updates and plans holds while requests do not meet and       *)
(* nothing fails (Calm), what is said of a key while the requests that     *)
(* hold it do not (KeyInv).                                                *)
(***************************************************************************)
EXTENDS Daemon, FiniteSetTheorems, SequenceTheorems, WellFoundedInduction, TLAPS

-----------------------------------------------------------------------------
(* Requests: how each action moves the one it is about.                    *)

Stages == Working \cup {"idle", "attached", "over"}

\* Requests are records; a key is held only where there may be one, and a handler is at a
\* stage of its own operation.
Shape ==
    req = [r \in Requests |-> [op |-> req[r].op, key |-> req[r].key, be |-> req[r].be,
                               plan |-> req[r].plan, stage |-> req[r].stage]]

Works(r) == req[r].stage \in Working

ReqOK(r) ==
    /\ req[r].op \in Ops /\ req[r].stage \in Stages /\ req[r].key \in Keys \cup {None}
    /\ req[r].stage \in {"lookup", "store"} => req[r].key # None
    /\ req[r].stage = "start" => req[r].op \in JobOps
    /\ req[r].stage = "note" => req[r].op \in UpdateOps
    /\ req[r].op \notin Posted => req[r].key = None

\* The request r goes to the stage to, and keeps what it is unless it is over.
Moved(r, to) ==
    /\ Shape'
    /\ \A q \in Requests \ {r} : req'[q] = req[q]
    /\ req'[r].stage = to /\ req'[r].op \in Ops /\ req'[r].key \in Keys \cup {None}
    /\ IF to = "over" THEN req'[r].key = None
       ELSE req'[r].op = req[r].op /\ req'[r].key = req[r].key

Reqs == Shape /\ \A r \in Requests : ReqOK(r)

Request(v) == v = [op |-> v.op, key |-> v.key, be |-> v.be, plan |-> v.plan, stage |-> v.stage]

LEMMA PutMoves ==
    ASSUME Reqs, NEW r \in Requests, NEW v, Request(v), req' = [req EXCEPT ![r] = v]
    PROVE  Shape' /\ req'[r] = v /\ \A q \in Requests \ {r} : req'[q] = req[q]
<1>1. DOMAIN req = Requests
    BY DEF Reqs, Shape
<1>2. req'[r] = v /\ \A q \in Requests \ {r} : req'[q] = req[q]
    BY <1>1
<1>3. \A q \in Requests : Request(req'[q])
    BY <1>2 DEF Reqs, Shape, Request
<1>4. req' = [q \in Requests |-> req'[q]]
    BY <1>1
<1>5. Shape'
    BY <1>3, <1>4 DEF Shape, Request
<1> QED
    BY <1>2, <1>5

LEMMA GotoMoves ==
    ASSUME Reqs, NEW r \in Requests, NEW s, s # "over", Goto(r, s)
    PROVE  Moved(r, s)
<1> DEFINE v == [req[r] EXCEPT !.stage = s]
<1>1. Request(req[r])
    BY DEF Reqs, Shape, Request
<1>2. Request(v) /\ v.stage = s /\ v.op = req[r].op /\ v.key = req[r].key
    BY <1>1 DEF Request
<1>3. req' = [req EXCEPT ![r] = v]
    BY Zenon DEF Goto
<1>4. req[r].op \in Ops /\ req[r].key \in Keys \cup {None}
    BY DEF Reqs, ReqOK
<1> HIDE DEF v
<1> QED
    BY <1>2, <1>3, <1>4, PutMoves DEF Moved

LEMMA OverMoves ==
    ASSUME Reqs, NEW r \in Requests, req' = Over(r)
    PROVE  Moved(r, "over")
<1> DEFINE v == [NewRequest EXCEPT !.stage = "over"]
<1>1. NewRequest \in [op : {"attach"}, key : {None}, be : {NoBe}, plan : {NoPlan}, stage : {"idle"}]
    BY DEF NewRequest
<1>2. Request(v) /\ v.stage = "over" /\ v.op = "attach" /\ v.key = None
    BY <1>1 DEF Request
<1>3. req' = [req EXCEPT ![r] = v]
    BY Zenon DEF Over
<1> HIDE DEF v
<1> QED
    BY <1>2, <1>3, PutMoves DEF Moved, Ops

LEMMA AnswerMoves ==
    ASSUME Reqs, NEW r \in Requests, Answer(r)
    PROVE  IF req[r].key # None THEN Moved(r, "store") ELSE Moved(r, "over")
BY GotoMoves, OverMoves DEF Answer

-----------------------------------------------------------------------------
(* Requests, consoles and the start.                                       *)

Attached(r) == req[r].stage = "attached"
OneConsole == \A r, q \in Requests : Attached(r) /\ Attached(q) => r = q
Claim ==
    /\ (\E r \in Requests : Attached(r)) => claimed = TRUE
    /\ faults = 0 /\ claimed = TRUE => \E r \in Requests : Attached(r)

\* Only a daemon that serves has handlers, and the first admin is inserted where nobody is.
Served == up # "up" => \A r \in Requests : ~Works(r)
First == up = "insert" => ~users

StartInv ==
    /\ up \in {"down", "firstboot", "insert", "destroy", "tls", "write", "up"}
    /\ file \in {"good", "bad", "absent"} /\ users \in BOOLEAN /\ claimed \in BOOLEAN
    /\ faults \in 0 .. MaxFaults
    /\ Reqs /\ OneConsole /\ Claim /\ Served /\ First

\* The handler r goes on or ends, and what the start and the consoles have stays.
WorkStep(r, to) ==
    /\ Works(r) /\ Moved(r, to) /\ ReqOK(r)' /\ to \in Working \cup {"over"}
    /\ up' = up /\ file' = file /\ claimed' = claimed
    /\ users' \in BOOLEAN
    /\ faults' \in 0 .. MaxFaults /\ faults <= faults'

LEMMA WorkStepInv ==
    ASSUME StartInv, NEW r \in Requests, NEW to, WorkStep(r, to)
    PROVE  StartInv'
<1>1. \A q \in Requests \ {r} : ReqOK(q)' /\ (Works(q)' <=> Works(q)) /\ (Attached(q)' <=> Attached(q))
    BY DEF StartInv, Reqs, ReqOK, WorkStep, Moved, Works, Attached
<1>2. Reqs'
    BY <1>1 DEF Reqs, WorkStep, Moved
<1>3. ~Attached(r) /\ ~Attached(r)'
    BY DEF WorkStep, Moved, Works, Attached, Working
<1>4. OneConsole' /\ Claim'
    BY <1>1, <1>3 DEF StartInv, OneConsole, Claim, WorkStep
<1>5. up = "up"
    BY DEF StartInv, Served, WorkStep
<1> QED
    BY <1>2, <1>4, <1>5 DEF StartInv, WorkStep, Served, First

\* No request moves.
LEMMA RestInv ==
    ASSUME StartInv, req' = req, claimed' = claimed,
           up' \in {"down", "firstboot", "insert", "destroy", "tls", "write", "up"},
           file' \in {"good", "bad", "absent"}, users' \in BOOLEAN, First',
           up = "up" => up' = "up",
           faults' \in 0 .. MaxFaults, faults <= faults'
    PROVE  StartInv'
<1>1. Reqs' /\ OneConsole'
    BY DEF StartInv, Reqs, Shape, ReqOK, OneConsole, Attached
<1>2. Claim'
    BY DEF StartInv, Claim, Attached
<1>3. Served'
    BY DEF StartInv, Served, Works
<1> QED
    BY <1>1, <1>2, <1>3 DEF StartInv

LEMMA WorkMoves ==
    ASSUME StartInv, NEW r \in Requests, NEW to,
           to \in {"look", "act", "start", "note", "store", "over"}, Works(r), Moved(r, to),
           to = "store" => req[r].key # None,
           to = "start" => req[r].op \in JobOps,
           to = "note" => req[r].op \in UpdateOps,
           up' = up, file' = file, claimed' = claimed, users' \in BOOLEAN,
           faults' \in 0 .. MaxFaults, faults <= faults'
    PROVE  WorkStep(r, to)
<1>1. ReqOK(r)'
    BY DEF StartInv, Reqs, ReqOK, Moved, Working, Stages
<1> QED
    BY <1>1 DEF WorkStep, Working

AnswerStep(r) == IF req[r].key # None THEN WorkStep(r, "store") ELSE WorkStep(r, "over")

LEMMA LookupStep ==
    ASSUME StartInv, NEW r \in Requests, Lookup(r)
    PROVE  /\ At(r, "lookup")
           /\ \/ WorkStep(r, "over")
              \/ Seen(r) = "none" /\ (WorkStep(r, "look") \/ WorkStep(r, "act"))
<1>1. Works(r) /\ At(r, "lookup")
    BY DEF Lookup, At, Works, Working
<1>2. Moved(r, "over") \/ (Seen(r) = "none" /\ (Moved(r, "look") \/ Moved(r, "act")))
    BY GotoMoves, OverMoves DEF Lookup, StartInv
<1>3. /\ up' = up /\ file' = file /\ claimed' = claimed /\ users' \in BOOLEAN
      /\ faults' \in 0 .. MaxFaults /\ faults <= faults'
    BY DEF Lookup, StartState, History, StartInv
<1> QED
    BY <1>1, <1>2, <1>3, WorkMoves DEF Working

LEMMA StoreStep ==
    ASSUME StartInv, NEW r \in Requests, Store(r)
    PROVE  At(r, "store") /\ WorkStep(r, "over")
<1>1. Works(r) /\ At(r, "store") /\ Moved(r, "over")
    BY OverMoves DEF Store, At, Works, Working, StartInv
<1>2. /\ up' = up /\ file' = file /\ claimed' = claimed /\ users' \in BOOLEAN
      /\ faults' \in 0 .. MaxFaults /\ faults <= faults'
    BY DEF Store, StartState, History, StartInv
<1> QED
    BY <1>1, <1>2, WorkMoves

LEMMA CreateUserStep ==
    ASSUME StartInv, NEW r \in Requests, CreateUser(r)
    PROVE  At(r, "act") /\ AnswerStep(r)
<1>1. Works(r) /\ At(r, "act") /\ Answer(r)
    BY DEF CreateUser, Doing, At, Works, Working
<1>2. /\ up' = up /\ file' = file /\ claimed' = claimed /\ users' \in BOOLEAN
      /\ faults' \in 0 .. MaxFaults /\ faults <= faults'
    BY DEF CreateUser, History, StartInv
<1> QED
    BY <1>1, <1>2, AnswerMoves, WorkMoves DEF StartInv, Working, AnswerStep

LEMMA LookForJobsStep ==
    ASSUME StartInv, NEW r \in Requests, LookForJobs(r)
    PROVE  /\ At(r, "look")
           /\ \/ MayStart(req[r].op) /\ req[r].op \in JobOps /\ WorkStep(r, "start")
              \/ AnswerStep(r)
<1>1. Works(r) /\ At(r, "look") /\ req[r].op \in JobOps
    BY DEF LookForJobs, At, Works, Working
<1>2. /\ up' = up /\ file' = file /\ claimed' = claimed /\ users' \in BOOLEAN
      /\ faults' \in 0 .. MaxFaults /\ faults <= faults'
    BY DEF LookForJobs, StartState, History, StartInv
<1>3. CASE MayStart(req[r].op)
  <2> DEFINE u == [req[r] EXCEPT !.stage = "start"]
             v == [u EXCEPT !.plan = row.plan]
  <2>1. Request(req[r])
      BY DEF StartInv, Reqs, Shape, Request
  <2>2. Request(u) /\ u.stage = "start" /\ u.op = req[r].op /\ u.key = req[r].key
      BY <2>1 DEF Request
  <2>3. req' = [req EXCEPT ![r].stage = "start", ![r].plan = row.plan]
      BY <1>3 DEF LookForJobs
  <2>4. r \in DOMAIN req
      BY DEF StartInv, Reqs, Shape
  <2>5. req' = [req EXCEPT ![r] = v]
      BY <2>3, <2>4, Zenon
  <2> HIDE DEF u
  <2>6. Request(v) /\ v.stage = "start" /\ v.op = req[r].op /\ v.key = req[r].key
      BY <2>2 DEF Request
  <2> HIDE DEF v
  <2>7. Moved(r, "start")
      BY <2>6, <2>5, PutMoves DEF StartInv, Reqs, ReqOK, Moved
  <2> QED
      BY <1>1, <1>2, <1>3, <2>7, WorkMoves DEF Working
<1>4. CASE ~MayStart(req[r].op)
  <2>1. Answer(r)
      BY <1>4 DEF LookForJobs
  <2> QED
      BY <1>1, <1>2, <2>1, AnswerMoves, WorkMoves DEF StartInv, Working, AnswerStep
<1> QED
    BY <1>3, <1>4

LEMMA StartJobStep ==
    ASSUME StartInv, NEW r \in Requests, StartJob(r)
    PROVE  /\ At(r, "start")
           /\ \/ faults' = faults /\ IF req[r].op \in UpdateOps THEN WorkStep(r, "note")
                                                            ELSE AnswerStep(r)
              \/ faults' = faults + 1 /\ WorkStep(r, "over")
<1>1. Works(r) /\ At(r, "start")
    BY DEF StartJob, At, Works, Working
<1>2. up' = up /\ file' = file /\ claimed' = claimed /\ users' \in BOOLEAN
    BY DEF StartJob, StartState, StartInv
<1>3. CASE faults' = faults /\ IF req[r].op \in UpdateOps THEN Goto(r, "note") ELSE Answer(r)
  <2>1. faults' \in 0 .. MaxFaults /\ faults <= faults'
      BY <1>3 DEF StartInv
  <2> QED
      BY <1>1, <1>2, <1>3, <2>1, GotoMoves, AnswerMoves, WorkMoves
         DEF StartInv, Working, AnswerStep
<1>4. CASE faults < MaxFaults /\ faults' = faults + 1 /\ req' = Over(r)
  <2>1. faults' \in 0 .. MaxFaults /\ faults <= faults'
      BY <1>4, DaemonAssumption DEF StartInv
  <2> QED
      BY <1>1, <1>2, <1>4, <2>1, OverMoves, WorkMoves DEF StartInv
<1> QED
    BY <1>1, <1>3, <1>4, Zenon DEF StartJob

LEMMA NoteJobStep ==
    ASSUME StartInv, NEW r \in Requests, NoteJob(r)
    PROVE  At(r, "note") /\ AnswerStep(r)
<1>1. Works(r) /\ At(r, "note") /\ Answer(r)
    BY DEF NoteJob, At, Works, Working
<1>2. /\ up' = up /\ file' = file /\ claimed' = claimed /\ users' \in BOOLEAN
      /\ faults' \in 0 .. MaxFaults /\ faults <= faults'
    BY DEF NoteJob, StartState, History, StartInv
<1> QED
    BY <1>1, <1>2, AnswerMoves, WorkMoves DEF StartInv, Working, AnswerStep

LEMMA LookForBeStep ==
    ASSUME StartInv, NEW r \in Requests, LookForBe(r)
    PROVE  /\ At(r, "look") /\ req[r].op \in BeOps
           /\ WorkStep(r, "act") \/ WorkStep(r, "over")
<1>1. Works(r) /\ At(r, "look") /\ req[r].op \in BeOps
    BY DEF LookForBe, At, Works, Working
<1>2. Moved(r, "act") \/ Moved(r, "over")
    BY GotoMoves, OverMoves DEF LookForBe, StartInv
<1>3. /\ up' = up /\ file' = file /\ claimed' = claimed /\ users' \in BOOLEAN
      /\ faults' \in 0 .. MaxFaults /\ faults <= faults'
    BY DEF LookForBe, StartState, History, StartInv
<1> QED
    BY <1>1, <1>2, <1>3, WorkMoves DEF Working

LEMMA ActOnBeStep ==
    ASSUME StartInv, NEW r \in Requests, ActOnBe(r)
    PROVE  At(r, "act") /\ req[r].op \in BeOps /\ WorkStep(r, "over")
<1>1. Works(r) /\ At(r, "act") /\ req[r].op \in BeOps /\ Moved(r, "over")
    BY OverMoves DEF ActOnBe, At, Works, Working, StartInv
<1>2. /\ up' = up /\ file' = file /\ claimed' = claimed /\ users' \in BOOLEAN
      /\ faults' \in 0 .. MaxFaults /\ faults <= faults'
    BY DEF ActOnBe, StartState, History, StartInv
<1> QED
    BY <1>1, <1>2, WorkMoves

LEMMA DropStep ==
    ASSUME StartInv, NEW r \in Requests, Drop(r)
    PROVE  Works(r) /\ faults' = faults + 1 /\ WorkStep(r, "over")
<1>1. Works(r) /\ Moved(r, "over")
    BY OverMoves DEF Drop, At, Works, Working, StartInv
<1>2. /\ up' = up /\ file' = file /\ claimed' = claimed /\ users' \in BOOLEAN
      /\ faults' = faults + 1 /\ faults' \in 0 .. MaxFaults /\ faults <= faults'
    BY DaemonAssumption DEF Drop, StartState, StartInv
<1> QED
    BY <1>1, <1>2, WorkMoves
\* Asked with a key, a request is looked up first.
Asked(r, v) ==
    /\ Request(v) /\ v.op \in Ops /\ v.key \in Keys \cup {None}
    /\ v.key # None => v.op \in Posted
    /\ v.stage = IF v.key # None THEN "lookup" ELSE IF v.op = "create_user" THEN "act" ELSE "look"
    /\ req'[r] = v /\ \A q \in Requests \ {r} : req'[q] = req[q]

LEMMA AskPuts ==
    ASSUME Reqs, NEW r \in Requests, Ask(r)
    PROVE  /\ At(r, "idle") /\ Shape' /\ \E v : Asked(r, v)
<1>1. PICK op \in Asks[r] : \E b \in BeInputs(op) :
         \E k \in {None} \cup IF op \in Posted /\ r \in Keyed THEN Keys ELSE {} :
         req' = [req EXCEPT ![r] = [op |-> op, key |-> k, be |-> b, plan |-> NoPlan,
                                    stage |-> IF k # None THEN "lookup"
                                              ELSE IF op = "create_user" THEN "act"
                                              ELSE "look"]]
    BY DEF Ask
<1>2. PICK be \in BeInputs(op), key \in {None} \cup IF op \in Posted /\ r \in Keyed THEN Keys ELSE {} :
         req' = [req EXCEPT ![r] = [op |-> op, key |-> key, be |-> be, plan |-> NoPlan,
                                    stage |-> IF key # None THEN "lookup"
                                              ELSE IF op = "create_user" THEN "act"
                                              ELSE "look"]]
    BY <1>1
<1> DEFINE v == [op |-> op, key |-> key, be |-> be, plan |-> NoPlan,
                 stage |-> IF key # None THEN "lookup"
                           ELSE IF op = "create_user" THEN "act" ELSE "look"]
<1>3. op \in Ops /\ key \in Keys \cup {None} /\ (key # None => op \in Posted)
    BY AsksAssumption
<1>4. /\ Request(v) /\ v.op = op /\ v.key = key
      /\ v.stage = IF key # None THEN "lookup" ELSE IF op = "create_user" THEN "act" ELSE "look"
    BY DEF Request
<1>5. req' = [req EXCEPT ![r] = v]
    BY <1>2
<1> HIDE DEF v
<1>6. Shape' /\ req'[r] = v /\ \A q \in Requests \ {r} : req'[q] = req[q]
    BY <1>4, <1>5, PutMoves
<1>7. Asked(r, v)
    BY <1>3, <1>4, <1>6 DEF Asked
<1> QED
    BY <1>6, <1>7 DEF Ask

LEMMA AskInv == ASSUME StartInv, NEW r \in Requests, Ask(r) PROVE StartInv'
<1>1. /\ up = "up" /\ up' = up /\ file' = file /\ users' = users
      /\ claimed' = claimed /\ faults' = faults
    BY DEF Ask, StartState
<1>2. PICK v : Asked(r, v)
    BY AskPuts DEF StartInv
<1>3. At(r, "idle") /\ Shape'
    BY AskPuts DEF StartInv
<1>4. ReqOK(r)'
    BY <1>2 DEF Asked, ReqOK, Stages, Working
<1>5. Reqs'
    BY <1>2, <1>3, <1>4 DEF Asked, StartInv, Reqs, ReqOK
<1>6. ~Attached(r) /\ ~Attached(r)'
    BY <1>2, <1>3 DEF Asked, Attached, At
<1>7. OneConsole' /\ Claim'
    BY <1>1, <1>2, <1>6 DEF Asked, StartInv, OneConsole, Claim, Attached
<1> QED
    BY <1>1, <1>5, <1>7 DEF StartInv, Served, First

\* One session at a time: the claim is there from the look to the end of the session, and an
\* upgrade that fails leaves it behind.
LEMMA ConsoleInv ==
    ASSUME StartInv, NEW r \in Requests, Attach(r) \/ Detach(r) \/ UpgradeFails(r)
    PROVE  StartInv'
<1>1. /\ up' = up /\ file' = file /\ users' = users /\ faults' \in 0 .. MaxFaults
      /\ faults <= faults'
    BY DaemonAssumption DEF Attach, Detach, UpgradeFails, StartState, History, StartInv
<1>2. CASE Attach(r)
  <2>1. Works(r) /\ ~Attached(r) /\ req[r].op = "attach" /\ faults' = faults
      BY <1>2 DEF Attach, Doing, At, Works, Working, Attached, History
  <2>2. \/ claimed # TRUE /\ claimed' = TRUE /\ Moved(r, "attached")
        \/ claimed' = claimed /\ Moved(r, "over")
      BY <1>2, GotoMoves, OverMoves DEF Attach, MayAttach, StartInv
  <2>3. CASE claimed # TRUE /\ claimed' = TRUE /\ Moved(r, "attached")
    <3>1. ~\E q \in Requests : Attached(q)
        BY <2>3 DEF StartInv, Claim
    <3>2. \A q \in Requests : Attached(q)' <=> q = r
        BY <2>3, <3>1 DEF Moved, Attached
    <3>3. ReqOK(r)'
        BY <2>3 DEF Moved, ReqOK, Stages, StartInv, Reqs
    <3>4. Reqs'
        BY <2>3, <3>3 DEF Moved, StartInv, Reqs, ReqOK
    <3>5. OneConsole' /\ Claim'
        BY <2>3, <3>2 DEF OneConsole, Claim
    <3>6. up = "up"
        BY <2>1 DEF StartInv, Served
    <3> QED
        BY <1>1, <2>3, <3>4, <3>5, <3>6 DEF StartInv, Served, First
  <2>4. CASE claimed' = claimed /\ Moved(r, "over")
      BY <1>1, <2>1, <2>4, WorkMoves, WorkStepInv DEF StartInv
  <2> QED
      BY <2>2, <2>3, <2>4
<1>3. CASE Detach(r) \/ UpgradeFails(r)
  <2>1. /\ Attached(r) /\ Moved(r, "over")
        /\ claimed' = FALSE \/ (faults' # 0 /\ claimed' = claimed)
      BY <1>3, OverMoves DEF Detach, UpgradeFails, At, Attached, StartInv
  <2>2. \A q \in Requests : ~Attached(q)'
      BY <2>1 DEF StartInv, OneConsole, Moved, Attached
  <2>3. Reqs'
      BY <2>1 DEF Moved, StartInv, Reqs, ReqOK, Stages
  <2>4. \A q \in Requests : Works(q)' => Works(q)
      BY <2>1 DEF Moved, Works, Working
  <2>5. OneConsole' /\ Claim' /\ Served' /\ First'
      BY <1>1, <2>1, <2>2, <2>4 DEF StartInv, OneConsole, Claim, Served, First
  <2> QED
      BY <1>1, <2>1, <2>3, <2>5 DEF StartInv
<1> QED
    BY <1>2, <1>3

LEMMA JobInv ==
    ASSUME StartInv, NEW j \in Requests,
           \/ CheckPlans(j) \/ CheckSaves(j) \/ ApplyUpdates(j) \/ ApplySaves(j)
           \/ RebootAsks(j) \/ JobFails(j)
    PROVE  StartInv'
<1>1. req' = req /\ claimed' = claimed /\ up' = up /\ file' = file /\ users' = users
    BY DEF CheckPlans, CheckSaves, ApplyUpdates, ApplySaves, RebootAsks, JobFails,
       StartState, History
<1>2. faults' = faults \/ (faults < MaxFaults /\ faults' = faults + 1)
    BY DEF CheckPlans, CheckSaves, ApplyUpdates, ApplySaves, RebootAsks, JobFails,
       StartState, History
<1>3. faults' \in 0 .. MaxFaults /\ faults <= faults'
    BY <1>2, DaemonAssumption DEF StartInv
<1>4. First'
    BY <1>1 DEF StartInv, First
<1> QED
    BY <1>1, <1>3, <1>4, RestInv DEF StartInv

LEMMA StartingInv == ASSUME StartInv, Starting \/ FirstBootFails PROVE StartInv'
<1>1. req' = req /\ claimed' = claimed /\ up # "up"
    BY DEF Starting, Migrate, Recover, FirstBoot, InsertAdmin, DestroyFile, LoadOrGenerate,
       WritePair, FirstBootFails, History
<1>2. faults' \in 0 .. MaxFaults /\ faults <= faults'
  <2>1. faults' = faults \/ (faults < MaxFaults /\ faults' = faults + 1)
      BY DEF Starting, Migrate, Recover, FirstBoot, InsertAdmin, DestroyFile, LoadOrGenerate,
         WritePair, FirstBootFails, History
  <2> QED
      BY <2>1, DaemonAssumption DEF StartInv
<1>3. /\ up' \in {"down", "firstboot", "insert", "destroy", "tls", "write", "up"}
      /\ file' \in {"good", "bad", "absent"} /\ users' \in BOOLEAN /\ First'
  <2>1. CASE FirstBoot
      BY <2>1 DEF FirstBoot, Applies, StartInv, First
  <2>2. CASE InsertAdmin \/ DestroyFile
      BY <2>2 DEF InsertAdmin, DestroyFile, StartInv, First
  <2>3. CASE LoadOrGenerate \/ WritePair
      BY <2>3 DEF LoadOrGenerate, WritePair, StartInv, First
  <2>4. CASE Migrate \/ Recover \/ FirstBootFails
      BY <2>4 DEF Migrate, Recover, FirstBootFails, StartInv, First
  <2> QED
      BY <2>1, <2>2, <2>3, <2>4 DEF Starting
<1> QED
    BY <1>1, <1>2, <1>3, RestInv

\* A death ends every handler and every session.
Ended(r) == req'[r].stage \in {"idle", "over"}

LEMMA DiesEnds ==
    ASSUME Reqs, Dies
    PROVE  Reqs' /\ \A r \in Requests : Ended(r)
<1> DEFINE v == [NewRequest EXCEPT !.stage = "over"]
<1>1. NewRequest \in [op : {"attach"}, key : {None}, be : {NoBe}, plan : {NoPlan}, stage : {"idle"}]
    BY DEF NewRequest
<1>2. Request(v) /\ v.stage = "over" /\ v.op = "attach" /\ v.key = None
    BY <1>1 DEF Request
<1>3. ASSUME NEW r \in Requests PROVE Over(r)[r] = v
  <2>1. r \in DOMAIN req
      BY DEF Reqs, Shape
  <2>2. Over(r) = [req EXCEPT ![r] = v]
      BY Zenon DEF Over
  <2> HIDE DEF v
  <2> QED
      BY <2>1, <2>2
<1>4. req' = [r \in Requests |-> IF At(r, "idle") THEN req[r] ELSE Over(r)[r]]
    BY DEF Dies
<1> HIDE DEF v
<1>5. \A r \in Requests : req'[r] = IF At(r, "idle") THEN req[r] ELSE v
    BY <1>3, <1>4
<1>6. Shape'
    BY <1>2, <1>4, <1>5 DEF Reqs, Shape, Request
<1>7. \A r \in Requests : ReqOK(r)' /\ Ended(r)
    BY <1>2, <1>5 DEF Reqs, ReqOK, Ops, Stages, At, Ended, Posted, JobOps, UpdateOps
<1> QED
    BY <1>6, <1>7 DEF Reqs

LEMMA DeathInv == ASSUME StartInv, Crash \/ HostReboots PROVE StartInv'
<1>1. /\ Dies /\ up' = "down" /\ claimed' = FALSE /\ file' = file /\ users' = users
      /\ faults' = faults \/ (faults < MaxFaults /\ faults' = faults + 1)
    BY DEF Crash, HostReboots, Dies
<1>2. Reqs' /\ \A r \in Requests : Ended(r)
    BY <1>1, DiesEnds DEF StartInv
<1>3. OneConsole' /\ Claim' /\ Served' /\ First'
    BY <1>1, <1>2 DEF OneConsole, Claim, Served, First, Ended, Attached, Works, Working
<1>4. faults' \in 0 .. MaxFaults
    BY <1>1, DaemonAssumption DEF StartInv
<1> QED
    BY <1>1, <1>2, <1>3, <1>4 DEF StartInv

LEMMA StartInit == Init => StartInv
<1> SUFFICES ASSUME Init PROVE StartInv
    OBVIOUS
<1>1. req = [r \in Requests |-> NewRequest]
    BY DEF Init
<1>2. Request(NewRequest) /\ NewRequest.stage = "idle" /\ NewRequest.op = "attach"
      /\ NewRequest.key = None
    BY DEF NewRequest, Request
<1>3. Shape
    BY <1>1, <1>2 DEF Shape, Request
<1>4. \A r \in Requests : ReqOK(r)
    BY <1>1, <1>2 DEF ReqOK, Ops, Stages
<1>5. \A r \in Requests : ~Attached(r) /\ ~Works(r)
    BY <1>1, <1>2 DEF Attached, Works, Working
<1>6. up = "down" /\ file \in {"good", "bad"} /\ users \in BOOLEAN /\ claimed = FALSE /\ faults = 0
    BY DEF Init
<1>7. Reqs /\ OneConsole /\ Claim /\ Served /\ First
    BY <1>3, <1>4, <1>5, <1>6 DEF Reqs, OneConsole, Claim, Served, First
<1>8. 0 \in 0 .. MaxFaults
    BY DaemonAssumption
<1> QED
    BY <1>6, <1>7, <1>8 DEF StartInv

LEMMA StartNext == StartInv /\ [Next]_vars => StartInv'
<1> SUFFICES ASSUME StartInv, [Next]_vars PROVE StartInv'
    OBVIOUS
<1>1. CASE Starting \/ FirstBootFails
    BY <1>1, StartingInv
<1>2. CASE Crash \/ HostReboots
    BY <1>2, DeathInv
<1>3. ASSUME NEW r \in Requests,
             \/ CheckPlans(r) \/ CheckSaves(r) \/ ApplyUpdates(r) \/ ApplySaves(r)
             \/ RebootAsks(r) \/ JobFails(r)
      PROVE  StartInv'
    BY <1>3, JobInv
<1>4. ASSUME NEW r \in Requests, Ask(r) \/ Attach(r) \/ Detach(r) \/ UpgradeFails(r)
      PROVE  StartInv'
    BY <1>4, AskInv, ConsoleInv
<1>5. ASSUME NEW r \in Requests,
             \/ Lookup(r) \/ Store(r) \/ CreateUser(r) \/ LookForJobs(r) \/ StartJob(r)
             \/ NoteJob(r) \/ LookForBe(r) \/ ActOnBe(r) \/ Drop(r)
      PROVE  StartInv'
  <2>1. \E to : WorkStep(r, to)
      BY <1>5, LookupStep, StoreStep, CreateUserStep, LookForJobsStep, StartJobStep,
         NoteJobStep, LookForBeStep, ActOnBeStep, DropStep DEF AnswerStep
  <2> QED
      BY <2>1, WorkStepInv
<1>6. CASE Publish \/ Sweep \/ Tick
  <2>1. req' = req /\ claimed' = claimed /\ up' = up /\ file' = file /\ users' = users
        /\ faults' = faults
      BY <1>6 DEF Publish, Sweep, Tick, StartState, History
  <2> QED
      BY <2>1, RestInv DEF StartInv, First
<1>7. CASE UNCHANGED vars
  <2>1. req' = req /\ claimed' = claimed /\ up' = up /\ file' = file /\ users' = users
        /\ faults' = faults
      BY <1>7 DEF vars
  <2> QED
      BY <2>1, RestInv DEF StartInv, First
<1> QED
    BY <1>1, <1>2, <1>3, <1>4, <1>5, <1>6, <1>7 DEF Next

LEMMA StartAlways == Spec => []StartInv
<1> QED
    BY StartInit, StartNext, PTL DEF Spec

-----------------------------------------------------------------------------
(* While nothing fails and requests do not meet.                           *)

Single == \A r, q \in Requests : Works(r) /\ Works(q) => r = q

LEMMA CalmBefore == ASSUME StartInv, [Next]_vars PROVE Calm' => Calm
<1>1. ASSUME NEW r \in Requests,
             \/ Lookup(r) \/ Store(r) \/ CreateUser(r) \/ LookForJobs(r) \/ StartJob(r)
             \/ NoteJob(r) \/ LookForBe(r) \/ ActOnBe(r) \/ Drop(r)
      PROVE  (overlapped <=> overlapped') /\ (faults' = faults \/ faults' = faults + 1)
    BY <1>1 DEF Lookup, Store, CreateUser, LookForJobs, StartJob, NoteJob, LookForBe, ActOnBe,
       Drop, History
<1>2. ASSUME NEW r \in Requests,
             \/ CheckPlans(r) \/ CheckSaves(r) \/ ApplyUpdates(r) \/ ApplySaves(r)
             \/ RebootAsks(r) \/ JobFails(r) \/ Attach(r) \/ Detach(r) \/ UpgradeFails(r)
      PROVE  (overlapped <=> overlapped') /\ (faults' = faults \/ faults' = faults + 1)
    BY <1>2 DEF CheckPlans, CheckSaves, ApplyUpdates, ApplySaves, RebootAsks, JobFails, Attach,
       Detach, UpgradeFails, History
<1>3. ASSUME NEW r \in Requests, Ask(r)
      PROVE  (overlapped => overlapped') /\ faults' = faults
    BY <1>3 DEF Ask
<1>4. ASSUME \/ Starting \/ FirstBootFails \/ Crash \/ HostReboots \/ Publish \/ Sweep \/ Tick
             \/ UNCHANGED vars
      PROVE  (overlapped <=> overlapped') /\ (faults' = faults \/ faults' = faults + 1)
  <2>1. CASE Starting
    <3>1. UNCHANGED History
        BY <2>1, Zenon DEF Starting, Migrate, Recover, FirstBoot, InsertAdmin, DestroyFile,
           LoadOrGenerate, WritePair
    <3> QED
        BY <3>1 DEF History
  <2>2. CASE FirstBootFails \/ Publish \/ Sweep \/ Tick \/ UNCHANGED vars
      BY <2>2 DEF FirstBootFails, Publish, Sweep, Tick, vars, History
  <2>3. CASE Crash \/ HostReboots
      BY <2>3 DEF Crash, HostReboots, Dies
  <2> QED
      BY <1>4, <2>1, <2>2, <2>3
<1>5. (overlapped => overlapped') /\ (faults' = faults \/ faults' = faults + 1)
    BY <1>1, <1>2, <1>3, <1>4 DEF Next
<1> QED
    BY <1>5 DEF Calm, StartInv

\* A request that is asked while another is in its handler counts as overlapping; handlers
\* only go on by themselves.
LEMMA SingleNext == ASSUME StartInv, [Next]_vars, Calm => Single PROVE Calm' => Single'
<1> SUFFICES ASSUME Calm', Single PROVE Single'
    BY CalmBefore
<1>1. ASSUME NEW r \in Requests,
             \/ Lookup(r) \/ Store(r) \/ CreateUser(r) \/ LookForJobs(r) \/ StartJob(r)
             \/ NoteJob(r) \/ LookForBe(r) \/ ActOnBe(r) \/ Drop(r)
      PROVE  Single'
  <2>1. PICK to : WorkStep(r, to)
      BY <1>1, LookupStep, StoreStep, CreateUserStep, LookForJobsStep, StartJobStep,
         NoteJobStep, LookForBeStep, ActOnBeStep, DropStep DEF AnswerStep
  <2> QED
      BY <2>1 DEF Single, WorkStep, Moved, Works
<1>2. ASSUME NEW r \in Requests,
             \/ CheckPlans(r) \/ CheckSaves(r) \/ ApplyUpdates(r) \/ ApplySaves(r)
             \/ RebootAsks(r) \/ JobFails(r)
      PROVE  req' = req
    BY <1>2 DEF CheckPlans, CheckSaves, ApplyUpdates, ApplySaves, RebootAsks, JobFails
<1>3. ASSUME NEW r \in Requests, Attach(r) \/ Detach(r) \/ UpgradeFails(r) PROVE Single'
  <2>1. Moved(r, "attached") \/ Moved(r, "over")
      BY <1>3, GotoMoves, OverMoves DEF Attach, Detach, UpgradeFails, StartInv
  <2> QED
      BY <2>1 DEF Single, Moved, Works, Working
<1>4. ASSUME NEW r \in Requests, Ask(r) PROVE Single'
  <2>1. \A q \in Requests : ~Works(q)
      BY <1>4 DEF Ask, Calm, Busy, Works
  <2>2. \A q \in Requests \ {r} : req'[q] = req[q]
      BY <1>4 DEF Ask, StartInv, Reqs, Shape
  <2> QED
      BY <2>1, <2>2 DEF Single, Works
<1>5. ASSUME Starting \/ FirstBootFails \/ Publish \/ Sweep \/ Tick \/ UNCHANGED vars
      PROVE  req' = req
    BY <1>5 DEF Starting, Migrate, Recover, FirstBoot, InsertAdmin, DestroyFile,
       LoadOrGenerate, WritePair, FirstBootFails, Publish, Sweep, Tick, vars
<1>6. ASSUME Crash \/ HostReboots PROVE Single'
  <2>1. \A r \in Requests : Ended(r)
      BY <1>6, DiesEnds DEF Crash, HostReboots, StartInv
  <2> QED
      BY <2>1 DEF Ended, Single, Works, Working
<1>7. CASE req' = req
    BY <1>7 DEF Single, Works
<1> QED
    BY <1>1, <1>2, <1>3, <1>4, <1>5, <1>6, <1>7 DEF Next

-----------------------------------------------------------------------------
(* Keys.                                                                   *)

\* The operation has been done or refused, and its answer is about to be stored.
Owed(k) == \E r \in Requests : req[r].key = k /\ req[r].stage \in {"note", "store"}

Fresh(r) == req[r].stage \in {"look", "start", "act"}

\* One handler at most holds the key.
Solo(k) ==
    \A r, q \in Requests : Works(r) /\ Works(q) /\ req[r].key = k /\ req[q].key = k => r = q

\* Done under the key not long ago is what has a stored response no older than that, or is
\* about to have one.
Remembered(k) ==
    ran[k] >= Kept \/ (keys[k].body # "none" /\ keys[k].age <= ran[k]) \/ Owed(k)

\* Who looked and found no response may go on: nothing was done under the key for long.
NotDone(k) == \A r \in Requests : Fresh(r) /\ req[r].key = k => ran[k] >= Kept

KeyOK(k) == Solo(k) /\ Remembered(k) /\ NotDone(k)

Stored == [body : {"empty", "none"} \cup Ops, age : 0 .. Kept]
KeyTypes == ran \in [Keys -> 0 .. Kept] /\ keys \in [Keys -> Stored]

KeyInv == KeyTypes /\ \A k \in Keys \ excused : KeyOK(k)

\* What is stored under k stays, and no other handler comes to hold it.
LEMMA KeyRests ==
    ASSUME NEW k \in Keys, KeyOK(k), ran'[k] = ran[k], keys'[k] = keys[k],
           \A r \in Requests : Works(r)' /\ req'[r].key = k => Works(r) /\ req[r].key = k,
           \A r \in Requests : Fresh(r)' /\ req'[r].key = k => Fresh(r) /\ req[r].key = k,
           Owed(k) => Owed(k)'
    PROVE  KeyOK(k)'
BY DEF KeyOK, Solo, Remembered, NotDone

\* So it is while a handler goes on that does nothing under k and does not end before its
\* answer is stored.
LEMMA KeyWorks ==
    ASSUME NEW k \in Keys, KeyOK(k), ran'[k] = ran[k], keys'[k] = keys[k],
           NEW r \in Requests, NEW to, WorkStep(r, to),
           req[r].key = k /\ to \in {"look", "start", "act"} => Fresh(r),
           req[r].key = k /\ req[r].stage \in {"note", "store"} => to = "store"
    PROVE  KeyOK(k)'
<1>1. k # None
    BY AsksAssumption
<1>2. \A q \in Requests : Works(q)' /\ req'[q].key = k => Works(q) /\ req[q].key = k
    BY <1>1 DEF WorkStep, Moved, Works
<1>3. \A q \in Requests : Fresh(q)' /\ req'[q].key = k => Fresh(q) /\ req[q].key = k
    BY <1>1 DEF WorkStep, Moved, Fresh
<1>4. Owed(k) => Owed(k)'
  <2>1. ASSUME NEW q \in Requests, req[q].key = k, req[q].stage \in {"note", "store"}
        PROVE  req'[q].key = k /\ req'[q].stage \in {"note", "store"}
      BY <2>1 DEF WorkStep, Moved
  <2> QED
      BY <2>1 DEF Owed
<1> QED
    BY <1>2, <1>3, <1>4, KeyRests

\* Who has looked and found no response has nobody who is about to store one.
LEMMA FreshIsAlone ==
    ASSUME NEW k \in Keys, KeyOK(k), NEW r \in Requests, req[r].key = k, Works(r),
           req[r].stage \notin {"note", "store"}
    PROVE  ~Owed(k)
<1>1. ASSUME NEW q \in Requests, req[q].key = k, req[q].stage \in {"note", "store"} PROVE FALSE
  <2>1. Works(q)
      BY <1>1 DEF Works, Working
  <2> QED
      BY <1>1, <2>1 DEF KeyOK, Solo
<1> QED
    BY <1>1 DEF Owed

\* The operation of r is done under its key, and r goes on to say so.
LEMMA KeyRan ==
    ASSUME NEW k \in Keys, KeyOK(k), NEW r \in Requests, NEW to \in {"note", "store"},
           WorkStep(r, to), req[r].key = k
    PROVE  KeyOK(k)'
<1>1. Owed(k)'
    BY DEF Owed, WorkStep, Moved
<1>2. Solo(k)'
    BY DEF KeyOK, Solo, WorkStep, Moved, Works
<1>3. \A q \in Requests : ~(Fresh(q)' /\ req'[q].key = k)
  <2>1. ASSUME NEW q \in Requests, Fresh(q)', req'[q].key = k PROVE FALSE
    <3>1. q # r
        BY <2>1 DEF WorkStep, Moved, Fresh
    <3>2. Works(q) /\ req[q].key = k
        BY <2>1, <3>1 DEF WorkStep, Moved, Fresh, Works, Working
    <3> QED
        BY <3>1, <3>2 DEF KeyOK, Solo, WorkStep
  <2> QED
      BY <2>1
<1> QED
    BY <1>1, <1>2, <1>3 DEF KeyOK, Remembered, NotDone

LEMMA KeyHeld ==
    ASSUME NEW requests, NEW r \in requests, req[r].key # None
    PROVE  req[r].key \in HeldBy(requests)
BY DEF HeldBy

LEMMA RanTypes ==
    ASSUME KeyTypes, StartInv, NEW r \in Requests, Ran(r)
    PROVE  /\ ran' \in [Keys -> 0 .. Kept]
           /\ \A k \in Keys : k # req[r].key => ran'[k] = ran[k]
<1>1. 0 \in 0 .. Kept
    BY DaemonAssumption
<1>2. CASE req[r].key = None
    BY <1>2 DEF Ran, KeyTypes
<1>3. CASE req[r].key # None
  <2>1. ran' = [ran EXCEPT ![req[r].key] = 0]
      BY <1>3 DEF Ran
  <2> QED
      BY <1>1, <2>1 DEF KeyTypes
<1> QED
    BY <1>2, <1>3

\* Handlers.
LEMMA KeyHandlers ==
    ASSUME StartInv, KeyInv, NEW r \in Requests,
           LookForJobs(r) \/ NoteJob(r) \/ LookForBe(r) \/ ActOnBe(r) \/ Drop(r)
    PROVE  KeyInv'
<1>1. ran' = ran /\ keys' = keys /\ excused \subseteq excused'
    BY DEF LookForJobs, NoteJob, LookForBe, ActOnBe, Drop, History
<1>2. KeyTypes'
    BY <1>1 DEF KeyInv, KeyTypes
<1>3. ASSUME NEW k \in Keys \ excused' PROVE KeyOK(k)'
  <2>1. KeyOK(k) /\ k # None
      BY <1>1, AsksAssumption DEF KeyInv
  <2>2. CASE LookForJobs(r)
    <3>1. req[r].stage = "look" /\ (WorkStep(r, "start") \/ AnswerStep(r))
        BY <2>2, LookForJobsStep DEF At
    <3> QED
        BY <1>1, <2>1, <3>1, KeyWorks DEF AnswerStep, Fresh
  <2>3. CASE NoteJob(r)
    <3>1. req[r].stage = "note" /\ AnswerStep(r)
        BY <2>3, NoteJobStep DEF At
    <3> QED
        BY <1>1, <2>1, <3>1, KeyWorks DEF AnswerStep, Fresh
  <2>4. CASE LookForBe(r) \/ ActOnBe(r)
    <3>1. /\ req[r].stage \in {"look", "act"}
          /\ WorkStep(r, "act") \/ WorkStep(r, "over")
        BY <2>4, LookForBeStep, ActOnBeStep DEF At
    <3> QED
        BY <1>1, <2>1, <3>1, KeyWorks DEF Fresh
  <2>5. CASE Drop(r)
    <3>1. WorkStep(r, "over")
        BY <2>5, DropStep
    <3>2. ~(req[r].key = k /\ req[r].stage \in {"note", "store"})
      <4>1. ASSUME req[r].key = k, req[r].stage \in {"note", "store"} PROVE FALSE
        <5>1. r \in {r} \cap Unanswered
            BY <4>1 DEF Unanswered
        <5>2. k \in excused'
            BY <2>1, <2>5, <4>1, <5>1, KeyHeld DEF Drop
        <5> QED
            BY <5>2
      <4> QED
          BY <4>1
    <3> QED
        BY <1>1, <2>1, <3>1, <3>2, KeyWorks
  <2> QED
      BY <2>2, <2>3, <2>4, <2>5
<1> QED
    BY <1>2, <1>3 DEF KeyInv

LEMMA KeyRuns ==
    ASSUME StartInv, KeyInv, NEW r \in Requests, CreateUser(r) \/ StartJob(r)
    PROVE  KeyInv'
<1>1. keys' = keys /\ Ran(r) /\ req[r].stage \in {"act", "start"}
    BY DEF CreateUser, StartJob, Doing, At
<1>2. excused \subseteq excused'
    BY DEF CreateUser, StartJob, History
<1>3. /\ KeyTypes'
      /\ \A k \in Keys : k # req[r].key => ran'[k] = ran[k]
    BY <1>1, RanTypes DEF KeyInv, KeyTypes
<1>4. \/ WorkStep(r, "note") \/ AnswerStep(r)
      \/ WorkStep(r, "over") /\ excused' = excused \cup HeldBy({r})
  <2>1. CASE CreateUser(r)
      BY <2>1, CreateUserStep
  <2>2. CASE StartJob(r)
    <3>1. \/ faults' = faults
          \/ excused' = excused \cup HeldBy({r})
        BY <2>2 DEF StartJob
    <3>2. faults \in Nat
        BY DaemonAssumption DEF StartInv
    <3> QED
        BY <2>2, <3>1, <3>2, StartJobStep
  <2> QED
      BY <2>1, <2>2
<1>5. ASSUME NEW k \in Keys \ excused' PROVE KeyOK(k)'
  <2>1. KeyOK(k) /\ k # None
      BY <1>2, AsksAssumption DEF KeyInv
  <2>2. CASE req[r].key = k
    <3>1. ~(excused' = excused \cup HeldBy({r}))
        BY <2>1, <2>2, KeyHeld
    <3>2. WorkStep(r, "note") \/ WorkStep(r, "store")
        BY <1>4, <2>1, <2>2, <3>1 DEF AnswerStep
    <3> QED
        BY <2>1, <2>2, <3>2, KeyRan
  <2>3. CASE req[r].key # k
    <3>1. ran'[k] = ran[k] /\ keys'[k] = keys[k]
        BY <1>1, <1>3, <2>3
    <3>2. WorkStep(r, "note") \/ WorkStep(r, "store") \/ WorkStep(r, "over")
        BY <1>4 DEF AnswerStep
    <3> QED
        BY <2>1, <2>3, <3>1, <3>2, KeyWorks
  <2> QED
      BY <2>2, <2>3
<1> QED
    BY <1>3, <1>5 DEF KeyInv

\* Who finds no response, or one that was swept away, finds that nothing was done for long.
LEMMA KeyLooks == ASSUME StartInv, KeyInv, NEW r \in Requests, Lookup(r) PROVE KeyInv'
<1>1. ran' = ran /\ keys' = keys /\ excused' = excused /\ req[r].stage = "lookup" /\ Works(r)
    BY DEF Lookup, At, History, Works, Working
<1>2. KeyTypes'
    BY <1>1 DEF KeyInv, KeyTypes
<1>3. ASSUME NEW k \in Keys \ excused' PROVE KeyOK(k)'
  <2>1. KeyOK(k) /\ k # None
      BY <1>1, <1>3, AsksAssumption DEF KeyInv
  <2>2. CASE WorkStep(r, "over")
      BY <1>1, <2>1, <2>2, KeyWorks
  <2>3. ASSUME keys[req[r].key].body = "none", NEW to \in {"look", "act"}, WorkStep(r, to)
        PROVE  KeyOK(k)'
    <3>1. CASE req[r].key # k
        BY <1>1, <2>1, <2>3, <3>1, KeyWorks
    <3>2. CASE req[r].key = k
      <4>1. ran[k] >= Kept
          BY <1>1, <2>1, <2>3, <3>2, FreshIsAlone DEF KeyOK, Remembered
      <4>2. Solo(k)'
          BY <2>1, <2>3, <3>2 DEF KeyOK, Solo, WorkStep, Moved, Works
      <4> QED
          BY <1>1, <4>1, <4>2 DEF KeyOK, Remembered, NotDone
    <3> QED
        BY <3>1, <3>2
  <2> QED
      BY <2>2, <2>3, LookupStep DEF Seen
<1> QED
    BY <1>2, <1>3 DEF KeyInv

\* A response stored by one alone ends what its key was excused of.
LEMMA KeyStores == ASSUME StartInv, KeyInv, NEW r \in Requests, Store(r) PROVE KeyInv'
<1> DEFINE entry == [body |-> Body(req[r].op), age |-> 0]
<1>1. WorkStep(r, "over") /\ req[r].stage = "store"
    BY StoreStep DEF At
<1> PICK key \in Keys : key = req[r].key
    BY <1>1 DEF StartInv, Reqs, ReqOK
<1>2. key = req[r].key /\ req[r].op \in Ops /\ key # None
    BY AsksAssumption DEF StartInv, Reqs, ReqOK
<1>3. entry.body # "none" /\ entry.age = 0 /\ entry \in Stored
  <2>1. Body(req[r].op) \in {"empty", "none"} \cup Ops /\ Body(req[r].op) # "none"
      BY <1>2 DEF Body, Ops, JobOps, UpdateOps, BeOps
  <2> QED
      BY <2>1, DaemonAssumption DEF Stored
<1>4. ran' = ran /\ keys' = [keys EXCEPT ![key] = entry]
    BY <1>2 DEF Store
<1> HIDE DEF entry
<1>5. KeyTypes' /\ keys'[key] = entry /\ \A k \in Keys \ {key} : keys'[k] = keys[k]
    BY <1>2, <1>3, <1>4 DEF KeyInv, KeyTypes
<1>6. ASSUME NEW k \in Keys \ {key}, k \notin excused' PROVE KeyOK(k)'
  <2>1. k \notin excused
      BY <1>2, <1>6 DEF Store
  <2>2. KeyOK(k)
      BY <2>1 DEF KeyInv
  <2> QED
      BY <1>1, <1>2, <1>4, <1>5, <2>2, KeyWorks
<1>7. ASSUME key \notin excused' PROVE KeyOK(key)'
  <2>1. \A q \in Requests \ {r} : ~(Works(q) /\ req[q].key = key)
    <3>1. CASE key \in excused
      <4>1. key \notin HeldBy(Busy \ {r})
          BY <1>2, <1>7, <3>1 DEF Store
      <4>2. \A q \in Requests \ {r} : Works(q) => q \in Busy \ {r}
          BY DEF Busy, Works
      <4> QED
          BY <1>2, <4>1, <4>2 DEF HeldBy
    <3>2. CASE key \notin excused
        BY <1>1, <1>2, <3>2 DEF KeyInv, KeyOK, Solo, WorkStep
    <3> QED
        BY <3>1, <3>2
  <2>2. \A q \in Requests : ~(Works(q)' /\ req'[q].key = key)
      BY <1>1, <1>2, <2>1 DEF WorkStep, Moved, Works
  <2>3. Remembered(key)'
    <3>1. ran'[key] \in 0 .. Kept
        BY <1>2, <1>4 DEF KeyInv, KeyTypes
    <3> QED
        BY <1>3, <1>5, <3>1 DEF Remembered
  <2>4. NotDone(key)'
      BY <2>2 DEF NotDone, Fresh, Works, Working
  <2> QED
      BY <2>2, <2>3, <2>4 DEF KeyOK, Solo
<1> QED
    BY <1>5, <1>6, <1>7 DEF KeyInv

LEMMA KeyAsks ==
    ASSUME StartInv, KeyInv, NEW r \in Requests,
           Ask(r) \/ Attach(r) \/ Detach(r) \/ UpgradeFails(r)
    PROVE  KeyInv'
<1>1. ran' = ran /\ keys' = keys /\ excused \subseteq excused'
    BY DEF Ask, Attach, Detach, UpgradeFails, History
<1>2. KeyTypes'
    BY <1>1 DEF KeyInv, KeyTypes
<1>3. /\ \A q \in Requests \ {r} : req'[q] = req[q]
      /\ req[r].stage \notin {"note", "store"} /\ (~Fresh(r)' \/ req'[r].key = None)
  <2>1. CASE Ask(r)
      BY <2>1, AskPuts DEF StartInv, Asked, At, Fresh
  <2>2. CASE Attach(r) \/ Detach(r) \/ UpgradeFails(r)
    <3>1. Moved(r, "attached") \/ Moved(r, "over")
        BY <2>2, GotoMoves, OverMoves DEF Attach, Detach, UpgradeFails, StartInv
    <3> QED
        BY <2>2, <3>1 DEF Moved, Fresh, Attach, Detach, UpgradeFails, Doing, At
  <2> QED
      BY <2>1, <2>2
<1>4. ASSUME NEW k \in Keys \ excused' PROVE KeyOK(k)'
  <2>1. KeyOK(k) /\ k # None
      BY <1>1, AsksAssumption DEF KeyInv
  <2>2. Owed(k) => Owed(k)'
      BY <1>3 DEF Owed
  <2>3. NotDone(k)'
      BY <1>1, <1>3, <2>1 DEF KeyOK, NotDone, Fresh
  <2>4. Solo(k)'
    <3>1. ASSUME NEW q \in Requests \ {r}, Works(q), req[q].key = k, Works(r)', req'[r].key = k
          PROVE  FALSE
      <4>1. Ask(r)
        <5>1. ASSUME Attach(r) \/ Detach(r) \/ UpgradeFails(r) PROVE FALSE
          <6>1. Moved(r, "attached") \/ Moved(r, "over")
              BY <5>1, GotoMoves, OverMoves DEF Attach, Detach, UpgradeFails, StartInv
          <6> QED
              BY <3>1, <6>1 DEF Moved, Works, Working
        <5> QED
            BY <5>1
      <4>2. k \in HeldBy(Busy)
          BY <2>1, <3>1 DEF HeldBy, Busy, Works
      <4> QED
          BY <3>1, <4>1, <4>2 DEF Ask
    <3> QED
        BY <1>3, <2>1, <3>1 DEF KeyOK, Solo, Works
  <2> QED
      BY <1>1, <2>1, <2>2, <2>3, <2>4 DEF KeyOK, Remembered
<1> QED
    BY <1>2, <1>4 DEF KeyInv

\* A death ends every handler, and excuses the keys under which an answer was owed.
LEMMA KeyDeaths == ASSUME StartInv, KeyInv, Crash \/ HostReboots PROVE KeyInv'
<1>1. ran' = ran /\ keys' = keys /\ excused' = excused \cup HeldBy(Unanswered) /\ Dies
    BY DEF Crash, HostReboots, Dies
<1>2. KeyTypes'
    BY <1>1 DEF KeyInv, KeyTypes
<1>3. \A r \in Requests : ~Works(r)' /\ ~Fresh(r)'
    BY <1>1, DiesEnds DEF StartInv, Ended, Fresh, Works, Working
<1>4. ASSUME NEW k \in Keys \ excused' PROVE KeyOK(k)'
  <2>1. KeyOK(k) /\ k # None
      BY <1>1, AsksAssumption DEF KeyInv
  <2>2. ~Owed(k)
    <3>1. ASSUME NEW q \in Requests, req[q].key = k, req[q].stage \in {"note", "store"} PROVE FALSE
      <4>1. q \in Unanswered
          BY <3>1 DEF Unanswered
      <4> QED
          BY <1>1, <2>1, <3>1, <4>1, KeyHeld
    <3> QED
        BY <3>1 DEF Owed
  <2> QED
      BY <1>1, <1>3, <2>1, <2>2 DEF KeyOK, Solo, Remembered, NotDone
<1> QED
    BY <1>2, <1>4 DEF KeyInv

\* A swept response was stored long ago, and what it answered was done before it.
LEMMA KeySweeps == ASSUME KeyInv, Sweep PROVE KeyInv'
<1>1. ran' = ran /\ req' = req /\ excused' = excused
    BY DEF Sweep, History
<1>2. \A e \in Stored : [e EXCEPT !.body = "none"] \in Stored
    BY DEF Stored
<1>3. KeyTypes'
    BY <1>1, <1>2 DEF Sweep, KeyInv, KeyTypes
<1>4. ASSUME NEW k \in Keys \ excused' PROVE KeyOK(k)'
  <2>1. KeyOK(k) /\ k \in Keys /\ keys[k] \in Stored /\ ran[k] \in 0 .. Kept
      BY <1>1, <1>4 DEF KeyInv, KeyTypes
  <2>2. Solo(k)' /\ NotDone(k)' /\ (Owed(k)' <=> Owed(k))
      BY <1>1, <2>1 DEF KeyOK, Solo, NotDone, Owed, Works, Fresh
  <2>3. keys'[k] = keys[k] \/ keys[k].age >= Kept
      BY DEF Sweep, Stale
  <2>4. Remembered(k)'
      BY <1>1, <2>1, <2>2, <2>3, DaemonAssumption DEF KeyOK, Remembered, Stored
  <2> QED
      BY <2>2, <2>4 DEF KeyOK
<1> QED
    BY <1>3, <1>4 DEF KeyInv

\* Responses and what they answer grow old together.
LEMMA KeyTicks == ASSUME KeyInv, Tick PROVE KeyInv'
<1>1. req' = req /\ excused' = excused
    BY DEF Tick, History
<1>2. \A n \in 0 .. Kept : Older(n) \in 0 .. Kept
    BY DaemonAssumption DEF Older
<1>3. \A e \in Stored : /\ [e EXCEPT !.age = Older(@)] \in Stored
                        /\ [e EXCEPT !.age = Older(@)].age = Older(e.age)
                        /\ [e EXCEPT !.age = Older(@)].body = e.body
    BY <1>2 DEF Stored
<1>4. KeyTypes'
    BY <1>2, <1>3 DEF Tick, KeyInv, KeyTypes
<1>5. ASSUME NEW k \in Keys \ excused' PROVE KeyOK(k)'
  <2>1. KeyOK(k) /\ keys[k] \in Stored /\ ran[k] \in 0 .. Kept /\ keys[k].age \in 0 .. Kept
      BY <1>1, <1>5 DEF KeyInv, KeyTypes, Stored
  <2>2. ran'[k] = Older(ran[k]) /\ keys'[k].age = Older(keys[k].age) /\ keys'[k].body = keys[k].body
      BY <1>3, <2>1 DEF Tick
  <2>3. /\ ran[k] >= Kept => ran'[k] >= Kept
        /\ keys[k].age <= ran[k] => keys'[k].age <= ran'[k]
      BY <2>1, <2>2, DaemonAssumption DEF Older
  <2>4. Solo(k)' /\ NotDone(k)' /\ (Owed(k)' <=> Owed(k))
      BY <1>1, <2>1, <2>3 DEF KeyOK, Solo, NotDone, Owed, Works, Fresh
  <2> QED
      BY <2>1, <2>2, <2>3, <2>4 DEF KeyOK, Remembered
<1> QED
    BY <1>4, <1>5 DEF KeyInv

LEMMA KeyNext == ASSUME StartInv, KeyInv, [Next]_vars PROVE KeyInv'
<1>1. CASE UNCHANGED <<req, keys, ran, excused>>
  <2>1. \A k \in Keys : KeyOK(k) => KeyOK(k)'
      BY <1>1, KeyRests DEF Works, Fresh, Owed
  <2> QED
      BY <1>1, <2>1 DEF KeyInv, KeyTypes
<1>2. ASSUME NEW r \in Requests,
             \/ CheckPlans(r) \/ CheckSaves(r) \/ ApplyUpdates(r) \/ ApplySaves(r)
             \/ RebootAsks(r) \/ JobFails(r)
      PROVE  UNCHANGED <<req, keys, ran, excused>>
    BY <1>2 DEF CheckPlans, CheckSaves, ApplyUpdates, ApplySaves, RebootAsks, JobFails, History
<1>3. ASSUME FirstBootFails \/ Publish \/ UNCHANGED vars
      PROVE  UNCHANGED <<req, keys, ran, excused>>
    BY <1>3 DEF FirstBootFails, Publish, vars, History
<1>4. ASSUME Starting PROVE UNCHANGED <<req, keys, ran, excused>>
  <2>1. UNCHANGED <<req, keys, ran, History>>
      BY <1>4, Zenon DEF Starting, Migrate, Recover, FirstBoot, InsertAdmin, DestroyFile,
         LoadOrGenerate, WritePair
  <2> QED
      BY <2>1 DEF History
<1> QED
    BY <1>1, <1>2, <1>3, <1>4, KeyHandlers, KeyRuns, KeyLooks, KeyStores, KeyAsks, KeyDeaths,
       KeySweeps, KeyTicks DEF Next

LEMMA KeyInit == Init => KeyInv
<1> SUFFICES ASSUME Init PROVE KeyInv
    OBVIOUS
<1>1. \A r \in Requests : req[r].stage = "idle"
    BY DEF Init, NewRequest
<1>2. keys = [k \in Keys |-> [body |-> "none", age |-> Kept]] /\ ran = [k \in Keys |-> Kept]
    BY DEF Init
<1>3. Kept \in 0 .. Kept
    BY DaemonAssumption
<1>4. KeyTypes
    BY <1>2, <1>3 DEF KeyTypes, Stored
<1>5. \A k \in Keys : KeyOK(k)
    BY <1>1, <1>2, <1>3 DEF KeyOK, Solo, Remembered, NotDone, Works, Working, Fresh
<1> QED
    BY <1>4, <1>5 DEF KeyInv

LEMMA KeyAlways == Spec => [](StartInv /\ KeyInv)
<1>1. StartInv /\ KeyInv /\ [Next]_vars => StartInv' /\ KeyInv'
    BY StartNext, KeyNext
<1> QED
    BY <1>1, StartInit, KeyInit, PTL DEF Spec

\* What is asked under a key is done only if nothing was done under it in the last 24 hours,
\* although stored responses are swept away: unless requests with that key met, or one ended
\* between its work and the storing of its answer, and no response was stored since by one
\* alone.  (idempotency::layer, session::sweep)
THEOREM KeysRunOnce == Spec => OnceByKey
<1> DEFINE Once(r) == (StartJob(r) \/ CreateUser(r)) /\ req[r].key \in Keys \ excused =>
                         ran[req[r].key] >= Kept
<1>1. StartInv /\ KeyInv => [\A r \in Requests : Once(r)]_vars
  <2> SUFFICES ASSUME KeyInv, NEW r \in Requests, StartJob(r) \/ CreateUser(r),
                      req[r].key \in Keys \ excused
               PROVE  ran[req[r].key] >= Kept
      OBVIOUS
  <2>1. Fresh(r)
      BY DEF StartJob, CreateUser, Doing, At, Fresh
  <2> QED
      BY <2>1 DEF KeyInv, KeyOK, NotDone
<1> QED
    BY <1>1, KeyAlways, PTL DEF OnceByKey

-----------------------------------------------------------------------------
(* What a start leads to.                                                  *)

\* A zone has one console session at most, and its claim is taken while it has; without
\* failed upgrades it is taken only then.  (zone_console.rs, vnc.rs)
THEOREM OneSession == Spec => []ConsoleIsExclusive
<1>1. ASSUME StartInv PROVE ConsoleIsExclusive
  <2> DEFINE attached == {r \in Requests : At(r, "attached")}
  <2>1. \A r \in Requests : r \in attached <=> Attached(r)
      BY DEF At, Attached
  <2>2. CASE attached = {}
      BY <1>1, <2>1, <2>2, FS_EmptySet DEF StartInv, Claim, ConsoleIsExclusive
  <2>3. ASSUME NEW r \in attached PROVE ConsoleIsExclusive
    <3>1. attached = {r}
        BY <1>1, <2>1, <2>3 DEF StartInv, OneConsole
    <3>2. Cardinality(attached) = 1
        BY <3>1, FS_Singleton
    <3>3. claimed
        BY <1>1, <2>1, <2>3 DEF StartInv, Claim
    <3> HIDE DEF attached
    <3>4. attached # {} /\ Cardinality(attached) <= 1
        BY <3>1, <3>2
    <3> USE DEF attached
    <3> QED
        BY <3>3, <3>4 DEF ConsoleIsExclusive
  <2> QED
      BY <2>2, <2>3
<1> QED
    BY <1>1, StartAlways, PTL

\* The first-boot file makes a user only where there is none, however often the daemon died
\* before.  (firstboot::run)
THEOREM FirstBootMakesTheFirst == Spec => [][InsertAdmin => ~users]_vars
<1>1. ASSUME StartInv, InsertAdmin PROVE ~users
    BY <1>1 DEF StartInv, First, InsertAdmin
<1>2. StartInv /\ [Next]_vars => [InsertAdmin => ~users]_vars
    BY <1>1
<1> QED
    BY <1>2, StartAlways, PTL DEF Spec

Tls == tls = [f \in {"key", "cert", "made"} |-> tls[f]]

\* The migrations done are those up to the version, and all of them once the start is past
\* them; who serves has a pair.
ServeInv ==
    /\ up \in {"down", "firstboot", "insert", "destroy", "tls", "write", "up"}
    /\ schema = [version |-> schema.version, applied |-> 1 .. schema.version]
    /\ schema.version \in 0 .. Migrations
    /\ up # "down" => schema.version = Migrations
    /\ Tls /\ (up = "up" => tls.cert = tls.key)

LEMMA ServeInit == Init => ServeInv
<1> SUFFICES ASSUME Init PROVE ServeInv
    OBVIOUS
<1>1. PICK n \in {0, Migrations - 1, Migrations} : schema = [version |-> n, applied |-> 1 .. n]
    BY DEF Init
<1>2. up = "down"
    BY DEF Init
<1>3. Tls
    BY DEF Init, Tls
<1> QED
    BY <1>1, <1>2, <1>3 DEF ServeInv, Migrations

LEMMA ServeNext == ServeInv /\ [Next]_vars => ServeInv'
<1> SUFFICES ASSUME ServeInv, [Next]_vars PROVE ServeInv'
    OBVIOUS
<1>1. CASE Migrate
  <2> DEFINE next == schema.version + 1
  <2>1. /\ schema' = [version |-> next, applied |-> schema.applied \cup {next}]
        /\ up' = up /\ tls' = tls /\ up = "down" /\ schema.version < Migrations
      BY <1>1 DEF Migrate
  <2>2. schema.applied = 1 .. schema.version
      BY DEF ServeInv
  <2>3. schema.version \in Nat /\ schema.applied \cup {next} = 1 .. next
      BY <2>2 DEF ServeInv, Migrations
  <2>4. next \in 0 .. Migrations
      BY <2>1 DEF ServeInv, Migrations
  <2> HIDE DEF next
  <2>5. schema' = [version |-> next, applied |-> 1 .. next]
      BY <2>1, <2>3
  <2>6. schema'.version = next /\ schema'.applied = 1 .. next
      BY <2>5
  <2>7. schema' = [version |-> schema'.version, applied |-> 1 .. schema'.version]
      BY <2>5, <2>6
  <2>8. Tls' /\ up' = "down"
      BY <2>1 DEF ServeInv, Tls
  <2> QED
      BY <2>4, <2>6, <2>7, <2>8 DEF ServeInv
<1>2. CASE Recover
    BY <1>2 DEF Recover, ServeInv, Tls
<1>3. CASE FirstBoot \/ InsertAdmin \/ DestroyFile \/ FirstBootFails
    BY <1>3 DEF FirstBoot, InsertAdmin, DestroyFile, FirstBootFails, ServeInv, Tls
<1>4. CASE LoadOrGenerate
  <2>1. CASE up' = (IF tls.cert \in Pairs /\ tls.key = tls.cert THEN "up" ELSE "down") /\ tls' = tls
      BY <1>4, <2>1 DEF LoadOrGenerate, ServeInv, Tls
  <2>2. CASE up' = "write" /\ tls' = [tls EXCEPT !.made = Min(Pairs \ {tls.key, tls.cert})]
      BY <1>4, <2>2 DEF LoadOrGenerate, ServeInv, Tls
  <2> QED
      BY <1>4, <2>1, <2>2 DEF LoadOrGenerate
<1>5. CASE WritePair
  <2> DEFINE files == <<"key", "cert">>
             todo == {i \in {1, 2} : tls[files[i]] # tls.made}
             f == files[Min(todo)]
  <2>1. CASE todo = {}
    <3>1. tls["key"] = tls.made /\ tls["cert"] = tls.made
        BY <2>1
    <3>2. up' = "up" /\ tls' = [tls EXCEPT !.made = NoFile] /\ schema' = schema /\ up = "write"
        BY <1>5, <2>1 DEF WritePair
    <3> QED
        BY <3>1, <3>2 DEF ServeInv, Tls
  <2>2. CASE todo # {}
    <3>1. up' = up /\ schema' = schema /\ up = "write" /\
          \E v : tls' = [tls EXCEPT ![f] = v]
        BY <1>5, <2>2, Zenon DEF WritePair
    <3> HIDE DEF f
    <3>2. Tls'
        BY <3>1 DEF ServeInv, Tls
    <3> QED
        BY <3>1, <3>2 DEF ServeInv
  <2> QED
      BY <2>1, <2>2
<1>6. CASE Crash \/ HostReboots
  <2>1. up' = "down" /\ schema' = schema /\ tls' = [tls EXCEPT !.made = NoFile]
      BY <1>6 DEF Crash, HostReboots, Dies
  <2> QED
      BY <2>1 DEF ServeInv, Tls
<1>7. CASE UNCHANGED <<up, schema, tls>>
    BY <1>7 DEF ServeInv, Tls
<1>8. ASSUME NEW r \in Requests,
             \/ Ask(r) \/ Lookup(r) \/ Store(r) \/ CreateUser(r)
             \/ LookForJobs(r) \/ StartJob(r) \/ NoteJob(r)
             \/ CheckPlans(r) \/ CheckSaves(r) \/ ApplyUpdates(r) \/ ApplySaves(r)
             \/ RebootAsks(r) \/ JobFails(r) \/ LookForBe(r) \/ ActOnBe(r)
             \/ Attach(r) \/ Detach(r) \/ UpgradeFails(r) \/ Drop(r)
      PROVE  UNCHANGED <<up, schema, tls>>
  <2>1. CASE CreateUser(r)
      BY <2>1 DEF CreateUser
  <2>2. CASE ~CreateUser(r)
    <3>1. UNCHANGED StartState
        BY <1>8, <2>2, Zenon DEF Ask, Lookup, Store, LookForJobs, StartJob, NoteJob, CheckPlans,
           CheckSaves, ApplyUpdates, ApplySaves, RebootAsks, JobFails, LookForBe, ActOnBe,
           Attach, Detach, UpgradeFails, Drop
    <3> QED
        BY <3>1 DEF StartState
  <2> QED
      BY <2>1, <2>2
<1>9. CASE Publish \/ Sweep \/ Tick \/ UNCHANGED vars
    BY <1>7, <1>9 DEF Publish, Sweep, Tick, vars, StartState
<1> QED
    BY <1>1, <1>2, <1>3, <1>4, <1>5, <1>6, <1>7, <1>8, <1>9 DEF Next, Starting

\* A daemon that serves has done every migration, in whatever starts, and has a certificate of
\* its key, after whatever deaths.  (db::migrate, tls::load_or_generate)
THEOREM ServesWhole ==
    Spec => [](up = "up" => schema.applied = 1 .. Migrations /\ tls.cert = tls.key)
<1>1. ServeInv => (up = "up" => schema.applied = 1 .. Migrations /\ tls.cert = tls.key)
    BY DEF ServeInv
<1> QED
    BY <1>1, ServeInit, ServeNext, PTL DEF Spec

-----------------------------------------------------------------------------
(* Jobs of updates.                                                        *)

JobRecord(v) == v = [kind |-> v.kind, state |-> v.state, step |-> v.step, plan |-> v.plan]

\* A task is one of a job under way.
JobOK(v) ==
    /\ JobRecord(v) /\ v.kind \in JobOps \cup {"none"}
    /\ v.step # "none" => v.state \in {"queued", "running"}

Jobs == job = [j \in Requests |-> job[j]] /\ \A j \in Requests : JobOK(job[j])

RowOK ==
    /\ row = [plan |-> row.plan, check |-> row.check, apply |-> row.apply,
              applied |-> row.applied]
    /\ {row.check, row.apply} \subseteq Requests \cup {None}

Under(j) == job[j].kind \in UpdateOps /\ Unfinished(j)
StartsUpdate(r) == req[r].stage = "start" /\ req[r].op \in UpdateOps
Notes(r) == req[r].stage = "note"

\* The row knows of the update under way, or the handler does that has started it; who is
\* about to start one has seen that there is none.
UpdateInv ==
    /\ Jobs /\ RowOK
    /\ Calm => /\ Single
               /\ \A i, j \in Requests : Under(i) /\ Under(j) => i = j
               /\ \A j \in Requests : Under(j) => j \in {row.check, row.apply} \/ Notes(j)
               /\ \A r, j \in Requests : StartsUpdate(r) => ~Under(j)
               /\ \A r, j \in Requests : Notes(r) /\ Under(j) => j = r

LEMMA UpdatesRest ==
    ASSUME UpdateInv, Calm' => Calm, Calm' => Single', Jobs', RowOK',
           row'.check = row.check, row'.apply = row.apply,
           \A j \in Requests : Under(j)' => Under(j),
           Calm' => \A r \in Requests : Notes(r)' <=> Notes(r),
           Calm' => \A r \in Requests : StartsUpdate(r)' => StartsUpdate(r)
    PROVE  UpdateInv'
BY DEF UpdateInv

LEMMA PutJob ==
    ASSUME Jobs, NEW j \in Requests, NEW v, JobOK(v), job' = [job EXCEPT ![j] = v]
    PROVE  Jobs' /\ job'[j] = v /\ \A i \in Requests \ {j} : job'[i] = job[i]
<1>1. DOMAIN job = Requests
    BY DEF Jobs
<1>2. job'[j] = v /\ \A i \in Requests \ {j} : job'[i] = job[i]
    BY <1>1
<1>3. job' = [i \in Requests |-> job'[i]]
    BY <1>1
<1> QED
    BY <1>2, <1>3 DEF Jobs

LEMMA NoJobIs == JobRecord(NoJob) /\ NoJob.step = "none" /\ NoJob.state = "none" /\ NoJob.kind = "none"
BY DEF NoJob, JobRecord

\* A job that ends is under way no more, and one that goes on was before.
LEMMA FinishJob ==
    ASSUME Jobs, NEW j \in Requests, NEW from, NEW state \in {"succeeded", "failed"},
           Finish(j, from, state)
    PROVE  Jobs' /\ \A i \in Requests : Under(i)' => Under(i)
<1> DEFINE u == [NoJob EXCEPT !.kind = job[j].kind]
           v == [u EXCEPT !.state = state]
<1>1. JobRecord(u) /\ u.step = "none" /\ u.kind = job[j].kind
    BY NoJobIs DEF JobRecord
<1>2. job' = [job EXCEPT ![j] = [NoJob EXCEPT !.kind = job[j].kind, !.state = state]]
    BY Zenon DEF Finish
<1>3. [NoJob EXCEPT !.kind = job[j].kind, !.state = state] = v
    BY Zenon
<1> HIDE DEF u
<1>4. JobRecord(v) /\ v.step = "none" /\ v.kind = job[j].kind /\ v.state = state
    BY <1>1 DEF JobRecord
<1>5. job' = [job EXCEPT ![j] = v]
    BY <1>2, <1>3
<1> HIDE DEF v
<1>6. JobOK(v)
    BY <1>4 DEF Jobs, JobOK
<1>7. Jobs' /\ job'[j] = v /\ \A i \in Requests \ {j} : job'[i] = job[i]
    BY <1>5, <1>6, PutJob
<1> QED
    BY <1>4, <1>7 DEF Under, Unfinished

LEMMA GoOnJob ==
    ASSUME Jobs, NEW j \in Requests, NEW v, job[j].step = "begin",
           JobRecord(v), v.kind = job[j].kind, v.state = "running",
           job' = [job EXCEPT ![j] = v]
    PROVE  Jobs' /\ \A i \in Requests : Under(i)' => Under(i)
<1>1. JobOK(v) /\ job[j].state \in {"queued", "running"}
    BY DEF Jobs, JobOK
<1>2. Jobs' /\ job'[j] = v /\ \A i \in Requests \ {j} : job'[i] = job[i]
    BY <1>1, PutJob
<1> QED
    BY <1>1, <1>2 DEF Under, Unfinished

LEMMA JobsGoOn ==
    ASSUME Jobs, NEW j \in Requests,
           \/ CheckPlans(j) \/ CheckSaves(j) \/ ApplyUpdates(j) \/ ApplySaves(j)
           \/ RebootAsks(j) \/ JobFails(j)
    PROVE  Jobs' /\ \A i \in Requests : Under(i)' => Under(i)
<1>1. JobRecord(job[j]) /\ j \in DOMAIN job
    BY DEF Jobs, JobOK
<1>2. CASE CheckSaves(j) \/ ApplySaves(j) \/ RebootAsks(j) \/ JobFails(j)
  <2>1. \E from : \E state \in {"succeeded", "failed"} : Finish(j, from, state)
      BY <1>2 DEF CheckSaves, ApplySaves, RebootAsks, JobFails
  <2> QED
      BY <2>1, FinishJob
<1>3. ASSUME NEW plan,
             \/ job' = [job EXCEPT ![j].step = "save", ![j].state = "running", ![j].plan = plan]
             \/ job' = [job EXCEPT ![j].step = "save", ![j].state = "running"] /\ plan = job[j].plan,
             job[j].step = "begin"
      PROVE  Jobs' /\ \A i \in Requests : Under(i)' => Under(i)
  <2> DEFINE u == [job[j] EXCEPT !.step = "save"]
             v == [u EXCEPT !.state = "running"]
             w == [v EXCEPT !.plan = plan]
  <2>1. job' = [job EXCEPT ![j] = v] \/ job' = [job EXCEPT ![j] = w]
      BY <1>1, <1>3, Zenon
  <2>2. JobRecord(u) /\ u.kind = job[j].kind
      BY <1>1 DEF JobRecord
  <2> HIDE DEF u
  <2>3. JobRecord(v) /\ v.kind = job[j].kind /\ v.state = "running"
      BY <2>2 DEF JobRecord
  <2> HIDE DEF v
  <2>4. JobRecord(w) /\ w.kind = job[j].kind /\ w.state = "running"
      BY <2>3 DEF JobRecord
  <2> HIDE DEF w
  <2> QED
      BY <1>3, <2>1, <2>3, <2>4, GoOnJob
<1>4. CASE CheckPlans(j)
  <2>1. job[j].step = "begin" /\ \E plan :
           job' = [job EXCEPT ![j].step = "save", ![j].state = "running", ![j].plan = plan]
      BY <1>4, Zenon DEF CheckPlans
  <2> QED
      BY <1>3, <2>1
<1>5. CASE ApplyUpdates(j)
  <2>1. job[j].step = "begin" /\
        job' = [job EXCEPT ![j].step = "save", ![j].state = "running"]
      BY <1>5, Zenon DEF ApplyUpdates, Step
  <2> QED
      BY <1>3, <2>1
<1> QED
    BY <1>2, <1>4, <1>5

LEMMA DiesStops ==
    ASSUME Jobs, Dies
    PROVE  Jobs' /\ \A i \in Requests : Under(i)' => Under(i)
<1>1. job' = [j \in Requests |-> [job[j] EXCEPT !.step = "none"]]
    BY DEF Dies
<1>2. ASSUME NEW j \in Requests
      PROVE  JobOK(job'[j]) /\ job'[j].kind = job[j].kind /\ job'[j].state = job[j].state
  <2> DEFINE v == [job[j] EXCEPT !.step = "none"]
  <2>1. JobRecord(job[j]) /\ job[j].kind \in JobOps \cup {"none"}
      BY DEF Jobs, JobOK
  <2>2. JobRecord(v) /\ v.step = "none" /\ v.kind = job[j].kind /\ v.state = job[j].state
      BY <2>1 DEF JobRecord
  <2>3. job'[j] = v
      BY <1>1
  <2> HIDE DEF v
  <2> QED
      BY <2>1, <2>2, <2>3 DEF JobOK
<1>3. job' = [j \in Requests |-> job'[j]]
    BY <1>1
<1>4. Jobs'
    BY <1>2, <1>3 DEF Jobs
<1> QED
    BY <1>2, <1>4 DEF Under, Unfinished

LEMMA RecoverEnds ==
    ASSUME Jobs, Recover
    PROVE  Jobs' /\ \A i \in Requests : Under(i)' => Under(i)
<1> DEFINE failed(j) == [NoJob EXCEPT !.kind = job[j].kind, !.state = "failed"]
<1>1. job' = [j \in Requests |-> IF Unfinished(j) THEN failed(j) ELSE job[j]]
    BY Zenon DEF Recover
<1>2. ASSUME NEW j \in Requests
      PROVE  JobRecord(failed(j)) /\ failed(j).step = "none" /\ failed(j).kind = job[j].kind
             /\ failed(j).state = "failed"
  <2> DEFINE u == [NoJob EXCEPT !.kind = job[j].kind]
             v == [u EXCEPT !.state = "failed"]
  <2>1. JobRecord(u) /\ u.step = "none" /\ u.kind = job[j].kind
      BY NoJobIs DEF JobRecord
  <2>2. failed(j) = v
      BY Zenon
  <2> HIDE DEF u, failed
  <2>3. JobRecord(v) /\ v.step = "none" /\ v.kind = job[j].kind /\ v.state = "failed"
      BY <2>1 DEF JobRecord
  <2> QED
      BY <2>2, <2>3, Zenon
<1> HIDE DEF failed
<1>3. \A j \in Requests : job'[j] = IF Unfinished(j) THEN failed(j) ELSE job[j]
    BY <1>1
<1>4. \A j \in Requests : JobOK(job'[j])
    BY <1>2, <1>3 DEF Jobs, JobOK
<1>5. job' = [j \in Requests |-> job'[j]]
    BY <1>1
<1>6. Jobs'
    BY <1>4, <1>5 DEF Jobs
<1> QED
    BY <1>2, <1>3, <1>6 DEF Under, Unfinished

LEMMA RowKeeps ==
    ASSUME RowOK, NEW j \in Requests,
           \/ CheckPlans(j) \/ CheckSaves(j) \/ ApplyUpdates(j) \/ ApplySaves(j)
           \/ RebootAsks(j) \/ JobFails(j)
    PROVE  RowOK' /\ row'.check = row.check /\ row'.apply = row.apply
<1>1. ASSUME NEW plan, NEW applied,
             row' = [row EXCEPT !.plan = plan] \/ row' = [row EXCEPT !.plan = plan, !.applied = applied]
      PROVE  RowOK' /\ row'.check = row.check /\ row'.apply = row.apply
  <2> DEFINE u == [row EXCEPT !.plan = plan]
             v == [u EXCEPT !.applied = applied]
  <2>1. u = [plan |-> plan, check |-> row.check, apply |-> row.apply, applied |-> row.applied]
      BY DEF RowOK
  <2>2. row' = u \/ row' = v
      BY <1>1, Zenon
  <2> HIDE DEF u
  <2>3. v = [plan |-> plan, check |-> row.check, apply |-> row.apply, applied |-> applied]
      BY <2>1
  <2> HIDE DEF v
  <2> QED
      BY <2>1, <2>2, <2>3 DEF RowOK
<1>2. CASE CheckSaves(j)
    BY <1>1, <1>2, Zenon DEF CheckSaves
<1>3. CASE ApplySaves(j)
    BY <1>1, <1>3, Zenon DEF ApplySaves
<1>4. CASE CheckPlans(j) \/ ApplyUpdates(j) \/ RebootAsks(j) \/ JobFails(j)
    BY <1>4 DEF CheckPlans, ApplyUpdates, RebootAsks, JobFails, RowOK
<1> QED
    BY <1>2, <1>3, <1>4

\* A handler does its own, and leaves jobs and the row's ids alone.
LEMMA UpdatesWork ==
    ASSUME UpdateInv, StartInv, Calm' => Calm, Calm' => Single', job' = job, row' = row,
           NEW r \in Requests, NEW to, WorkStep(r, to), ~Notes(r), to # "note", to # "start"
    PROVE  UpdateInv'
<1>1. \A q \in Requests : (Notes(q)' <=> Notes(q)) /\ (StartsUpdate(q)' => StartsUpdate(q))
    BY DEF WorkStep, Moved, Notes, StartsUpdate
<1>2. Jobs' /\ RowOK' /\ \A j \in Requests : Under(j)' => Under(j)
    BY DEF UpdateInv, Jobs, RowOK, Under, Unfinished
<1> QED
    BY <1>1, <1>2, UpdatesRest

\* Neither requests nor the row's ids change, and no job begins.
LEMMA UpdatesStay ==
    ASSUME UpdateInv, Calm' => Calm, Calm' => Single', Jobs', RowOK',
           row'.check = row.check, row'.apply = row.apply, req' = req,
           \A j \in Requests : Under(j)' => Under(j)
    PROVE  UpdateInv'
BY UpdatesRest DEF Notes, StartsUpdate

LEMMA LookInv ==
    ASSUME UpdateInv, StartInv, Calm' => Calm, Calm' => Single',
           NEW r \in Requests, LookForJobs(r)
    PROVE  UpdateInv'
<1>1. job' = job /\ row' = row /\ req[r].stage = "look"
    BY DEF LookForJobs, At
<1>2. CASE AnswerStep(r)
    BY <1>1, <1>2, UpdatesWork DEF AnswerStep, Notes
<1>3. CASE MayStart(req[r].op) /\ req[r].op \in JobOps /\ WorkStep(r, "start")
  <2>1. Jobs' /\ RowOK' /\ \A j \in Requests : Under(j)' <=> Under(j)
      BY <1>1 DEF UpdateInv, Jobs, RowOK, Under, Unfinished
  <2>2. /\ \A q \in Requests : Notes(q)' <=> Notes(q)
        /\ \A q \in Requests \ {r} : StartsUpdate(q)' => StartsUpdate(q)
        /\ StartsUpdate(r)' => req[r].op \in UpdateOps
      BY <1>1, <1>3 DEF WorkStep, Moved, Notes, StartsUpdate
  <2>3. ASSUME Calm', req[r].op \in UpdateOps, NEW j \in Requests, Under(j) PROVE FALSE
    <3>1. ~Unfinished(row.check) /\ ~Unfinished(row.apply)
        BY <1>3, <2>3 DEF MayStart, Checking, Applying, UpdateOps
    <3>2. ~Notes(j)
        BY <1>1, <1>3, <2>3 DEF UpdateInv, Single, WorkStep, Works, Working, Notes
    <3>3. j = row.check \/ j = row.apply
        BY <2>3, <3>2 DEF UpdateInv
    <3> QED
        BY <2>3, <3>1, <3>3 DEF Under
  <2> QED
      BY <1>1, <2>1, <2>2, <2>3 DEF UpdateInv
<1> QED
    BY <1>2, <1>3, LookForJobsStep

LEMMA StartsInv ==
    ASSUME UpdateInv, StartInv, Calm' => Calm, Calm' => Single',
           NEW r \in Requests, StartJob(r)
    PROVE  UpdateInv'
<1> DEFINE inserted == [kind |-> req[r].op, state |-> "queued", step |-> "begin",
                        plan |-> IF req[r].op = "apply" THEN req[r].plan ELSE NoPlan]
           dropped == [inserted EXCEPT !.step = "none"]
<1>1. row' = row /\ req[r].stage = "start" /\ req[r].op \in JobOps
    BY DEF StartJob, At, StartInv, Reqs, ReqOK
<1>2. \/ job' = [job EXCEPT ![r] = inserted]
      \/ job' = [job EXCEPT ![r] = dropped]
    BY Zenon DEF StartJob
<1>3. JobOK(inserted) /\ inserted.kind = req[r].op
    BY <1>1 DEF JobOK, JobRecord
<1>4. JobOK(dropped) /\ dropped.kind = req[r].op
    BY <1>1 DEF JobOK, JobRecord
<1> HIDE DEF inserted, dropped
<1>5. Jobs' /\ job'[r].kind = req[r].op /\ \A j \in Requests \ {r} : job'[j] = job[j]
    BY <1>2, <1>3, <1>4, PutJob DEF UpdateInv
<1>6. RowOK'
    BY <1>1 DEF UpdateInv, RowOK
<1>7. \A j \in Requests \ {r} : Under(j)' <=> Under(j)
    BY <1>5 DEF Under, Unfinished
<1>8. ASSUME Calm' 
      PROVE  IF req[r].op \in UpdateOps THEN WorkStep(r, "note") ELSE AnswerStep(r)
    BY <1>8, StartJobStep DEF Calm, StartInv
<1>9. ASSUME Calm' PROVE \A q \in Requests \ {r} : ~Notes(q) /\ ~Notes(q)' /\ ~StartsUpdate(q)'
  <2>1. \A q \in Requests \ {r} : ~Works(q)
      BY <1>1, <1>9 DEF UpdateInv, Single, Works, Working
  <2>2. \A q \in Requests \ {r} : req'[q] = req[q]
      BY <1>8, <1>9 DEF AnswerStep, WorkStep, Moved
  <2> QED
      BY <2>1, <2>2 DEF Works, Working, Notes, StartsUpdate
<1>10. ASSUME Calm', req[r].op \in UpdateOps PROVE UpdateInv'
  <2>1. \A j \in Requests : ~Under(j)
      BY <1>1, <1>10 DEF UpdateInv, StartsUpdate
  <2>2. Notes(r)' /\ ~StartsUpdate(r)'
      BY <1>8, <1>10 DEF WorkStep, Moved, Notes, StartsUpdate
  <2> QED
      BY <1>5, <1>6, <1>7, <1>9, <1>10, <2>1, <2>2 DEF UpdateInv
<1>11. ASSUME Calm', req[r].op \notin UpdateOps PROVE UpdateInv'
  <2>1. ~Under(r)' /\ ~Notes(r)
      BY <1>1, <1>5, <1>11 DEF Under, Notes
  <2>2. ~StartsUpdate(r)' /\ ~Notes(r)'
      BY <1>8, <1>11 DEF AnswerStep, WorkStep, Moved, StartsUpdate, Notes
  <2> QED
      BY <1>1, <1>5, <1>6, <1>7, <1>9, <1>11, <2>1, <2>2 DEF UpdateInv
<1>12. CASE ~Calm'
    BY <1>5, <1>6, <1>12 DEF UpdateInv
<1> QED
    BY <1>10, <1>11, <1>12

LEMMA NotesInv ==
    ASSUME UpdateInv, StartInv, Calm' => Calm, Calm' => Single',
           NEW r \in Requests, NoteJob(r)
    PROVE  UpdateInv'
<1>1. job' = job /\ row' = Recorded(r) /\ Notes(r) /\ req[r].op \in UpdateOps
    BY DEF NoteJob, At, Notes, StartInv, Reqs, ReqOK
<1>2. /\ RowOK' /\ r \in {row'.check, row'.apply}
      /\ row'.check \in {row.check, r} /\ row'.apply \in {row.apply, r}
  <2> DEFINE u == [row EXCEPT !.apply = IF req[r].op = "apply" THEN r ELSE @]
             v == [u EXCEPT !.check = IF req[r].op = "check" THEN r ELSE @]
  <2>1. u = [plan |-> row.plan, check |-> row.check,
             apply |-> IF req[r].op = "apply" THEN r ELSE row.apply, applied |-> row.applied]
      BY DEF UpdateInv, RowOK
  <2>2. row' = v
      BY <1>1, Zenon DEF Recorded
  <2> HIDE DEF u
  <2>3. v = [plan |-> row.plan, check |-> IF req[r].op = "check" THEN r ELSE row.check,
             apply |-> IF req[r].op = "apply" THEN r ELSE row.apply, applied |-> row.applied]
      BY <2>1
  <2> HIDE DEF v
  <2> QED
      BY <1>1, <2>2, <2>3 DEF UpdateInv, RowOK, UpdateOps
<1>3. Jobs' /\ \A j \in Requests : Under(j)' <=> Under(j)
    BY <1>1 DEF UpdateInv, Jobs, Under, Unfinished
<1>4. AnswerStep(r)
    BY NoteJobStep
<1>5. ASSUME Calm' PROVE \A q \in Requests : ~Notes(q)' /\ ~StartsUpdate(q)'
  <2>1. \A q \in Requests \ {r} : ~Works(q)
      BY <1>1, <1>5 DEF UpdateInv, Single, Works, Working, Notes
  <2>2. \A q \in Requests \ {r} : req'[q] = req[q]
      BY <1>4 DEF AnswerStep, WorkStep, Moved
  <2>3. ~Notes(r)' /\ ~StartsUpdate(r)'
      BY <1>4 DEF AnswerStep, WorkStep, Moved, StartsUpdate, Notes
  <2> QED
      BY <2>1, <2>2, <2>3 DEF Works, Working, Notes, StartsUpdate
<1>6. ASSUME Calm', NEW j \in Requests, Under(j) PROVE j = r
    BY <1>1, <1>6 DEF UpdateInv
<1> QED
    BY <1>2, <1>3, <1>5, <1>6 DEF UpdateInv

LEMMA UpdateInit == Init => UpdateInv
<1> SUFFICES ASSUME Init PROVE UpdateInv
    OBVIOUS
<1>1. job = [j \in Requests |-> NoJob] /\ row = NoRow
    BY DEF Init
<1>2. Jobs /\ \A j \in Requests : ~Under(j)
    BY <1>1, NoJobIs DEF Jobs, JobOK, Under, JobOps, UpdateOps
<1>3. RowOK
    BY <1>1 DEF RowOK, NoRow
<1>4. \A r \in Requests : req[r].stage = "idle"
    BY DEF Init, NewRequest
<1> QED
    BY <1>2, <1>3, <1>4 DEF UpdateInv, Single, Works, Working, Notes, StartsUpdate

LEMMA UpdateNext == ASSUME StartInv, UpdateInv, [Next]_vars PROVE UpdateInv'
<1>1. (Calm' => Calm) /\ (Calm' => Single')
    BY CalmBefore, SingleNext DEF UpdateInv
<1>2. ASSUME NEW r \in Requests, LookForJobs(r) \/ StartJob(r) \/ NoteJob(r) PROVE UpdateInv'
    BY <1>1, <1>2, LookInv, StartsInv, NotesInv
<1>3. ASSUME NEW r \in Requests,
             Lookup(r) \/ Store(r) \/ CreateUser(r) \/ LookForBe(r) \/ ActOnBe(r)
      PROVE  UpdateInv'
  <2>1. job' = job /\ row' = row
      BY <1>3 DEF Lookup, Store, CreateUser, LookForBe, ActOnBe
  <2>2. ~Notes(r) /\ \E to \in Working \cup {"over"} : WorkStep(r, to) /\ to # "note" /\ to # "start"
      BY <1>3, LookupStep, StoreStep, CreateUserStep, LookForBeStep, ActOnBeStep
         DEF AnswerStep, At, Notes, Working
  <2> QED
      BY <1>1, <2>1, <2>2, UpdatesWork
<1>4. ASSUME NEW r \in Requests, Drop(r) PROVE UpdateInv'
  <2>1. ~Calm' /\ job' = job /\ row' = row
      BY <1>4, DropStep DEF Calm, StartInv, Drop
  <2> QED
      BY <2>1 DEF UpdateInv, Jobs, RowOK
<1>5. ASSUME NEW r \in Requests, Ask(r) \/ Attach(r) \/ Detach(r) \/ UpgradeFails(r)
      PROVE  UpdateInv'
  <2>1. job' = job /\ row' = row
      BY <1>5 DEF Ask, Attach, Detach, UpgradeFails
  <2>2. /\ \A q \in Requests \ {r} : req'[q] = req[q]
        /\ ~Notes(r) /\ req'[r].stage \in {"lookup", "act", "look", "attached", "over"}
    <3>1. CASE Ask(r)
        BY <3>1, AskPuts DEF StartInv, Asked, At, Notes
    <3>2. CASE Attach(r) \/ Detach(r) \/ UpgradeFails(r)
      <4>1. Moved(r, "attached") \/ Moved(r, "over")
          BY <3>2, GotoMoves, OverMoves DEF Attach, Detach, UpgradeFails, StartInv
      <4> QED
          BY <3>2, <4>1 DEF Moved, Notes, Attach, Detach, UpgradeFails, Doing, At
    <3> QED
        BY <1>5, <3>1, <3>2
  <2>3. \A q \in Requests : (Notes(q)' <=> Notes(q)) /\ (StartsUpdate(q)' => StartsUpdate(q))
      BY <2>2 DEF Notes, StartsUpdate
  <2>4. Jobs' /\ RowOK' /\ \A j \in Requests : Under(j)' => Under(j)
      BY <2>1 DEF UpdateInv, Jobs, RowOK, Under, Unfinished
  <2> QED
      BY <1>1, <2>1, <2>3, <2>4, UpdatesRest
<1>6. CASE Crash \/ HostReboots
  <2>1. Dies /\ row' = row
      BY <1>6 DEF Crash, HostReboots, Dies
  <2>2. Jobs' /\ RowOK' /\ \A j \in Requests : Under(j)' => Under(j)
      BY <2>1, DiesStops DEF UpdateInv, RowOK
  <2>3. \A r \in Requests : ~Notes(r)' /\ ~StartsUpdate(r)'
      BY <2>1, DiesEnds DEF StartInv, Ended, Notes, StartsUpdate
  <2>4. Calm' => \A r \in Requests : ~Notes(r)
      BY <1>6 DEF Crash, HostReboots, Calm, Busy, Working, Notes, StartInv
  <2> QED
      BY <1>1, <2>1, <2>2, <2>3, <2>4, UpdatesRest
<1>7. ASSUME NEW r \in Requests,
             \/ CheckPlans(r) \/ CheckSaves(r) \/ ApplyUpdates(r) \/ ApplySaves(r)
             \/ RebootAsks(r) \/ JobFails(r)
      PROVE  UpdateInv'
  <2>1. req' = req
      BY <1>7 DEF CheckPlans, CheckSaves, ApplyUpdates, ApplySaves, RebootAsks, JobFails
  <2> QED
      BY <1>1, <1>7, <2>1, JobsGoOn, RowKeeps, UpdatesStay DEF UpdateInv
<1>8. CASE Recover
  <2>1. req' = req /\ row' = row /\ RowOK'
      BY <1>8 DEF Recover, UpdateInv, RowOK
  <2> QED
      BY <1>1, <1>8, <2>1, RecoverEnds, UpdatesStay DEF UpdateInv
<1>9. CASE UNCHANGED <<req, row, job>>
  <2>1. Jobs' /\ RowOK' /\ \A j \in Requests : Under(j)' => Under(j)
      BY <1>9 DEF UpdateInv, Jobs, RowOK, Under, Unfinished
  <2> QED
      BY <1>1, <1>9, <2>1, UpdatesStay
<1>10. ASSUME Migrate \/ FirstBoot \/ InsertAdmin \/ DestroyFile \/ LoadOrGenerate \/ WritePair
              \/ FirstBootFails \/ Publish \/ Sweep \/ Tick \/ UNCHANGED vars
       PROVE  UNCHANGED <<req, row, job>>
    BY <1>10 DEF Migrate, FirstBoot, InsertAdmin, DestroyFile, LoadOrGenerate, WritePair,
       FirstBootFails, Publish, Sweep, Tick, vars
<1> QED
    BY <1>2, <1>3, <1>4, <1>5, <1>6, <1>7, <1>8, <1>9, <1>10 DEF Next, Starting

-----------------------------------------------------------------------------
(* Boot environments.                                                      *)

Be(v) ==
    /\ v = [active |-> v.active, booted |-> v.booted, image |-> v.image, by |-> v.by]
    /\ v.active \in BOOLEAN /\ v.booted \in BOOLEAN

BesAre(table) == \A b \in DOMAIN table : Be(table[b])
ActiveIs(table, be) == be \in DOMAIN table /\ \A b \in DOMAIN table : table[b].active = TRUE <=> b = be
BootedIs(table, be) == be \in DOMAIN table /\ \A b \in DOMAIN table : table[b].booted = TRUE <=> b = be

\* The next boot has one to boot, and what runs is in one; beadm takes neither away.
BesInv ==
    /\ BesAre(bes)
    /\ \E a \in DOMAIN bes : ActiveIs(bes, a)
    /\ \E a \in DOMAIN bes : BootedIs(bes, a)

LEMMA ActiveOnlyIs ==
    ASSUME NEW table, BesAre(table), NEW be \in DOMAIN table
    PROVE  /\ DOMAIN ActiveOnly(table, be) = DOMAIN table
           /\ BesAre(ActiveOnly(table, be)) /\ ActiveIs(ActiveOnly(table, be), be)
           /\ \A b \in DOMAIN table : ActiveOnly(table, be)[b].booted = table[b].booted
<1> DEFINE v(b) == [table[b] EXCEPT !.active = b = be]
           new == [b \in DOMAIN table |-> v(b)]
<1>1. ActiveOnly(table, be) = new
    BY Zenon DEF ActiveOnly
<1>2. ASSUME NEW b \in DOMAIN table
      PROVE  Be(v(b)) /\ (v(b).active = TRUE <=> b = be) /\ v(b).booted = table[b].booted
  <2>1. Be(table[b]) /\ (b = be) \in BOOLEAN
      BY DEF BesAre
  <2>2. PICK is \in BOOLEAN : is = (b = be)
      BY <2>1
  <2>3. v(b) = [table[b] EXCEPT !.active = is]
      BY <2>2, Zenon
  <2> HIDE DEF v
  <2>4. v(b) = [active |-> is, booted |-> table[b].booted, image |-> table[b].image,
                by |-> table[b].by]
      BY <2>1, <2>3 DEF Be
  <2>5. v(b).active = is /\ v(b).booted = table[b].booted
      BY <2>4
  <2>6. Be(v(b))
      BY <2>1, <2>2, <2>4 DEF Be
  <2>7. v(b).active = TRUE <=> b = be
      BY <2>2, <2>5, Zenon
  <2> QED
      BY <2>5, <2>6, <2>7
<1> HIDE DEF v
<1> QED
    BY <1>1, <1>2 DEF BesAre, ActiveIs

LEMMA BesInit == Init => BesInv
<1> SUFFICES ASSUME Init PROVE BesInv
    OBVIOUS
<1> DEFINE v == [active |-> TRUE, booted |-> TRUE, image |-> Current, by |-> "install"]
           first == <<Current, 1>>
<1>1. bes = [b \in {first} |-> v]
    BY DEF Init
<1>2. Be(v) /\ v.active = TRUE /\ v.booted = TRUE
    BY DEF Be
<1> HIDE DEF v, first
<1>3. DOMAIN bes = {first} /\ bes[first] = v
    BY <1>1
<1> QED
    BY <1>2, <1>3 DEF BesInv, BesAre, ActiveIs, BootedIs

LEMMA AppliesBes == ASSUME BesInv, NEW j \in Requests, ApplyUpdates(j) PROVE BesInv'
<1> DEFINE be == job[j].plan.be
           v == [active |-> TRUE, booted |-> FALSE, image |-> offered, by |-> "apply"]
           table == With(bes, be, v)
<1>1. be \notin DOMAIN bes /\ bes' = ActiveOnly(table, be)
    BY DEF ApplyUpdates
<1>2. Be(v) /\ v.booted = FALSE
    BY DEF Be
<1> HIDE DEF v, be
<1>3. /\ DOMAIN table = DOMAIN bes \cup {be} /\ table[be] = v
      /\ \A b \in DOMAIN bes \ {be} : table[b] = bes[b]
    BY DEF With
<1> HIDE DEF table
<1>4. BesAre(table) /\ be \in DOMAIN table
    BY <1>2, <1>3 DEF BesInv, BesAre
<1>5. /\ DOMAIN bes' = DOMAIN table /\ BesAre(bes') /\ ActiveIs(bes', be)
      /\ \A b \in DOMAIN table : bes'[b].booted = table[b].booted
    BY <1>1, <1>4, ActiveOnlyIs
<1>6. \E a \in DOMAIN bes' : BootedIs(bes', a)
    BY <1>1, <1>2, <1>3, <1>5 DEF BesInv, BootedIs
<1> QED
    BY <1>4, <1>5, <1>6 DEF BesInv

LEMMA ActBes == ASSUME BesInv, NEW r \in Requests, ActOnBe(r) PROVE BesInv'
<1> DEFINE be == req[r].be
<1>1. CASE req[r].op = "create_be"
  <2> DEFINE v == [active |-> FALSE, booted |-> FALSE, image |-> bes[Active].image, by |-> "user"]
  <2>1. be \notin DOMAIN bes /\ bes' = With(bes, be, v)
      BY <1>1 DEF ActOnBe
  <2>2. Be(v) /\ v.active = FALSE /\ v.booted = FALSE
      BY DEF Be
  <2> HIDE DEF v
  <2>3. /\ DOMAIN bes' = DOMAIN bes \cup {be} /\ bes'[be] = v
        /\ \A b \in DOMAIN bes \ {be} : bes'[b] = bes[b]
      BY <2>1 DEF With
  <2> QED
      BY <2>1, <2>2, <2>3 DEF BesInv, BesAre, ActiveIs, BootedIs
<1>2. CASE req[r].op = "delete_be"
  <2>1. /\ be \in DOMAIN bes /\ ~bes[be].booted /\ ~bes[be].active
        /\ bes' = [b \in DOMAIN bes \ {be} |-> bes[b]]
      BY <1>2 DEF ActOnBe
  <2>2. bes[be].booted # TRUE /\ bes[be].active # TRUE
      BY <2>1
  <2>3. DOMAIN bes' = DOMAIN bes \ {be} /\ \A b \in DOMAIN bes' : bes'[b] = bes[b]
      BY <2>1
  <2>4. BesAre(bes')
      BY <2>3 DEF BesInv, BesAre
  <2>5. \E a \in DOMAIN bes' : ActiveIs(bes', a)
    <3>1. PICK a \in DOMAIN bes : ActiveIs(bes, a)
        BY DEF BesInv
    <3>2. a # be
        BY <2>1, <2>2, <3>1 DEF ActiveIs
    <3> QED
        BY <2>3, <3>1, <3>2 DEF ActiveIs
  <2>6. \E a \in DOMAIN bes' : BootedIs(bes', a)
    <3>1. PICK a \in DOMAIN bes : BootedIs(bes, a)
        BY DEF BesInv
    <3>2. a # be
        BY <2>1, <2>2, <3>1 DEF BootedIs
    <3> QED
        BY <2>3, <3>1, <3>2 DEF BootedIs
  <2> QED
      BY <2>4, <2>5, <2>6 DEF BesInv
<1>3. CASE req[r].op = "activate_be"
  <2>1. be \in DOMAIN bes /\ bes' = ActiveOnly(bes, be)
      BY <1>3 DEF ActOnBe
  <2>2. /\ DOMAIN bes' = DOMAIN bes /\ BesAre(bes') /\ ActiveIs(bes', be)
        /\ \A b \in DOMAIN bes : bes'[b].booted = bes[b].booted
      BY <2>1, ActiveOnlyIs DEF BesInv
  <2> QED
      BY <2>1, <2>2 DEF BesInv, BootedIs
<1> QED
    BY <1>1, <1>2, <1>3 DEF ActOnBe, BeOps

LEMMA RebootsBes == ASSUME BesInv, HostReboots PROVE BesInv'
<1> DEFINE v(b) == [bes[b] EXCEPT !.booted = bes[b].active]
<1>1. bes' = [b \in DOMAIN bes |-> v(b)]
    BY Zenon DEF HostReboots
<1>2. ASSUME NEW b \in DOMAIN bes
      PROVE  Be(v(b)) /\ v(b).active = bes[b].active /\ v(b).booted = bes[b].active
    BY DEF BesInv, BesAre, Be
<1> HIDE DEF v
<1> QED
    BY <1>1, <1>2 DEF BesInv, BesAre, ActiveIs, BootedIs

LEMMA BesNext == BesInv /\ [Next]_vars => BesInv'
<1> SUFFICES ASSUME BesInv, [Next]_vars PROVE BesInv'
    OBVIOUS
<1>1. ASSUME NEW r \in Requests, ApplyUpdates(r) \/ ActOnBe(r) PROVE BesInv'
    BY <1>1, AppliesBes, ActBes
<1>2. ASSUME NEW r \in Requests,
             \/ Ask(r) \/ Lookup(r) \/ Store(r) \/ CreateUser(r)
             \/ LookForJobs(r) \/ StartJob(r) \/ NoteJob(r)
             \/ CheckPlans(r) \/ CheckSaves(r) \/ ApplySaves(r)
             \/ RebootAsks(r) \/ JobFails(r) \/ LookForBe(r)
             \/ Attach(r) \/ Detach(r) \/ UpgradeFails(r) \/ Drop(r)
      PROVE  bes' = bes
  <2>1. UNCHANGED HostState
      BY <1>2, Zenon DEF Ask, Lookup, Store, CreateUser, LookForJobs, StartJob, NoteJob,
         CheckPlans, CheckSaves, ApplySaves, RebootAsks, JobFails, LookForBe, Attach, Detach,
         UpgradeFails, Drop
  <2> QED
      BY <2>1 DEF HostState
<1>3. ASSUME Starting \/ FirstBootFails \/ Publish \/ Sweep \/ Tick \/ Crash \/ UNCHANGED vars
      PROVE  bes' = bes
  <2>1. CASE Starting \/ FirstBootFails
    <3>1. UNCHANGED HostState
        BY <2>1, Zenon DEF Starting, Migrate, Recover, FirstBoot, InsertAdmin, DestroyFile,
           LoadOrGenerate, WritePair, FirstBootFails
    <3> QED
        BY <3>1 DEF HostState
  <2>2. CASE Publish \/ Sweep \/ Tick \/ Crash \/ UNCHANGED vars
      BY <2>2 DEF Publish, Sweep, Tick, Crash, HostState, vars
  <2> QED
      BY <1>3, <2>1, <2>2
<1>4. CASE bes' = bes
    BY <1>4 DEF BesInv, BesAre, ActiveIs, BootedIs
<1> QED
    BY <1>1, <1>2, <1>3, <1>4, RebootsBes DEF Next

\* Each variable has its type; one boot environment boots next and one is booted.  And no two
\* checks or applies are under way, unless requests met, one was dropped or the daemon died.
\* (updates::start_check, start_apply; beadm)
THEOREM OneUpdate == Spec => []OneUpdateAtATime
<1>1. ASSUME StartInv, UpdateInv, BesInv PROVE OneUpdateAtATime
  <2>1. Cardinality({b \in DOMAIN bes : bes[b].active}) = 1
    <3>1. PICK a \in DOMAIN bes : ActiveIs(bes, a)
        BY <1>1 DEF BesInv
    <3>2. {b \in DOMAIN bes : bes[b].active} = {a}
        BY <1>1, <3>1 DEF ActiveIs, BesInv, BesAre, Be
    <3> QED
        BY <3>2, FS_Singleton
  <2>2. Cardinality({b \in DOMAIN bes : bes[b].booted}) = 1
    <3>1. PICK a \in DOMAIN bes : BootedIs(bes, a)
        BY <1>1 DEF BesInv
    <3>2. {b \in DOMAIN bes : bes[b].booted} = {a}
        BY <1>1, <3>1 DEF BootedIs, BesInv, BesAre, Be
    <3> QED
        BY <3>2, FS_Singleton
  <2>3. TypeOK
      BY <1>1, <2>1, <2>2
         DEF TypeOK, StartInv, Reqs, ReqOK, Stages, UpdateInv, RowOK, Jobs, JobOK
  <2>4. ASSUME Calm PROVE Cardinality(UpdatesUnderway) <= 1
    <3>1. \A j \in Requests : j \in UpdatesUnderway <=> Under(j)
        BY DEF UpdatesUnderway, Under
    <3>2. CASE UpdatesUnderway = {}
        BY <3>2, FS_EmptySet
    <3>3. ASSUME NEW j \in UpdatesUnderway PROVE Cardinality(UpdatesUnderway) = 1
      <4>1. UpdatesUnderway = {j}
          BY <1>1, <2>4, <3>1, <3>3 DEF UpdateInv, UpdatesUnderway
      <4> QED
          BY <4>1, FS_Singleton
    <3> QED
        BY <3>2, <3>3
  <2> QED
      BY <2>3, <2>4 DEF OneUpdateAtATime
<1>2. StartInv /\ UpdateInv /\ BesInv /\ [Next]_vars => StartInv' /\ UpdateInv' /\ BesInv'
    BY StartNext, UpdateNext, BesNext
<1> QED
    BY <1>1, <1>2, StartInit, UpdateInit, BesInit, PTL DEF Spec
-----------------------------------------------------------------------------
(* Induction, and what is built step by step.                              *)

\* A set with 0, and with the next of each that it has, has them all.
LEMMA SetInduction ==
    ASSUME NEW S, 0 \in S, \A n \in Nat : n \in S => n + 1 \in S
    PROVE  Nat \subseteq S
<1> DEFINE T == Nat \ S
           R == {ss \in Nat \X Nat : ss[1] < ss[2]}
<1> SUFFICES ASSUME T # {} PROVE FALSE
    OBVIOUS
<1>1. IsWellFoundedOn(R, Nat)
    BY NatLessThanWellFounded DEF OpToRel
<1>2. PICK x \in T : \A y \in T : <<y, x>> \notin R
    BY <1>1, WFMin, T \subseteq Nat
<1>3. x # 0 /\ x \in Nat
    OBVIOUS
<1>4. x - 1 \in Nat /\ x - 1 + 1 = x /\ x - 1 < x
    BY <1>3
<1>5. <<x - 1, x>> \in R
    BY <1>3, <1>4
<1>6. x - 1 \in S
    BY <1>2, <1>4, <1>5
<1> QED
    BY <1>3, <1>4, <1>6

\* Step by step, from a base.
Built(g, base, N, step) ==
    g[0] = base /\ \A n \in 1 .. N : g[n] = step[<<g[n - 1], n>>]

LEMMA StepByStep ==
    ASSUME NEW V, NEW base \in V, NEW N \in Nat, NEW step \in [V \X (1 .. N) -> V]
    PROVE  \E g \in [0 .. N -> V] : Built(g, base, N, step)
<1> DEFINE Builds(g, m) == /\ g \in [0 .. m -> V] /\ g[0] = base
                           /\ \A n \in 1 .. m : g[n] = step[<<g[n - 1], n>>]
           S == {m \in Nat : m <= N => \E g \in [0 .. m -> V] : Builds(g, m)}
<1>1. 0 \in S
  <2>1. Builds([n \in 0 .. 0 |-> base], 0)
      OBVIOUS
  <2> QED
      BY <2>1
<1>2. ASSUME NEW m \in Nat, m \in S, m + 1 <= N PROVE \E g \in [0 .. m + 1 -> V] : Builds(g, m + 1)
  <2>1. PICK g \in [0 .. m -> V] : Builds(g, m)
      BY <1>2
  <2> DEFINE v == step[<<g[m], m + 1>>]
             h == [n \in 0 .. m + 1 |-> IF n = m + 1 THEN v ELSE g[n]]
  <2>2. v \in V
      BY <1>2, <2>1
  <2> HIDE DEF v
  <2>3. h \in [0 .. m + 1 -> V] /\ h[0] = base /\ h[m + 1] = v /\ \A n \in 0 .. m : h[n] = g[n]
      BY <2>1, <2>2
  <2> HIDE DEF h
  <2>4. ASSUME NEW n \in 1 .. m + 1 PROVE h[n] = step[<<h[n - 1], n>>]
    <3>1. n - 1 \in 0 .. m /\ (n # m + 1 => n \in 1 .. m)
        OBVIOUS
    <3>2. CASE n = m + 1
        BY <2>3, <3>1, <3>2, n - 1 = m DEF v
    <3>3. CASE n # m + 1
        BY <2>1, <2>3, <3>1, <3>3
    <3> QED
        BY <3>2, <3>3
  <2> QED
      BY <2>3, <2>4
<1>3. \A m \in Nat : m \in S => m + 1 \in S
    BY <1>2
<1>4. Nat \subseteq S
  <2> HIDE DEF S
  <2> QED
      BY <1>1, <1>3, SetInduction
<1> QED
    BY <1>4 DEF Built

-----------------------------------------------------------------------------
Words == Packages \cup Headers \cup Headings
         \cup {NoName, "->", "Changed packages:", "nightshade.systems", "omnios",
               "restart_fmri:", "manifest-import"}
Lines == [indent : Nat, word : Words, old : Nat, new : Nat]
Reported == [name : Words, action : {"install", "remove", "update"}, version : Nat]
Reader == [inChanged : BOOLEAN, sawHeader : BOOLEAN, current : Words,
           packages : Seq(Reported), failed : BOOLEAN]

LEMMA ReadLineType ==
    ASSUME NEW at \in Reader, NEW line \in Lines PROVE ReadLine(at, line) \in Reader
<1>1. CASE ~at.inChanged
  <2>1. PICK header \in BOOLEAN : header = (at.sawHeader \/ line.word \in Headers)
      OBVIOUS
  <2>2. PICK changed \in BOOLEAN : changed = (line.word = "Changed packages:")
      OBVIOUS
  <2>3. ReadLine(at, line) = [at EXCEPT !.sawHeader = header, !.inChanged = changed]
      BY <1>1, <2>1, <2>2 DEF ReadLine
  <2> QED
      BY <2>3 DEF Reader
<1>2. CASE at.inChanged /\ line.indent = 0
    BY <1>2 DEF ReadLine, Section, Reader
<1>3. CASE at.inChanged /\ line.indent # 0 /\ line.word = "->" /\ at.current # NoName
  <2> DEFINE new == Append(at.packages, [name |-> at.current, action |-> Action(line),
                                         version |-> line.new])
  <2>1. Action(line) \in {"install", "remove", "update"}
    <3>1. CASE line.old = 0 /\ line.new # 0
        BY <3>1 DEF Action
    <3>2. CASE line.old # 0 /\ line.new = 0
        BY <3>2 DEF Action
    <3>3. CASE ~(line.old = 0 /\ line.new # 0) /\ ~(line.old # 0 /\ line.new = 0)
        BY <3>3 DEF Action
    <3> QED
        BY <3>1, <3>2, <3>3
  <2>2. new \in Seq(Reported)
      BY <2>1 DEF Reader, Reported, Lines
  <2>3. ReadLine(at, line) = [at EXCEPT !.current = NoName, !.packages = new]
      BY <1>3 DEF ReadLine
  <2> HIDE DEF new
  <2> DEFINE named == [at EXCEPT !.current = NoName]
  <2>4. named \in Reader
      BY DEF Reader, Words
  <2>5. ReadLine(at, line) = [named EXCEPT !.packages = new]
      BY <2>3
  <2> HIDE DEF named
  <2> QED
      BY <2>2, <2>4, <2>5 DEF Reader
<1>4. CASE /\ at.inChanged /\ line.indent # 0 /\ ~(line.word = "->" /\ at.current # NoName)
           /\ line.word # "->" /\ line.indent = 2
    BY <1>4 DEF ReadLine, Reader, Lines
<1>5. CASE /\ at.inChanged /\ line.indent # 0 /\ ~(line.word = "->" /\ at.current # NoName)
           /\ ~(line.word # "->" /\ line.indent = 2)
    BY <1>5 DEF ReadLine, Reader
<1> QED
    BY <1>1, <1>2, <1>3, <1>4, <1>5

\* What is read line by line.
Reads(c, at, lines) ==
    /\ c \in [0 .. Len(lines) -> Reader] /\ c[0] = at
    /\ \A n \in 1 .. Len(lines) : c[n] = ReadLine(c[n - 1], lines[n])

LEMMA ReadSteps ==
    ASSUME NEW at \in Reader, NEW lines \in Seq(Lines)
    PROVE  \E c : Reads(c, at, lines) /\ Read(at, lines) = c[Len(lines)]
<1> DEFINE N == Len(lines)
           Made(c) == [n \in 0 .. N |-> IF n = 0 THEN at ELSE ReadLine(c[n - 1], lines[n])]
           read == CHOOSE c : c = Made(c)
<1>1. N \in Nat /\ \A n \in 1 .. N : lines[n] \in Lines
    OBVIOUS
<1>2. Read(at, lines) = read[N]
    BY DEF Read
<1>3. \E c : c = Made(c)
  <2> DEFINE step == [x \in Reader \X (1 .. N) |-> ReadLine(x[1], lines[x[2]])]
  <2>1. step \in [Reader \X (1 .. N) -> Reader]
      BY <1>1, ReadLineType
  <2>2. PICK g \in [0 .. N -> Reader] : g[0] = at /\ \A n \in 1 .. N : g[n] = step[<<g[n - 1], n>>]
    <3>1. N \in Nat
        BY <1>1
    <3> HIDE DEF step, N
    <3>2. \E g \in [0 .. N -> Reader] : Built(g, at, N, step)
        BY <2>1, <3>1, StepByStep, Zenon
    <3> QED
        BY <3>2 DEF Built
  <2>3. \A n \in 1 .. N : g[n] = ReadLine(g[n - 1], lines[n])
      BY <1>1, <2>2
  <2>4. g = Made(g)
      BY <1>1, <2>2, <2>3
  <2> QED
      BY <2>4
<1>4. read = Made(read)
    BY <1>3
<1> HIDE DEF read
<1>5. read[0] = at /\ \A n \in 1 .. N : read[n] = ReadLine(read[n - 1], lines[n])
    BY <1>1, <1>4
<1>6. \A n \in 0 .. N : read[n] \in Reader
  <2> DEFINE S == {n \in Nat : n <= N => read[n] \in Reader}
  <2>1. 0 \in S
      BY <1>5
  <2>2. ASSUME NEW n \in Nat, n \in S PROVE n + 1 \in S
      BY <1>1, <1>5, <2>2, ReadLineType, n + 1 - 1 = n
  <2>3. Nat \subseteq S
    <3> HIDE DEF S
    <3> QED
        BY <2>1, <2>2, SetInduction
  <2> QED
      BY <1>1, <2>3
<1>7. Reads(read, at, lines)
    BY <1>1, <1>4, <1>5, <1>6 DEF Reads
<1> QED
    BY <1>2, <1>7

LEMMA ReadNothing == ASSUME NEW at \in Reader PROVE Read(at, << >>) = at
<1>1. << >> \in Seq(Lines) /\ Len(<< >>) = 0
    OBVIOUS
<1>2. PICK read : Reads(read, at, << >>) /\ Read(at, << >>) = read[Len(<< >>)]
    BY <1>1, ReadSteps
<1> QED
    BY <1>1, <1>2 DEF Reads

LEMMA ReadOne ==
    ASSUME NEW at \in Reader, NEW line \in Lines PROVE Read(at, <<line>>) = ReadLine(at, line)
<1>1. <<line>> \in Seq(Lines) /\ Len(<<line>>) = 1 /\ <<line>>[1] = line
    OBVIOUS
<1>2. PICK c : Reads(c, at, <<line>>) /\ Read(at, <<line>>) = c[1]
    BY <1>1, ReadSteps
<1> QED
    BY <1>1, <1>2 DEF Reads

LEMMA ReadType ==
    ASSUME NEW at \in Reader, NEW lines \in Seq(Lines) PROVE Read(at, lines) \in Reader
<1>1. PICK c : Reads(c, at, lines) /\ Read(at, lines) = c[Len(lines)]
    BY ReadSteps
<1>2. Len(lines) \in 0 .. Len(lines)
    OBVIOUS
<1> QED
    BY <1>1, <1>2 DEF Reads

\* Reading goes on where it was.
LEMMA ReadConcat ==
    ASSUME NEW at \in Reader, NEW a \in Seq(Lines), NEW b \in Seq(Lines)
    PROVE  Read(at, a \o b) = Read(Read(at, a), b)
<1> DEFINE mid == Read(at, a)
           K == Len(a)
           M == Len(b)
<1>1. /\ K \in Nat /\ M \in Nat /\ a \o b \in Seq(Lines) /\ Len(a \o b) = K + M
      /\ \A n \in 1 .. K : (a \o b)[n] = a[n]
      /\ \A n \in 1 .. M : (a \o b)[K + n] = b[n]
    OBVIOUS
<1>2. PICK p : Reads(p, at, a) /\ mid = p[K]
    BY ReadSteps
<1>3. mid \in Reader
    BY ReadType
<1> HIDE DEF mid
<1>4. PICK q : Reads(q, mid, b) /\ Read(mid, b) = q[M]
    BY <1>3, ReadSteps
<1>5. PICK c : Reads(c, at, a \o b) /\ Read(at, a \o b) = c[K + M]
    BY <1>1, ReadSteps
<1> DEFINE S == {n \in Nat : n <= K => c[n] = p[n]}
           T == {n \in Nat : n <= M => c[K + n] = q[n]}
<1>6. K \in S
  <2>1. 0 \in S
      BY <1>2, <1>5 DEF Reads
  <2>2. ASSUME NEW n \in Nat, n \in S PROVE n + 1 \in S
    <3>1. SUFFICES ASSUME n + 1 <= K PROVE c[n + 1] = p[n + 1]
        OBVIOUS
    <3>2. n + 1 \in 1 .. K /\ n + 1 \in 1 .. K + M /\ n + 1 - 1 = n
        BY <1>1, <3>1
    <3> QED
        BY <1>1, <1>2, <1>5, <2>2, <3>1, <3>2 DEF Reads
  <2>3. Nat \subseteq S
    <3> HIDE DEF S
    <3> QED
        BY <2>1, <2>2, SetInduction
  <2> QED
      BY <1>1, <2>3
<1>7. M \in T
  <2>1. 0 \in T
      BY <1>1, <1>2, <1>4, <1>6 DEF Reads
  <2>2. ASSUME NEW n \in Nat, n \in T PROVE n + 1 \in T
    <3>1. SUFFICES ASSUME n + 1 <= M PROVE c[K + (n + 1)] = q[n + 1]
        OBVIOUS
    <3>2. n + 1 \in 1 .. M /\ K + (n + 1) \in 1 .. K + M /\ n + 1 - 1 = n /\ K + (n + 1) - 1 = K + n
        BY <1>1, <3>1
    <3>3. c[K + n] = q[n]
        BY <1>1, <2>2, <3>1
    <3> QED
        BY <1>1, <1>4, <1>5, <3>2, <3>3 DEF Reads
  <2>3. Nat \subseteq T
    <3> HIDE DEF T
    <3> QED
        BY <2>1, <2>2, SetInduction
  <2> QED
      BY <1>1, <2>3
<1> QED
    BY <1>1, <1>4, <1>5, <1>7 DEF mid

\* Lines of lines, put together.
LEMMA Flattens ==
    ASSUME NEW S, NEW seqs \in Seq(Seq(S))
    PROVE  \E g \in [0 .. Len(seqs) -> Seq(S)] :
               /\ g[0] = << >> /\ \A n \in 1 .. Len(seqs) : g[n] = g[n - 1] \o seqs[n]
               /\ FlattenSeq(seqs) = g[Len(seqs)]
<1> DEFINE N == Len(seqs)
           Made(c) == [i \in 1 .. N |-> IF i = 1 THEN seqs[i] ELSE c[i - 1] \o seqs[i]]
           flatten == CHOOSE c : c = Made(c)
<1>1. N \in Nat /\ \A n \in 1 .. N : seqs[n] \in Seq(S)
    OBVIOUS
<1>2. FlattenSeq(seqs) = (IF N = 0 THEN seqs ELSE flatten[N]) /\ (N = 0 => seqs = << >>)
    BY DEF FlattenSeq
<1> DEFINE step == [x \in Seq(S) \X (1 .. N) |-> x[1] \o seqs[x[2]]]
<1>3. step \in [Seq(S) \X (1 .. N) -> Seq(S)]
    BY <1>1
<1>4. << >> \in Seq(S)
    OBVIOUS
<1>5. PICK g \in [0 .. N -> Seq(S)] : Built(g, << >>, N, step)
  <2> HIDE DEF step, N
  <2> QED
      BY <1>1, <1>3, <1>4, StepByStep, Zenon
<1>6. g[0] = << >> /\ \A n \in 1 .. N : g[n] = g[n - 1] \o seqs[n]
  <2>1. ASSUME NEW n \in 1 .. N PROVE g[n] = g[n - 1] \o seqs[n]
    <3>1. n - 1 \in 0 .. N
        BY <1>1
    <3>2. <<g[n - 1], n>> \in Seq(S) \X (1 .. N)
        BY <3>1
    <3>3. step[<<g[n - 1], n>>] = g[n - 1] \o seqs[n]
        BY <3>2
    <3> HIDE DEF step
    <3> QED
        BY <1>5, <3>3 DEF Built
  <2> QED
      BY <1>5, <2>1 DEF Built
<1> HIDE DEF step
<1>12. N >= 1 => 1 \in 1 .. N /\ g[1] = seqs[1]
  <2>1. SUFFICES ASSUME N >= 1 PROVE g[1] = seqs[1]
      BY <1>1
  <2>2. 1 \in 1 .. N /\ 1 - 1 = 0
      BY <1>1, <2>1
  <2>4. g[1] = g[0] \o seqs[1]
      BY <1>6, <2>2
  <2>3. << >> \o seqs[1] = seqs[1]
      BY <1>1, <2>2
  <2> QED
      BY <1>6, <2>3, <2>4
<1>7. \E c : c = Made(c)
  <2> DEFINE h == [i \in 1 .. N |-> g[i]]
  <2>1. \A i \in 1 .. N : h[i] = IF i = 1 THEN seqs[i] ELSE h[i - 1] \o seqs[i]
    <3>1. TAKE i \in 1 .. N
    <3>2. CASE i = 1
        BY <1>1, <1>12, <3>2
    <3>3. CASE i # 1
      <4>1. i - 1 \in 1 .. N
          BY <1>1, <3>3
      <4> QED
          BY <1>6, <3>3, <4>1
    <3> QED
        BY <3>2, <3>3
  <2> HIDE DEF h
  <2>2. h = [i \in 1 .. N |-> h[i]]
      BY DEF h
  <2>3. h = Made(h)
      BY <2>1, <2>2
  <2> QED
      BY <2>3
<1>8. flatten = Made(flatten)
    BY <1>7
<1> HIDE DEF flatten
<1>9. \A n \in 1 .. N : flatten[n] = IF n = 1 THEN seqs[n] ELSE flatten[n - 1] \o seqs[n]
    BY <1>8
<1>10. \A n \in 1 .. N : flatten[n] = g[n]
  <2> DEFINE T == {n \in Nat : n \in 1 .. N => flatten[n] = g[n]}
  <2>1. 0 \in T
      OBVIOUS
  <2>2. ASSUME NEW n \in Nat, n \in T PROVE n + 1 \in T
    <3>1. SUFFICES ASSUME n + 1 \in 1 .. N PROVE flatten[n + 1] = g[n + 1]
        OBVIOUS
    <3>2. CASE n = 0
        BY <1>1, <1>9, <1>12, <3>1, <3>2
    <3>3. CASE n # 0
      <4>1. PICK k \in 1 .. N : k = n + 1
          BY <3>1
      <4>2. n \in 1 .. N /\ k - 1 = n /\ k # 1
          BY <1>1, <3>1, <3>3, <4>1
      <4>3. flatten[n] = g[n]
          BY <2>2, <4>2
      <4>4. g[k] = g[k - 1] \o seqs[k] /\ flatten[k] = flatten[k - 1] \o seqs[k]
          BY <1>6, <1>9, <4>2
      <4>5. g[k] = flatten[k]
          BY <4>2, <4>3, <4>4
      <4> QED
          BY <4>1, <4>5
    <3> QED
        BY <3>2, <3>3
  <2>3. Nat \subseteq T
    <3> HIDE DEF T
    <3> QED
        BY <2>1, <2>2, SetInduction
  <2> QED
      BY <1>1, <2>3
<1>11. FlattenSeq(seqs) = g[N]
  <2>1. CASE N = 0
      BY <1>2, <1>6, <2>1
  <2>2. CASE N # 0
    <3>1. N \in 1 .. N
        BY <1>1, <2>2
    <3> QED
        BY <1>2, <1>10, <2>2, <3>1
  <2> QED
      BY <2>1, <2>2
<1> QED
    BY <1>6, <1>11

\* The elements of a finite set, each once.
LEMMA SetInOrder ==
    ASSUME NEW S, IsFiniteSet(S)
    PROVE  SetToSeq(S) \in Seq(S) /\ S = {SetToSeq(S)[i] : i \in DOMAIN SetToSeq(S)}
<1> DEFINE N == Cardinality(S)
           f == SetToSeq(S)
<1>1. N \in Nat /\ ExistsBijection(1 .. N, S)
    BY FS_CardinalityType
<1>2. PICK b \in [1 .. N -> S] : IsInjective(b)
    BY <1>1 DEF ExistsBijection, Bijection, Injection, IsInjective
<1>3. f \in [1 .. N -> S] /\ IsInjective(f)
    BY <1>2 DEF SetToSeq
<1> HIDE DEF f
<1>4. IsFiniteSet(1 .. N) /\ Cardinality(1 .. N) = N
    BY <1>1, FS_Interval
<1>5. f \in Injection(1 .. N, S)
    BY <1>3 DEF Injection, IsInjective
<1>6. f \in Surjection(1 .. N, S)
    BY <1>4, <1>5, FS_Injection
<1>7. f \in Seq(S)
    BY <1>1, <1>3
<1>8. S = {f[i] : i \in DOMAIN f}
    BY <1>3, <1>6 DEF Surjection
<1> QED
    BY <1>7, <1>8 DEF f

LEMMA ImageIs ==
    ASSUME NEW i \in 0 .. 2, NEW p \in Packages PROVE Image(i)[p] \in 0 .. 2
<1>1. CASE p = Incorporation
    BY <1>1 DEF Image, Incorporation
<1>2. CASE p = "daemon"
    BY <1>2 DEF Image, Incorporation
<1>3. CASE p = "library"
    BY <1>3 DEF Image, Incorporation
<1> QED
    BY <1>1, <1>2, <1>3 DEF Packages

\* The names in a plan.
NamesOf(packages) == {packages[i].name : i \in DOMAIN packages}

\* The reader is among the packages, has read those of names alone, and may go on.
Told(at, names) ==
    /\ at \in Reader /\ at.inChanged = TRUE /\ at.current = NoName
    /\ at.sawHeader = TRUE /\ at.failed = FALSE
    /\ NamesOf(at.packages) = names
    /\ \A i \in DOMAIN at.packages : at.packages[i].version \in 0 .. 2

LEMMA NamesAppend ==
    ASSUME NEW packages \in Seq(Reported), NEW p \in Reported
    PROVE  NamesOf(Append(packages, p)) = NamesOf(packages) \cup {p.name}
<1> DEFINE new == Append(packages, p)
           N == Len(packages)
<1>1. N \in Nat /\ DOMAIN packages = 1 .. N /\ DOMAIN new = 1 .. N + 1
    OBVIOUS
<1>2. new[N + 1] = p /\ \A i \in 1 .. N : new[i] = packages[i]
    OBVIOUS
<1>3. 1 .. N + 1 = (1 .. N) \cup {N + 1}
    BY <1>1
<1> HIDE DEF new, N
<1> QED
    BY <1>1, <1>2, <1>3 DEF NamesOf, new

LEMMA ChangeLines ==
    ASSUME NEW p \in Packages, NEW from \in 0 .. 2, NEW to \in 0 .. 2
    PROVE  /\ Change(p, from, to) \in Seq(Lines) /\ Len(Change(p, from, to)) = 2
           /\ Change(p, from, to)[1] = [indent |-> 2, word |-> p, old |-> 0, new |-> 0]
           /\ Change(p, from, to)[2] = [indent |-> 4, word |-> "->", old |-> Image(from)[p],
                                        new |-> Image(to)[p]]
<1> DEFINE a == [indent |-> 2, word |-> p, old |-> 0, new |-> 0]
           b == [indent |-> 4, word |-> "->", old |-> Image(from)[p], new |-> Image(to)[p]]
<1>2. Change(p, from, to) = <<a, b>>
    BY DEF Change, Line
<1>3. a \in Lines /\ b \in Lines
  <2>1. Image(from)[p] \in Nat /\ Image(to)[p] \in Nat
      BY ImageIs
  <2>2. p \in Words /\ "->" \in Words
      BY DEF Words
  <2> QED
      BY <2>1, <2>2 DEF Lines
<1> HIDE DEF a, b
<1>4. <<a, b>> \in Seq(Lines) /\ Len(<<a, b>>) = 2 /\ <<a, b>>[1] = a /\ <<a, b>>[2] = b
    BY <1>3
<1> QED
    BY <1>2, <1>4 DEF a, b

LEMMA ReadChange ==
    ASSUME NEW at, NEW names, Told(at, names),
           NEW p \in Packages, NEW from \in 0 .. 2, NEW to \in 0 .. 2
    PROVE  Told(Read(at, Change(p, from, to)), names \cup {p})
<1> DEFINE lines == Change(p, from, to)
           a == lines[1]
           b == lines[2]
           mid == [at EXCEPT !.current = p]
           new == [name |-> p, action |-> Action(b), version |-> Image(to)[p]]
<1>1. at \in Reader /\ lines \in Seq(Lines) /\ Len(lines) = 2
    BY ChangeLines DEF Told
<1>2. PICK c : Reads(c, at, lines) /\ Read(at, lines) = c[2]
    BY <1>1, ReadSteps
<1>3. c[0] = at /\ c[1] = ReadLine(at, a) /\ c[2] = ReadLine(c[1], b) /\ c[2] \in Reader
    BY <1>1, <1>2 DEF Reads
<1>4. p # "->" /\ p # NoName /\ p \in Words
    BY DEF Packages, Incorporation, NoName, Words
<1>5. a = [indent |-> 2, word |-> p, old |-> 0, new |-> 0]
    BY ChangeLines
<1>6. b.word = "->" /\ b.indent = 4 /\ b.new = Image(to)[p]
  <2>1. b = [indent |-> 4, word |-> "->", old |-> Image(from)[p], new |-> Image(to)[p]]
      BY ChangeLines
  <2> QED
      BY <2>1
<1> HIDE DEF a, b
<1>7. c[1] = mid /\ mid \in Reader
    BY <1>3, <1>4, <1>5 DEF ReadLine, Told, Reader
<1>8. /\ mid.inChanged = TRUE /\ mid.current = p /\ mid.packages = at.packages
      /\ mid.sawHeader = TRUE /\ mid.failed = FALSE /\ at.packages \in Seq(Reported)
    BY DEF Told, Reader
<1> HIDE DEF mid
<1>9. new \in Reported /\ new.name = p /\ new.version \in 0 .. 2
  <2>1. Action(b) \in {"install", "remove", "update"}
    <3>1. CASE b.old = 0 /\ b.new # 0
        BY <3>1 DEF Action
    <3>2. CASE b.old # 0 /\ b.new = 0
        BY <3>2 DEF Action
    <3>3. CASE ~(b.old = 0 /\ b.new # 0) /\ ~(b.old # 0 /\ b.new = 0)
        BY <3>3 DEF Action
    <3> QED
        BY <3>1, <3>2, <3>3
  <2>2. Image(to)[p] \in Nat /\ Image(to)[p] \in 0 .. 2
      BY ImageIs
  <2> QED
      BY <1>4, <2>1, <2>2 DEF Reported
<1>10. /\ c[2].inChanged = TRUE /\ c[2].current = NoName /\ c[2].sawHeader = TRUE
       /\ c[2].failed = FALSE /\ c[2].packages = Append(at.packages, new)
  <2> DEFINE more == Append(at.packages, new)
             after == [mid EXCEPT !.current = NoName]
  <2>1. Append(mid.packages, [name |-> mid.current, action |-> Action(b), version |-> b.new]) = more
      BY <1>6, <1>8
  <2> HIDE DEF more, new
  <2>2. c[2] = [mid EXCEPT !.current = NoName, !.packages =
                   Append(@, [name |-> mid.current, action |-> Action(b), version |-> b.new])]
    <3>1. mid.inChanged /\ b.indent # 0 /\ b.word = "->" /\ mid.current # NoName
        BY <1>4, <1>6, <1>8
    <3> QED
        BY <1>3, <1>7, <3>1, Zenon DEF ReadLine
  <2>3. c[2] = [after EXCEPT !.packages = more]
      BY <2>1, <2>2
  <2>4. /\ after.inChanged = TRUE /\ after.current = NoName /\ after.sawHeader = TRUE
        /\ after.failed = FALSE /\ after \in Reader
      BY <1>7, <1>8 DEF Reader, Words
  <2> HIDE DEF after
  <2> QED
      BY <2>3, <2>4 DEF Reader, more
<1> HIDE DEF new
<1>11. NamesOf(c[2].packages) = names \cup {p}
    BY <1>8, <1>9, <1>10, NamesAppend DEF Told
<1>12. \A i \in DOMAIN c[2].packages : c[2].packages[i].version \in 0 .. 2
  <2> DEFINE N == Len(at.packages)
             more == Append(at.packages, new)
  <2>1. /\ N \in Nat /\ DOMAIN at.packages = 1 .. N /\ DOMAIN more = 1 .. N + 1
        /\ more[N + 1] = new /\ \A i \in 1 .. N : more[i] = at.packages[i]
      BY <1>8
  <2>2. \A i \in 1 .. N : at.packages[i].version \in 0 .. 2
      BY <2>1 DEF Told
  <2> HIDE DEF more, N
  <2>3. \A i \in 1 .. N + 1 : i = N + 1 \/ i \in 1 .. N
      BY <2>1
  <2>4. \A i \in DOMAIN more : more[i].version \in 0 .. 2
      BY <1>9, <2>1, <2>2, <2>3
  <2> QED
      BY <1>10, <2>4 DEF more
<1> QED
    BY <1>2, <1>3, <1>10, <1>11, <1>12 DEF Told

Changes(named, from, to) == FlattenSeq([i \in DOMAIN named |-> Change(named[i], from, to)])

LEMMA ReadChanges ==
    ASSUME NEW at, NEW names, Told(at, names),
           NEW named \in Seq(Packages), NEW from \in 0 .. 2, NEW to \in 0 .. 2
    PROVE  /\ Changes(named, from, to) \in Seq(Lines)
           /\ Told(Read(at, Changes(named, from, to)),
                   names \cup {named[i] : i \in DOMAIN named})
<1> DEFINE seqs == [i \in DOMAIN named |-> Change(named[i], from, to)]
           N == Len(named)
           Some(n) == names \cup {named[i] : i \in 1 .. n}
<1>1. N \in Nat /\ DOMAIN named = 1 .. N /\ \A i \in 1 .. N : named[i] \in Packages
    OBVIOUS
<1>2. /\ seqs \in Seq(Seq(Lines)) /\ Len(seqs) = N
      /\ \A i \in 1 .. N : seqs[i] = Change(named[i], from, to) /\ seqs[i] \in Seq(Lines)
  <2>1. \A i \in 1 .. N : Change(named[i], from, to) \in Seq(Lines)
      BY <1>1, ChangeLines
  <2>2. DOMAIN seqs = 1 .. N /\ \A i \in 1 .. N : seqs[i] = Change(named[i], from, to)
      BY <1>1
  <2>3. \A i \in 1 .. N : seqs[i] \in Seq(Lines)
      BY <2>1, <2>2
  <2>4. seqs \in [1 .. N -> Seq(Lines)]
      BY <1>1, <2>1
  <2> HIDE DEF seqs, N
  <2> QED
      BY <1>1, <2>2, <2>3, <2>4
<1> HIDE DEF seqs, N
<1>3. PICK g \in [0 .. N -> Seq(Lines)] :
          /\ g[0] = << >> /\ \A n \in 1 .. N : g[n] = g[n - 1] \o seqs[n]
          /\ FlattenSeq(seqs) = g[N]
    BY <1>2, Flattens
<1> DEFINE T == {n \in Nat : n \in 0 .. N => Told(Read(at, g[n]), Some(n))}
<1>4. 0 \in T
  <2>1. Read(at, g[0]) = at
      BY <1>3, ReadNothing DEF Told
  <2>2. Some(0) = names
      OBVIOUS
  <2> QED
      BY <2>1, <2>2
<1>5. ASSUME NEW n \in Nat, n \in T PROVE n + 1 \in T
  <2>1. SUFFICES ASSUME n + 1 \in 0 .. N PROVE Told(Read(at, g[n + 1]), Some(n + 1))
      OBVIOUS
  <2>2. PICK k \in 1 .. N : k = n + 1 /\ k - 1 = n
      BY <1>1, <2>1
  <2>3. n \in 0 .. N
      BY <1>1, <2>2
  <2>4. Told(Read(at, g[n]), Some(n))
      BY <1>5, <2>3
  <2>5. g[k] = g[n] \o seqs[k]
      BY <1>3, <2>2
  <2>6. at \in Reader /\ g[n] \in Seq(Lines) /\ seqs[k] \in Seq(Lines)
      BY <1>2, <1>3, <2>3 DEF Told
  <2>7. Read(at, g[k]) = Read(Read(at, g[n]), Change(named[k], from, to))
      BY <1>2, <2>5, <2>6, ReadConcat
  <2>8. Told(Read(at, g[k]), Some(n) \cup {named[k]})
    <3> HIDE DEF Some
    <3> QED
        BY <1>1, <2>4, <2>7, ReadChange
  <2>9. Some(k) = Some(n) \cup {named[k]}
    <3>1. 1 .. k = (1 .. n) \cup {k}
        BY <2>2
    <3> QED
        BY <3>1
  <2> QED
      BY <2>2, <2>8, <2>9
<1>6. N \in T
  <2> HIDE DEF T
  <2> QED
      BY <1>1, <1>4, <1>5, SetInduction
<1>7. Told(Read(at, FlattenSeq(seqs)), names \cup {named[i] : i \in DOMAIN named})
  <2>1. Told(Read(at, g[N]), Some(N))
    <3>1. N \in 0 .. N
        BY <1>1
    <3> HIDE DEF Some
    <3> QED
        BY <1>6, <3>1, Zenon
  <2>2. Some(N) = names \cup {named[i] : i \in DOMAIN named}
      BY <1>1
  <2> HIDE DEF Some
  <2> QED
      BY <1>3, <2>1, <2>2
<1>8. FlattenSeq(seqs) \in Seq(Lines)
    BY <1>1, <1>3
<1> QED
    BY <1>7, <1>8 DEF seqs, Changes

\* A line without an indent is passed over among the packages, unless it is a heading.
LEMMA ReadPublisher ==
    ASSUME NEW at, NEW names, Told(at, names), NEW word \in Words, word \notin Headings
    PROVE  ReadLine(at, Line(0, word)) = at
<1>1. Line(0, word).indent = 0 /\ Line(0, word).word = word
    BY DEF Line
<1>2. at.inChanged
    BY DEF Told
<1> QED
    BY <1>1, <1>2, Zenon DEF ReadLine, Section

LEMMA PlainLine ==
    ASSUME NEW indent \in Nat, NEW word \in Words
    PROVE  /\ Line(indent, word) \in Lines
           /\ Line(indent, word).indent = indent /\ Line(indent, word).word = word
    BY DEF Line, Lines

LEMMA ReadPublished ==
    ASSUME NEW at, NEW names, Told(at, names), NEW from \in 0 .. 2, NEW to \in 0 .. 2,
           NEW publisher \in {"nightshade.systems", "omnios"},
           NEW packages \in SUBSET Packages, IsFiniteSet(packages)
    PROVE  /\ Published(publisher, packages, from, to) \in Seq(Lines)
           /\ Told(Read(at, Published(publisher, packages, from, to)), names \cup packages)
<1> DEFINE named == SetToSeq(packages)
           lines == Changes(named, from, to)
           first == <<Line(0, publisher)>>
<1>1. CASE packages = {}
  <2>1. Published(publisher, packages, from, to) = << >>
      BY <1>1 DEF Published
  <2>2. at \in Reader
      BY DEF Told
  <2>3. names \cup packages = names
      BY <1>1
  <2>4. Read(at, << >>) = at /\ << >> \in Seq(Lines)
      BY <2>2, ReadNothing
  <2>5. Told(at, names \cup packages)
      BY <2>3
  <2> QED
      BY <2>1, <2>4, <2>5
<1>2. CASE packages # {}
  <2>1. Published(publisher, packages, from, to) = first \o lines
      BY <1>2 DEF Published, Changes
  <2>2. named \in Seq(Packages) /\ packages = {named[i] : i \in DOMAIN named}
    <3>1. named \in Seq(packages) /\ packages = {named[i] : i \in DOMAIN named}
        BY SetInOrder
    <3> QED
        BY <3>1
  <2>3. lines \in Seq(Lines) /\ Told(Read(at, lines), names \cup packages)
    <3> HIDE DEF named
    <3> QED
        BY <2>2, ReadChanges
  <2>4. at \in Reader
      BY DEF Told
  <2>5. publisher \in Words /\ publisher \notin Headings
      BY DEF Words, Headings
  <2>6. Line(0, publisher) \in Lines
      BY <2>5, PlainLine
  <2>7. first \in Seq(Lines)
      BY <2>6
  <2>8. Read(at, first) = at
      BY <2>4, <2>5, <2>6, ReadOne, ReadPublisher
  <2> HIDE DEF first, lines
  <2>9. Read(at, first \o lines) = Read(at, lines)
      BY <2>3, <2>4, <2>7, <2>8, ReadConcat
  <2>10. first \o lines \in Seq(Lines)
      BY <2>3, <2>7
  <2> QED
      BY <2>1, <2>3, <2>9, <2>10
<1> QED
    BY <1>1, <1>2

Start == [inChanged |-> FALSE, sawHeader |-> FALSE, current |-> NoName,
          packages |-> << >>, failed |-> FALSE]
Opening == <<Line(4, "Packages to"), Line(4, "Create boot environment:"),
             Line(0, "Changed packages:")>>
Closing == <<Line(0, "Services:"), Line(2, "restart_fmri:"), Line(4, "manifest-import")>>

LEMMA ParseIs ==
    ASSUME NEW lines, lines # NoUpdates
    PROVE  ParseDryRun(lines) = [ok |-> Read(Start, lines).sawHeader /\ ~Read(Start, lines).failed,
                                 packages |-> Read(Start, lines).packages]
BY DEF ParseDryRun, Start

LEMMA ReadOpening == Opening \in Seq(Lines) /\ Start \in Reader /\ Told(Read(Start, Opening), {})
<1> DEFINE a == Line(4, "Packages to")
           b == Line(4, "Create boot environment:")
           c == Line(0, "Changed packages:")
<1>1. "Packages to" \in Words /\ "Create boot environment:" \in Words /\ "Changed packages:" \in Words
    BY DEF Words, Headers
<1>2. /\ a \in Lines /\ b \in Lines /\ c \in Lines
      /\ a.word = "Packages to" /\ b.word = "Create boot environment:" /\ c.word = "Changed packages:"
    BY <1>1, PlainLine
<1> HIDE DEF a, b, c
<1>3. Opening = <<a, b, c>>
    BY DEF Opening, a, b, c
<1>4. /\ <<a, b, c>> \in Seq(Lines) /\ Len(<<a, b, c>>) = 3
      /\ <<a, b, c>>[1] = a /\ <<a, b, c>>[2] = b /\ <<a, b, c>>[3] = c
  <2>1. a \in Lines /\ b \in Lines /\ c \in Lines
      BY <1>2
  <2> QED
      BY <2>1
<1>5. Start \in Reader
    BY DEF Start, Reader, Words
<1>6. PICK r : Reads(r, Start, Opening) /\ Read(Start, Opening) = r[3]
    BY <1>3, <1>4, <1>5, ReadSteps
<1>7. r[0] = Start /\ r[1] = ReadLine(r[0], a) /\ r[2] = ReadLine(r[1], b) /\ r[3] = ReadLine(r[2], c)
  <2>1. r[1] = ReadLine(r[1 - 1], a) /\ r[2] = ReadLine(r[2 - 1], b) /\ r[3] = ReadLine(r[3 - 1], c)
      BY <1>3, <1>4, <1>6 DEF Reads
  <2> QED
      BY <1>6, <2>1 DEF Reads
<1> DEFINE Heard(at, header, changed) ==
               /\ at \in Reader /\ at.inChanged = changed /\ at.sawHeader = header
               /\ at.current = NoName /\ at.packages = << >> /\ at.failed = FALSE
<1>8. ASSUME NEW at, NEW header \in BOOLEAN, Heard(at, header, FALSE),
             NEW line, NEW changed \in BOOLEAN, changed = (line.word = "Changed packages:"),
             NEW also \in BOOLEAN, also = (header \/ line.word \in Headers)
      PROVE  Heard(ReadLine(at, line), also, changed)
  <2> DEFINE mid == [at EXCEPT !.sawHeader = also]
  <2>1. ReadLine(at, line) = [at EXCEPT !.sawHeader = also, !.inChanged = changed]
    <3>1. ~at.inChanged /\ at.sawHeader = header
        BY <1>8
    <3>2. ReadLine(at, line) = [at EXCEPT !.sawHeader = at.sawHeader \/ line.word \in Headers,
                                          !.inChanged = line.word = "Changed packages:"]
        BY <3>1, Zenon DEF ReadLine
    <3> QED
        BY <1>8, <3>1, <3>2, Zenon
  <2>2. ReadLine(at, line) = [mid EXCEPT !.inChanged = changed]
      BY <2>1
  <2>3. Heard(mid, also, FALSE)
      BY <1>8 DEF Reader
  <2> HIDE DEF mid
  <2> QED
      BY <2>2, <2>3 DEF Reader
<1>9. Heard(Start, FALSE, FALSE)
    BY <1>5 DEF Start
<1>10. Heard(r[1], TRUE, FALSE)
  <2>1. FALSE = (a.word = "Changed packages:") /\ TRUE = (FALSE \/ a.word \in Headers)
      BY <1>2 DEF Headers
  <2> HIDE DEF Heard
  <2> QED
      BY <1>6, <1>7, <1>8, <1>9, <2>1
<1>11. Heard(r[2], TRUE, FALSE)
  <2>1. FALSE = (b.word = "Changed packages:") /\ TRUE = (TRUE \/ b.word \in Headers)
      BY <1>2
  <2> HIDE DEF Heard
  <2> QED
      BY <1>7, <1>8, <1>10, <2>1
<1>12. Heard(r[3], TRUE, TRUE)
  <2>1. TRUE = (c.word = "Changed packages:") /\ TRUE = (TRUE \/ c.word \in Headers)
      BY <1>2
  <2> HIDE DEF Heard
  <2> QED
    <3>1. Heard(ReadLine(r[2], c), TRUE, TRUE)
        BY <1>8, <1>11, <2>1, Zenon
    <3> QED
        BY <1>7, <3>1
<1>13. Told(r[3], {})
    BY <1>12 DEF Told, NamesOf
<1> QED
    BY <1>3, <1>4, <1>5, <1>6, <1>13

LEMMA ReadClosing ==
    ASSUME NEW at, NEW names, Told(at, names)
    PROVE  /\ Closing \in Seq(Lines)
           /\ Read(at, Closing).sawHeader = TRUE /\ Read(at, Closing).failed = FALSE
           /\ Read(at, Closing).packages = at.packages
<1> DEFINE a == Line(0, "Services:")
           b == Line(2, "restart_fmri:")
           c == Line(4, "manifest-import")
<1>1. "Services:" \in Words /\ "restart_fmri:" \in Words /\ "manifest-import" \in Words
    BY DEF Words, Headings
<1>2. /\ a \in Lines /\ b \in Lines /\ c \in Lines
      /\ a.word = "Services:" /\ b.word = "restart_fmri:" /\ c.word = "manifest-import"
      /\ a.indent = 0
    BY <1>1, PlainLine
<1> HIDE DEF a, b, c
<1>3. Closing = <<a, b, c>>
    BY DEF Closing, a, b, c
<1>4. /\ <<a, b, c>> \in Seq(Lines) /\ Len(<<a, b, c>>) = 3
      /\ <<a, b, c>>[1] = a /\ <<a, b, c>>[2] = b /\ <<a, b, c>>[3] = c
  <2>1. a \in Lines /\ b \in Lines /\ c \in Lines
      BY <1>2
  <2> QED
      BY <2>1
<1>5. at \in Reader
    BY DEF Told
<1>6. PICK r : Reads(r, at, Closing) /\ Read(at, Closing) = r[3]
    BY <1>3, <1>4, <1>5, ReadSteps
<1>7. r[0] = at /\ r[1] = ReadLine(r[0], a) /\ r[2] = ReadLine(r[1], b) /\ r[3] = ReadLine(r[2], c)
  <2>1. r[1] = ReadLine(r[1 - 1], a) /\ r[2] = ReadLine(r[2 - 1], b) /\ r[3] = ReadLine(r[3 - 1], c)
      BY <1>3, <1>4, <1>6 DEF Reads
  <2> QED
      BY <1>6, <2>1 DEF Reads
<1> DEFINE Past(v) == /\ v \in Reader /\ v.inChanged = FALSE /\ v.sawHeader = TRUE
                      /\ v.failed = FALSE /\ v.packages = at.packages
<1>8. Past(r[1])
  <2>1. r[1] = [at EXCEPT !.inChanged = FALSE]
    <3>1. at.inChanged /\ a.indent = 0 /\ a.word \in Headings
        BY <1>2 DEF Told, Headings
    <3> QED
        BY <1>7, <3>1, Zenon DEF ReadLine, Section
  <2> QED
      BY <2>1 DEF Told, Reader
<1>9. ASSUME NEW v, Past(v), NEW line, line.word # "Changed packages:"
      PROVE  Past(ReadLine(v, line))
  <2> DEFINE mid == [v EXCEPT !.sawHeader = TRUE]
  <2>1. ReadLine(v, line) = [v EXCEPT !.sawHeader = TRUE, !.inChanged = FALSE]
    <3>1. ~v.inChanged /\ TRUE = (v.sawHeader \/ line.word \in Headers)
          /\ FALSE = (line.word = "Changed packages:")
        BY <1>9
    <3>2. ReadLine(v, line) = [v EXCEPT !.sawHeader = v.sawHeader \/ line.word \in Headers,
                                        !.inChanged = line.word = "Changed packages:"]
        BY <3>1, Zenon DEF ReadLine
    <3> QED
        BY <3>1, <3>2, Zenon
  <2>2. ReadLine(v, line) = [mid EXCEPT !.inChanged = FALSE]
      BY <2>1
  <2>3. Past(mid)
      BY <1>9 DEF Reader
  <2> HIDE DEF mid
  <2> QED
      BY <2>2, <2>3 DEF Reader
<1>10. b.word # "Changed packages:" /\ c.word # "Changed packages:"
    BY <1>2
<1> HIDE DEF Past
<1>11. Past(r[2])
    BY <1>7, <1>8, <1>9, <1>10
<1>12. Past(r[3])
    BY <1>7, <1>9, <1>10, <1>11
<1> QED
    BY <1>3, <1>4, <1>6, <1>12 DEF Past

\* What pkg prints of an update is read without an error, and the plan names the packages that
\* differ, between any two images.  (pkg::parse_dry_run)
THEOREM PlanNames ==
    ASSUME NEW from \in 0 .. 2, NEW to \in 0 .. 2
    PROVE  LET run == ParseDryRun(Printed(from, to))
           IN  /\ run.ok
               /\ NamesOf(run.packages) = Differing(from, to)
               /\ DOMAIN run.packages \subseteq Nat
               /\ \A i \in DOMAIN run.packages : run.packages[i].version \in 0 .. 2
<1> DEFINE changed == Differing(from, to)
           run == ParseDryRun(Printed(from, to))
<1>1. CASE changed = {}
  <2>1. Printed(from, to) = NoUpdates
      BY <1>1 DEF Printed
  <2>2. run = [ok |-> TRUE, packages |-> << >>]
      BY <2>1 DEF ParseDryRun
  <2> QED
      BY <1>1, <2>2 DEF NamesOf
<1>2. CASE changed # {}
  <2> DEFINE ours == Published("nightshade.systems", changed \cap Ours, from, to)
             theirs == Published("omnios", changed \ Ours, from, to)
             lines == Opening \o ours \o theirs \o Closing
             r1 == Read(Start, Opening)
             r2 == Read(r1, ours)
             r3 == Read(r2, theirs)
             r4 == Read(r3, Closing)
  <2>1. Printed(from, to) = lines
      BY <1>2 DEF Printed, Opening, Closing
  <2>2. changed \subseteq Packages /\ IsFiniteSet(Packages)
    <3>1. IsFiniteSet({Incorporation}) /\ IsFiniteSet({Incorporation} \cup {"daemon"})
        BY FS_Singleton, FS_AddElement
    <3>2. IsFiniteSet({Incorporation} \cup {"daemon"} \cup {"library"})
        BY <3>1, FS_AddElement
    <3>3. Packages = {Incorporation} \cup {"daemon"} \cup {"library"}
        BY DEF Packages
    <3> QED
        BY <3>2, <3>3 DEF Differing
  <2>3. /\ changed \cap Ours \in SUBSET Packages /\ IsFiniteSet(changed \cap Ours)
        /\ changed \ Ours \in SUBSET Packages /\ IsFiniteSet(changed \ Ours)
      BY <2>2, FS_Subset
  <2> HIDE DEF changed
  <2>4. Opening \in Seq(Lines) /\ Start \in Reader /\ Told(r1, {})
      BY ReadOpening
  <2>5. ours \in Seq(Lines) /\ Told(r2, {} \cup (changed \cap Ours))
      BY <2>3, <2>4, ReadPublished
  <2>6. theirs \in Seq(Lines) /\ Told(r3, {} \cup (changed \cap Ours) \cup (changed \ Ours))
    <3> HIDE DEF r2
    <3> QED
        BY <2>3, <2>5, ReadPublished
  <2>7. {} \cup (changed \cap Ours) \cup (changed \ Ours) = changed
      OBVIOUS
  <2>8. Told(r3, changed)
      BY <2>6, <2>7
  <2>9. /\ Closing \in Seq(Lines) /\ r4.sawHeader = TRUE /\ r4.failed = FALSE
        /\ r4.packages = r3.packages
    <3> HIDE DEF r3
    <3> QED
        BY <2>8, ReadClosing
  <2>10. Read(Start, lines) = r4
    <3> HIDE DEF ours, theirs
    <3>1. Opening \o ours \in Seq(Lines) /\ Opening \o ours \o theirs \in Seq(Lines)
        BY <2>4, <2>5, <2>6
    <3>2. Read(Start, Opening \o ours) = r2
        BY <2>4, <2>5, ReadConcat
    <3>3. Read(Start, Opening \o ours \o theirs) = Read(Read(Start, Opening \o ours), theirs)
        BY <2>4, <2>6, <3>1, ReadConcat
    <3>4. Read(Start, Opening \o ours \o theirs \o Closing)
              = Read(Read(Start, Opening \o ours \o theirs), Closing)
        BY <2>4, <2>9, <3>1, ReadConcat
    <3> QED
        BY <3>2, <3>3, <3>4, Zenon
  <2>11. lines # NoUpdates
    <3> HIDE DEF ours, theirs
    <3>1. Len(Opening) = 3 /\ Len(NoUpdates) = 1
        BY DEF Opening, NoUpdates
    <3>2. Opening \o ours \in Seq(Lines) /\ Len(Opening \o ours) = 3 + Len(ours)
      <4>1. Opening \in Seq(Lines) /\ ours \in Seq(Lines)
          BY <2>4, <2>5
      <4>2. Opening \o ours \in Seq(Lines)
          BY <4>1
      <4>3. Len(Opening \o ours) = Len(Opening) + Len(ours)
          BY <4>1, ConcatProperties
      <4> QED
          BY <3>1, <4>2, <4>3
    <3>3. /\ Opening \o ours \o theirs \in Seq(Lines)
          /\ Len(Opening \o ours \o theirs) = 3 + Len(ours) + Len(theirs)
      <4> HIDE DEF lines
      <4> QED
          BY <2>6, <3>2, ConcatProperties
    <3>4. Len(lines) = 3 + Len(ours) + Len(theirs) + Len(Closing)
      <4> DEFINE before == Opening \o ours \o theirs
      <4>1. before \in Seq(Lines) /\ Len(before) = 3 + Len(ours) + Len(theirs)
          BY <3>3
      <4>2. lines = before \o Closing
          OBVIOUS
      <4> HIDE DEF before, lines
      <4>3. Len(lines) = Len(before) + Len(Closing)
          BY <2>9, <4>1, <4>2, ConcatProperties
      <4> QED
          BY <4>1, <4>3
    <3>5. Len(ours) \in Nat /\ Len(theirs) \in Nat /\ Len(Closing) \in Nat
        BY <2>5, <2>6, <2>9
    <3> HIDE DEF lines
    <3>6. Len(lines) # 1
        BY <3>4, <3>5
    <3> QED
        BY <3>1, <3>6
  <2> HIDE DEF lines, r4
  <2>12. run.ok /\ run.packages = r4.packages
    <3>1. run = [ok |-> r4.sawHeader /\ ~r4.failed, packages |-> r4.packages]
        BY <2>1, <2>10, <2>11, ParseIs, Zenon
    <3>2. (r4.sawHeader /\ ~r4.failed) = TRUE
        BY <2>9
    <3>3. run = [ok |-> TRUE, packages |-> r4.packages]
        BY <3>1, <3>2, Zenon
    <3> QED
        BY <3>3
  <2>13. /\ NamesOf(r3.packages) = changed /\ r3.packages \in Seq(Reported)
         /\ \A i \in DOMAIN r3.packages : r3.packages[i].version \in 0 .. 2
      BY <2>8 DEF Told, Reader
  <2> HIDE DEF r3
  <2>14. DOMAIN r3.packages \subseteq Nat
      BY <2>13
  <2> QED
      BY <2>9, <2>12, <2>13, <2>14 DEF changed
<1> QED
    BY <1>1, <1>2

-----------------------------------------------------------------------------
(* What a step does to requests, jobs, the row's plan and the boot         *)
(* environments.                                                           *)

Early == {"idle", "lookup", "look", "start", "act"}

\* What a request asks for is as it was.
SameAsk(r) == req'[r].op = req[r].op /\ req'[r].be = req[r].be /\ req'[r].plan = req[r].plan

LEMMA GotoKeeps ==
    ASSUME Reqs, NEW q \in Requests, NEW s, Goto(q, s), NEW r \in Requests PROVE SameAsk(r)
<1> DEFINE v == [req[q] EXCEPT !.stage = s]
<1>1. Request(req[q]) /\ DOMAIN req = Requests
    BY DEF Reqs, Shape, Request
<1>2. v.op = req[q].op /\ v.be = req[q].be /\ v.plan = req[q].plan
    BY <1>1 DEF Request
<1>3. req' = [req EXCEPT ![q] = v]
    BY Zenon DEF Goto
<1> HIDE DEF v
<1> QED
    BY <1>1, <1>2, <1>3 DEF SameAsk

LEMMA OverKeeps ==
    ASSUME Reqs, NEW q \in Requests, req' = Over(q), NEW r \in Requests
    PROVE  req'[r].stage = "over" \/ SameAsk(r)
    BY OverMoves DEF Moved, SameAsk

\* Only a look takes a plan into a request, and only the asking says what is asked.
LEMMA AskedFrom ==
    ASSUME StartInv, [Next]_vars, NEW r \in Requests
    PROVE  \/ req'[r].stage \in {"idle", "over"} \/ SameAsk(r)
           \/ Ask(r)
           \/ LookForJobs(r) /\ req'[r].op = req[r].op /\ MayStart(req[r].op)
              /\ req'[r].plan = row.plan
<1>1. ASSUME NEW q \in Requests, \/ Lookup(q) \/ Store(q) \/ CreateUser(q) \/ StartJob(q)
             \/ NoteJob(q) \/ LookForBe(q) \/ ActOnBe(q) \/ Attach(q) \/ Detach(q)
             \/ UpgradeFails(q) \/ Drop(q)
      PROVE  req'[r].stage = "over" \/ SameAsk(r)
  <2>1. req' = Over(q) \/ \E s : Goto(q, s)
      BY <1>1, Zenon DEF Lookup, Store, CreateUser, StartJob, NoteJob, LookForBe, ActOnBe, Attach,
         Detach, UpgradeFails, Drop, Answer
  <2> QED
      BY <2>1, GotoKeeps, OverKeeps DEF StartInv
<1>2. ASSUME NEW q \in Requests, Ask(q), q # r PROVE SameAsk(r)
    BY <1>2, AskPuts DEF Asked, StartInv, SameAsk
<1>3. ASSUME NEW q \in Requests, LookForJobs(q), q # r PROVE SameAsk(r)
    BY <1>3, LookForJobsStep DEF WorkStep, AnswerStep, Moved, SameAsk
<1>4. ASSUME LookForJobs(r)
      PROVE  \/ req'[r].stage = "over" \/ SameAsk(r)
             \/ req'[r].op = req[r].op /\ MayStart(req[r].op) /\ req'[r].plan = row.plan
  <2>1. CASE MayStart(req[r].op)
    <3> DEFINE u == [req[r] EXCEPT !.stage = "start"]
               v == [u EXCEPT !.plan = row.plan]
    <3>1. Request(req[r]) /\ r \in DOMAIN req
        BY DEF StartInv, Reqs, Shape, Request
    <3>2. Request(u) /\ u.op = req[r].op
        BY <3>1 DEF Request
    <3>3. req' = [req EXCEPT ![r].stage = "start", ![r].plan = row.plan]
        BY <1>4, <2>1 DEF LookForJobs
    <3>4. req' = [req EXCEPT ![r] = v]
        BY <3>1, <3>3, Zenon
    <3> HIDE DEF u
    <3>5. v.op = req[r].op /\ v.plan = row.plan
        BY <3>2 DEF Request
    <3> HIDE DEF v
    <3> QED
        BY <2>1, <3>1, <3>4, <3>5
  <2>2. CASE ~MayStart(req[r].op)
    <3>1. req' = Over(r) \/ \E s : Goto(r, s)
        BY <1>4, <2>2, Zenon DEF LookForJobs, Answer
    <3> QED
        BY <3>1, GotoKeeps, OverKeeps DEF StartInv
  <2> QED
      BY <2>1, <2>2
<1>5. ASSUME NEW q \in Requests,
             \/ CheckPlans(q) \/ CheckSaves(q) \/ ApplyUpdates(q) \/ ApplySaves(q)
             \/ RebootAsks(q) \/ JobFails(q)
      PROVE  SameAsk(r)
    BY <1>5 DEF CheckPlans, CheckSaves, ApplyUpdates, ApplySaves, RebootAsks, JobFails, SameAsk
<1>6. CASE Crash \/ HostReboots
    BY <1>6, DiesEnds DEF Crash, HostReboots, StartInv, Ended
<1>7. CASE Publish \/ Sweep \/ Tick \/ Starting \/ FirstBootFails \/ UNCHANGED vars
    BY <1>7 DEF Publish, Sweep, Tick, Starting, Migrate, Recover, FirstBoot, InsertAdmin, DestroyFile,
       LoadOrGenerate, WritePair, FirstBootFails, vars, SameAsk
<1> QED
    BY <1>1, <1>2, <1>3, <1>4, <1>5, <1>6, <1>7 DEF Next

\* Nobody goes back to before the start of a job.
LEMMA EarlyFrom ==
    ASSUME StartInv, [Next]_vars, NEW r \in Requests, req'[r].stage \in Early
    PROVE  req[r].stage \in Early
<1>1. ASSUME NEW q \in Requests, \/ Lookup(q) \/ Store(q) \/ CreateUser(q) \/ LookForJobs(q)
             \/ StartJob(q) \/ NoteJob(q) \/ LookForBe(q) \/ ActOnBe(q) \/ Drop(q)
      PROVE  req[r].stage \in Early
  <2>1. CASE q = r
    <3>1. /\ \E to : Moved(r, to) /\ (to \in Early => req[r].stage \in Early)
        BY <1>1, <2>1, LookupStep, StoreStep, CreateUserStep, LookForJobsStep, StartJobStep,
           NoteJobStep, LookForBeStep, ActOnBeStep, DropStep
           DEF WorkStep, AnswerStep, At, Early
    <3> QED
        BY <3>1 DEF Moved
  <2>2. CASE q # r
    <3>1. \E to : Moved(q, to)
        BY <1>1, LookupStep, StoreStep, CreateUserStep, LookForJobsStep, StartJobStep,
           NoteJobStep, LookForBeStep, ActOnBeStep, DropStep DEF WorkStep, AnswerStep
    <3> QED
        BY <2>2, <3>1 DEF Moved
  <2> QED
      BY <2>1, <2>2
<1>2. ASSUME NEW q \in Requests, Ask(q) PROVE req[r].stage \in Early
    BY <1>2, AskPuts DEF Asked, StartInv, At, Early
<1>3. ASSUME NEW q \in Requests, Attach(q) \/ Detach(q) \/ UpgradeFails(q)
      PROVE  req[r].stage \in Early
  <2>1. Moved(q, "attached") \/ Moved(q, "over")
      BY <1>3, GotoMoves, OverMoves DEF Attach, Detach, UpgradeFails, StartInv
  <2> QED
      BY <2>1 DEF Moved, Early
<1>4. CASE req' = req
    BY <1>4
<1>5. ASSUME \/ Publish \/ Sweep \/ Tick \/ Starting \/ FirstBootFails \/ UNCHANGED vars
             \/ \E q \in Requests : \/ CheckPlans(q) \/ CheckSaves(q) \/ ApplyUpdates(q)
                                    \/ ApplySaves(q) \/ RebootAsks(q) \/ JobFails(q)
      PROVE  req' = req
    BY <1>5 DEF CheckPlans, CheckSaves, ApplyUpdates, ApplySaves, RebootAsks, JobFails, Publish,
       Sweep, Tick, Starting, Migrate, Recover, FirstBoot, InsertAdmin, DestroyFile, LoadOrGenerate, WritePair,
       FirstBootFails, vars
<1>6. CASE Dies
  <2>1. req' = [q \in Requests |-> IF At(q, "idle") THEN req[q] ELSE Over(q)[q]]
      BY <1>6 DEF Dies
  <2>2. req'[r].stage \in {"idle", "over"}
      BY <1>6, DiesEnds DEF StartInv, Ended
  <2>3. CASE At(r, "idle")
      BY <2>3 DEF At, Early
  <2>4. CASE ~At(r, "idle")
    <3>1. req'[r] = Over(r)[r] /\ r \in DOMAIN req
        BY <2>1, <2>4 DEF StartInv, Reqs, Shape
    <3>2. req'[r].stage = "over"
        BY <3>1, Zenon DEF Over, NewRequest
    <3> QED
        BY <3>2 DEF Early
  <2> QED
      BY <2>3, <2>4
<1> QED
    BY <1>1, <1>2, <1>3, <1>4, <1>5, <1>6 DEF Next, Crash, HostReboots

-----------------------------------------------------------------------------
(* Where a job's task comes from.                                          *)

\* The plan the check of j makes.
PlanMade == PlanOf(ParseDryRun(Printed(bes[Booted].image, offered)).packages)

Begins(j) ==
    /\ StartJob(j) /\ job'[j].step = "begin" /\ job'[j].kind = req[j].op
    /\ req[j].op = "apply" => job'[j].plan = req[j].plan
Planned(j) ==
    /\ CheckPlans(j) /\ job'[j].step = "save" /\ job[j].kind = "check" /\ job'[j].kind = "check"
    /\ job[j].step = "begin" /\ job'[j].plan = PlanMade
Applied(j) ==
    /\ ApplyUpdates(j) /\ job'[j].step = "save" /\ job[j].kind = "apply" /\ job'[j].kind = "apply"
    /\ job[j].step = "begin" /\ job'[j].plan = job[j].plan

\* A job that has just done a step has no task, or goes on with it.
LEMMA FinishEnds ==
    ASSUME Jobs, NEW j \in Requests, NEW from, NEW state, Finish(j, from, state), NEW i \in Requests
    PROVE  job'[j].step = "none" /\ (i # j => job'[i] = job[i])
<1> DEFINE u == [NoJob EXCEPT !.kind = job[j].kind]
           v == [u EXCEPT !.state = state]
<1>1. JobRecord(u) /\ u.step = "none"
    BY NoJobIs DEF JobRecord
<1>2. job' = [job EXCEPT ![j] = [NoJob EXCEPT !.kind = job[j].kind, !.state = state]]
    BY Zenon DEF Finish
<1>3. [NoJob EXCEPT !.kind = job[j].kind, !.state = state] = v
    BY Zenon
<1> HIDE DEF u
<1>4. v.step = "none"
    BY <1>1 DEF JobRecord
<1> HIDE DEF v
<1>5. DOMAIN job = Requests
    BY DEF Jobs
<1> QED
    BY <1>2, <1>3, <1>4, <1>5

LEMMA PlansJob ==
    ASSUME Jobs, NEW j \in Requests, CheckPlans(j), NEW i \in Requests
    PROVE  Planned(j) /\ (i # j => job'[i] = job[i])
<1> DEFINE u == [job[j] EXCEPT !.step = "save"]
           v == [u EXCEPT !.state = "running"]
           w == [v EXCEPT !.plan = PlanMade]
<1>1. JobRecord(job[j]) /\ DOMAIN job = Requests
    BY DEF Jobs, JobOK
<1>2. job' = [job EXCEPT ![j].step = "save", ![j].state = "running", ![j].plan = PlanMade]
    BY Zenon DEF CheckPlans, PlanMade
<1>3. job' = [job EXCEPT ![j] = w]
    BY <1>1, <1>2, Zenon
<1>4. JobRecord(u) /\ u.kind = job[j].kind /\ u.step = "save"
    BY <1>1 DEF JobRecord
<1> HIDE DEF u
<1>5. JobRecord(v) /\ v.kind = job[j].kind /\ v.step = "save"
    BY <1>4 DEF JobRecord
<1> HIDE DEF v
<1>6. w.kind = job[j].kind /\ w.step = "save" /\ w.plan = PlanMade
    BY <1>5 DEF JobRecord
<1> HIDE DEF w
<1>7. job[j].kind = "check" /\ job[j].step = "begin"
    BY DEF CheckPlans
<1> QED
    BY <1>1, <1>3, <1>6, <1>7 DEF Planned

LEMMA AppliesJob ==
    ASSUME Jobs, NEW j \in Requests, ApplyUpdates(j), NEW i \in Requests
    PROVE  Applied(j) /\ (i # j => job'[i] = job[i])
<1> DEFINE u == [job[j] EXCEPT !.step = "save"]
           v == [u EXCEPT !.state = "running"]
<1>1. JobRecord(job[j]) /\ DOMAIN job = Requests
    BY DEF Jobs, JobOK
<1>2. job' = [job EXCEPT ![j].step = "save", ![j].state = "running"]
    BY Zenon DEF ApplyUpdates, Step
<1>3. job' = [job EXCEPT ![j] = v]
    BY <1>1, <1>2, Zenon
<1>4. JobRecord(u) /\ u.kind = job[j].kind /\ u.step = "save" /\ u.plan = job[j].plan
    BY <1>1 DEF JobRecord
<1> HIDE DEF u
<1>5. v.kind = job[j].kind /\ v.step = "save" /\ v.plan = job[j].plan
    BY <1>4 DEF JobRecord
<1> HIDE DEF v
<1>7. job[j].kind = "apply" /\ job[j].step = "begin"
    BY DEF ApplyUpdates, Step
<1> QED
    BY <1>1, <1>3, <1>5, <1>7 DEF Applied

LEMMA StartsJob ==
    ASSUME Jobs, NEW j \in Requests, StartJob(j), NEW i \in Requests
    PROVE  /\ job'[j].step = "none" \/ Begins(j)
           /\ i # j => job'[i] = job[i]
<1> DEFINE inserted == [kind |-> req[j].op, state |-> "queued", step |-> "begin",
                        plan |-> IF req[j].op = "apply" THEN req[j].plan ELSE NoPlan]
           dropped == [inserted EXCEPT !.step = "none"]
<1>1. \/ job' = [job EXCEPT ![j] = inserted]
      \/ job' = [job EXCEPT ![j] = dropped]
    BY Zenon DEF StartJob
<1>2. /\ inserted.kind = req[j].op /\ inserted.step = "begin"
      /\ req[j].op = "apply" => inserted.plan = req[j].plan
    OBVIOUS
<1>3. dropped.step = "none"
    OBVIOUS
<1> HIDE DEF inserted, dropped
<1>4. DOMAIN job = Requests
    BY DEF Jobs
<1> QED
    BY <1>1, <1>2, <1>3, <1>4 DEF Begins

LEMMA JobsFrom ==
    ASSUME StartInv, UpdateInv, [Next]_vars, NEW j \in Requests
    PROVE  \/ job'[j].step = "none" \/ job'[j] = job[j]
           \/ Begins(j) \/ Planned(j) \/ Applied(j)
<1>0. Jobs
    BY DEF UpdateInv
<1>1. ASSUME NEW q \in Requests, CheckSaves(q) \/ ApplySaves(q) \/ RebootAsks(q) \/ JobFails(q)
      PROVE  job'[j].step = "none" \/ job'[j] = job[j]
  <2>1. \E from : \E state : Finish(q, from, state)
      BY <1>1 DEF CheckSaves, ApplySaves, RebootAsks, JobFails
  <2> QED
      BY <1>0, <2>1, FinishEnds
<1>2. ASSUME NEW q \in Requests, CheckPlans(q) PROVE Planned(j) \/ job'[j] = job[j]
    BY <1>0, <1>2, PlansJob
<1>3. ASSUME NEW q \in Requests, ApplyUpdates(q) PROVE Applied(j) \/ job'[j] = job[j]
    BY <1>0, <1>3, AppliesJob
<1>4. ASSUME NEW q \in Requests, StartJob(q)
      PROVE  job'[j].step = "none" \/ Begins(j) \/ job'[j] = job[j]
    BY <1>0, <1>4, StartsJob
<1>5. ASSUME \/ \E q \in Requests :
                \/ Ask(q) \/ Lookup(q) \/ Store(q) \/ CreateUser(q) \/ LookForJobs(q) \/ NoteJob(q)
                \/ LookForBe(q) \/ ActOnBe(q) \/ Attach(q) \/ Detach(q) \/ UpgradeFails(q) \/ Drop(q)
             \/ Publish \/ Sweep \/ Tick \/ Migrate \/ FirstBoot \/ InsertAdmin \/ DestroyFile \/ LoadOrGenerate
             \/ WritePair \/ FirstBootFails \/ UNCHANGED vars
      PROVE  job'[j] = job[j]
    BY <1>5 DEF Ask, Lookup, Store, CreateUser, LookForJobs, NoteJob, LookForBe, ActOnBe, Attach,
       Detach, UpgradeFails, Drop, Publish, Sweep, Tick, Migrate, FirstBoot, InsertAdmin, DestroyFile,
       LoadOrGenerate, WritePair, FirstBootFails, vars
<1>6. CASE Recover
  <2>1. \/ job'[j] = job[j]
        \/ job'[j] = [NoJob EXCEPT !.kind = job[j].kind, !.state = "failed"]
      BY <1>6, Zenon DEF Recover
  <2> DEFINE u == [NoJob EXCEPT !.kind = job[j].kind]
             v == [u EXCEPT !.state = "failed"]
  <2>2. JobRecord(u) /\ u.step = "none"
      BY NoJobIs DEF JobRecord
  <2>3. [NoJob EXCEPT !.kind = job[j].kind, !.state = "failed"] = v
      BY Zenon
  <2> HIDE DEF u
  <2>4. v.step = "none"
      BY <2>2 DEF JobRecord
  <2> HIDE DEF v
  <2> QED
      BY <2>1, <2>3, <2>4
<1>7. CASE Dies
  <2> DEFINE v == [job[j] EXCEPT !.step = "none"]
  <2>1. job'[j] = v
      BY <1>7 DEF Dies
  <2>2. JobRecord(job[j])
      BY <1>0 DEF Jobs, JobOK
  <2>3. v.step = "none"
      BY <2>2 DEF JobRecord
  <2> QED
      BY <2>1, <2>3
<1> QED
    BY <1>1, <1>2, <1>3, <1>4, <1>5, <1>6, <1>7 DEF Next, Starting, Crash, HostReboots

LEMMA ApplyForgets ==
    ASSUME UpdateInv, NEW j \in Requests, ApplySaves(j) PROVE row'.plan = NoPlan
<1> DEFINE u == [row EXCEPT !.plan = NoPlan]
           v == [u EXCEPT !.applied = job[j].plan.be]
<1>1. row' = v
    BY Zenon DEF ApplySaves
<1>2. u = [plan |-> NoPlan, check |-> row.check, apply |-> row.apply, applied |-> row.applied]
    BY DEF UpdateInv, RowOK
<1> HIDE DEF u
<1> QED
    BY <1>1, <1>2

\* Only a check's end puts a plan into the row, and an apply's takes it out.
LEMMA RowPlanFrom ==
    ASSUME UpdateInv, [Next]_vars
    PROVE  \/ row'.plan = row.plan
           \/ \E j \in Requests : CheckSaves(j) /\ row'.plan = job[j].plan
           \/ \E j \in Requests : ApplySaves(j) /\ row'.plan = NoPlan
<1>1. ASSUME NEW j \in Requests, CheckSaves(j) PROVE row'.plan = job[j].plan
  <2>1. row' = [row EXCEPT !.plan = job[j].plan]
      BY <1>1, Zenon DEF CheckSaves
  <2> QED
      BY <2>1 DEF UpdateInv, RowOK
<1>2. ASSUME NEW j \in Requests, ApplySaves(j) PROVE row'.plan = NoPlan
    BY <1>2, ApplyForgets
<1>3. ASSUME NEW r \in Requests, NoteJob(r) PROVE row'.plan = row.plan
  <2> DEFINE u == [row EXCEPT !.apply = IF req[r].op = "apply" THEN r ELSE @]
             v == [u EXCEPT !.check = IF req[r].op = "check" THEN r ELSE @]
  <2>1. u = [plan |-> row.plan, check |-> row.check,
             apply |-> IF req[r].op = "apply" THEN r ELSE row.apply, applied |-> row.applied]
      BY DEF UpdateInv, RowOK
  <2>2. row' = v
      BY <1>3, Zenon DEF NoteJob, Recorded
  <2> HIDE DEF u
  <2> QED
      BY <2>1, <2>2
<1>4. ASSUME \/ \E q \in Requests :
                \/ Ask(q) \/ Lookup(q) \/ Store(q) \/ CreateUser(q) \/ LookForJobs(q) \/ StartJob(q)
                \/ CheckPlans(q) \/ ApplyUpdates(q) \/ RebootAsks(q) \/ JobFails(q)
                \/ LookForBe(q) \/ ActOnBe(q) \/ Attach(q) \/ Detach(q) \/ UpgradeFails(q) \/ Drop(q)
             \/ Publish \/ Sweep \/ Tick \/ Starting \/ FirstBootFails \/ Crash \/ HostReboots
             \/ UNCHANGED vars
      PROVE  row' = row
    BY <1>4 DEF Ask, Lookup, Store, CreateUser, LookForJobs, StartJob, CheckPlans, ApplyUpdates,
       RebootAsks, JobFails, LookForBe, ActOnBe, Attach, Detach, UpgradeFails, Drop, Publish,
       Sweep, Tick, Starting, Migrate, Recover, FirstBoot, InsertAdmin, DestroyFile, LoadOrGenerate, WritePair,
       FirstBootFails, Crash, HostReboots, Dies, vars
<1> QED
    BY <1>1, <1>2, <1>3, <1>4 DEF Next

-----------------------------------------------------------------------------
(* Boot environments: what one is stays, and where the new ones come from. *)

\* In table and in new, be is of the same image and maker.
Same(table, new, be) == new[be].image = table[be].image /\ new[be].by = table[be].by

LEMMA ActiveOnlySame ==
    ASSUME NEW table, BesAre(table), NEW be \in DOMAIN table, NEW b \in DOMAIN table
    PROVE  Same(table, ActiveOnly(table, be), b)
<1> DEFINE v == [table[b] EXCEPT !.active = b = be]
<1>1. ActiveOnly(table, be)[b] = v
    BY Zenon DEF ActiveOnly
<1>2. Be(table[b])
    BY DEF BesAre
<1>3. PICK is \in BOOLEAN : is = (b = be)
    OBVIOUS
<1>4. v = [table[b] EXCEPT !.active = is]
    BY <1>3, Zenon
<1> HIDE DEF v
<1>5. v.image = table[b].image /\ v.by = table[b].by
    BY <1>2, <1>4 DEF Be
<1> QED
    BY <1>1, <1>5 DEF Same

\* An update is of what is offered then, and a user's of what boots next.
LEMMA AppliedBe ==
    ASSUME BesInv, NEW j \in Requests, ApplyUpdates(j)
    PROVE  LET be == job[j].plan.be
           IN  /\ be \notin DOMAIN bes /\ DOMAIN bes' = DOMAIN bes \cup {be}
               /\ \A b \in DOMAIN bes : Same(bes, bes', b) /\ bes'[b].booted = bes[b].booted
               /\ bes'[be].image = offered /\ bes'[be].by = "apply" /\ bes'[be].booted = FALSE
<1> DEFINE be == job[j].plan.be
           v == [active |-> TRUE, booted |-> FALSE, image |-> offered, by |-> "apply"]
           table == With(bes, be, v)
<1>1. be \notin DOMAIN bes /\ bes' = ActiveOnly(table, be)
    BY DEF ApplyUpdates
<1>2. Be(v) /\ v.image = offered /\ v.by = "apply" /\ v.booted = FALSE
    BY DEF Be
<1> HIDE DEF v, be
<1>3. /\ DOMAIN table = DOMAIN bes \cup {be} /\ table[be] = v
      /\ \A b \in DOMAIN bes \ {be} : table[b] = bes[b]
    BY DEF With
<1> HIDE DEF table
<1>4. BesAre(table) /\ be \in DOMAIN table
    BY <1>2, <1>3 DEF BesInv, BesAre
<1>5. /\ DOMAIN bes' = DOMAIN table
      /\ \A b \in DOMAIN table : Same(table, bes', b) /\ bes'[b].booted = table[b].booted
    BY <1>1, <1>4, ActiveOnlyIs, ActiveOnlySame
<1> QED
    BY <1>1, <1>2, <1>3, <1>5 DEF Same, be

LEMMA ActedBe ==
    ASSUME BesInv, NEW r \in Requests, ActOnBe(r)
    PROVE  /\ \A b \in DOMAIN bes \cap DOMAIN bes' :
                 Same(bes, bes', b) /\ bes'[b].booted = bes[b].booted
           /\ \A b \in DOMAIN bes' \ DOMAIN bes :
                 /\ req[r].op = "create_be" /\ b = req[r].be /\ DOMAIN bes' = DOMAIN bes \cup {b}
                 /\ bes'[b].by = "user" /\ bes'[b].image = bes[Active].image
                 /\ bes'[b].booted = FALSE
           /\ \A b \in DOMAIN bes \ DOMAIN bes' : bes[b].booted # TRUE
           /\ DOMAIN bes' \subseteq DOMAIN bes \cup {req[r].be}
<1> DEFINE be == req[r].be
<1>1. CASE req[r].op = "create_be"
  <2> DEFINE v == [active |-> FALSE, booted |-> FALSE, image |-> bes[Active].image, by |-> "user"]
  <2>1. be \notin DOMAIN bes /\ bes' = With(bes, be, v)
      BY <1>1 DEF ActOnBe
  <2>2. v.by = "user" /\ v.image = bes[Active].image /\ v.booted = FALSE
      BY DEF Be
  <2> HIDE DEF v, be
  <2>3. /\ DOMAIN bes' = DOMAIN bes \cup {be} /\ bes'[be] = v
        /\ \A b \in DOMAIN bes \ {be} : bes'[b] = bes[b]
      BY <2>1 DEF With
  <2> QED
      BY <1>1, <2>1, <2>2, <2>3 DEF Same, be
<1>2. CASE req[r].op = "delete_be"
  <2>1. /\ be \in DOMAIN bes /\ ~bes[be].booted
        /\ bes' = [b \in DOMAIN bes \ {be} |-> bes[b]]
      BY <1>2 DEF ActOnBe
  <2>2. bes[be].booted # TRUE
      BY <2>1
  <2>3. DOMAIN bes' = DOMAIN bes \ {be} /\ \A b \in DOMAIN bes' : bes'[b] = bes[b]
      BY <2>1
  <2> QED
      BY <2>2, <2>3 DEF Same
<1>3. CASE req[r].op = "activate_be"
  <2>1. be \in DOMAIN bes /\ bes' = ActiveOnly(bes, be)
      BY <1>3 DEF ActOnBe
  <2>2. /\ DOMAIN bes' = DOMAIN bes
        /\ \A b \in DOMAIN bes : bes'[b].booted = bes[b].booted /\ Same(bes, bes', b)
      BY <2>1, ActiveOnlyIs, ActiveOnlySame DEF BesInv
  <2> QED
      BY <2>2
<1> QED
    BY <1>1, <1>2, <1>3 DEF ActOnBe, BeOps

LEMMA RebootSame ==
    ASSUME BesInv, HostReboots
    PROVE  DOMAIN bes' = DOMAIN bes /\ \A b \in DOMAIN bes : Same(bes, bes', b)
<1> DEFINE v(b) == [bes[b] EXCEPT !.booted = bes[b].active]
<1>1. bes' = [b \in DOMAIN bes |-> v(b)]
    BY Zenon DEF HostReboots
<1>2. ASSUME NEW b \in DOMAIN bes
      PROVE  v(b).image = bes[b].image /\ v(b).by = bes[b].by
    BY DEF BesInv, BesAre, Be
<1> HIDE DEF v
<1> QED
    BY <1>1, <1>2 DEF Same

\* Nothing but these does anything to them.
LEMMA BesFrom ==
    ASSUME [Next]_vars
    PROVE  \/ bes' = bes \/ HostReboots
           \/ \E r \in Requests : ApplyUpdates(r) \/ ActOnBe(r)
<1>1. ASSUME NEW r \in Requests,
             \/ Ask(r) \/ Lookup(r) \/ Store(r) \/ CreateUser(r)
             \/ LookForJobs(r) \/ StartJob(r) \/ NoteJob(r)
             \/ CheckPlans(r) \/ CheckSaves(r) \/ ApplySaves(r)
             \/ RebootAsks(r) \/ JobFails(r) \/ LookForBe(r)
             \/ Attach(r) \/ Detach(r) \/ UpgradeFails(r) \/ Drop(r)
      PROVE  bes' = bes
  <2>1. UNCHANGED HostState
      BY <1>1, Zenon DEF Ask, Lookup, Store, CreateUser, LookForJobs, StartJob, NoteJob,
         CheckPlans, CheckSaves, ApplySaves, RebootAsks, JobFails, LookForBe, Attach, Detach,
         UpgradeFails, Drop
  <2> QED
      BY <2>1 DEF HostState
<1>2. ASSUME Starting \/ FirstBootFails \/ Publish \/ Sweep \/ Tick \/ Crash \/ UNCHANGED vars
      PROVE  bes' = bes
  <2>1. CASE Starting \/ FirstBootFails
    <3>1. UNCHANGED HostState
        BY <2>1, Zenon DEF Starting, Migrate, Recover, FirstBoot, InsertAdmin, DestroyFile,
           LoadOrGenerate, WritePair, FirstBootFails
    <3> QED
        BY <3>1 DEF HostState
  <2>2. CASE Publish \/ Sweep \/ Tick \/ Crash \/ UNCHANGED vars
      BY <2>2 DEF Publish, Sweep, Tick, Crash, HostState, vars
  <2> QED
      BY <1>2, <2>1, <2>2
<1> QED
    BY <1>1, <1>2 DEF Next

\* The boot environment booted is the one that says so.
LEMMA BootedOne ==
    ASSUME NEW be, BootedIs(bes, be), BesInv PROVE Booted = be
<1>1. \A b \in DOMAIN bes : bes[b].booted <=> b = be
    BY DEF BootedIs, BesInv, BesAre, Be
<1>2. be \in DOMAIN bes
    BY DEF BootedIs
<1>3. Booted = CHOOSE b \in DOMAIN bes : bes[b].booted
    BY DEF Booted, Named
<1> QED
    BY <1>1, <1>2, <1>3

LEMMA BootedIn == ASSUME BesInv PROVE Booted \in DOMAIN bes /\ BootedIs(bes, Booted)
    BY BootedOne DEF BesInv

LEMMA ActiveIn == ASSUME BesInv PROVE Active \in DOMAIN bes
<1>1. PICK be \in DOMAIN bes : ActiveIs(bes, be)
    BY DEF BesInv
<1>2. \A b \in DOMAIN bes : bes[b].active <=> b = be
    BY <1>1 DEF ActiveIs, BesInv, BesAre, Be
<1>3. Active = CHOOSE b \in DOMAIN bes : bes[b].active
    BY DEF Active, Named
<1> QED
    BY <1>2, <1>3

\* While the host is up, it stays, and keeps its image.
LEMMA BootedStays ==
    ASSUME BesInv, [Next]_vars, ~HostReboots
    PROVE  Booted' = Booted /\ bes'[Booted'].image = bes[Booted].image
<1> DEFINE be == Booted
<1>0. BesInv' /\ be \in DOMAIN bes /\ BootedIs(bes, be)
    BY BesNext, BootedIn
<1> HIDE DEF be
<1>1. be \in DOMAIN bes' /\ BootedIs(bes', be) /\ bes'[be].image = bes[be].image
  <2>1. CASE bes' = bes
      BY <1>0, <2>1
  <2>2. ASSUME NEW j \in Requests, ApplyUpdates(j)
        PROVE  be \in DOMAIN bes' /\ BootedIs(bes', be) /\ bes'[be].image = bes[be].image
    <3> DEFINE n == job[j].plan.be
    <3>1. /\ n \notin DOMAIN bes /\ DOMAIN bes' = DOMAIN bes \cup {n}
          /\ \A b \in DOMAIN bes : Same(bes, bes', b) /\ bes'[b].booted = bes[b].booted
          /\ bes'[n].booted = FALSE
        BY <2>2, AppliedBe
    <3> HIDE DEF n
    <3> QED
        BY <1>0, <3>1 DEF BootedIs, Same
  <2>3. ASSUME NEW r \in Requests, ActOnBe(r)
        PROVE  be \in DOMAIN bes' /\ BootedIs(bes', be) /\ bes'[be].image = bes[be].image
    <3>1. be \in DOMAIN bes'
        BY <1>0, <2>3, ActedBe DEF BootedIs
    <3> QED
        BY <1>0, <2>3, <3>1, ActedBe DEF BootedIs, Same
  <2> QED
      BY <2>1, <2>2, <2>3, BesFrom
<1>2. Booted' = be
  <2>1. \A b \in DOMAIN bes' : bes'[b].booted <=> b = be
      BY <1>0, <1>1 DEF BootedIs, BesInv, BesAre, Be
  <2>2. Booted' = CHOOSE b \in DOMAIN bes' : bes'[b].booted
      BY DEF Booted, Named
  <2> QED
      BY <1>1, <2>1, <2>2
<1> QED
    BY <1>1, <1>2 DEF be

-----------------------------------------------------------------------------
(* Plans, from the check that makes one to the apply that carries it out.  *)

Saving(j, kind) == job[j].kind = kind /\ job[j].step = "save"

\* Who may still make a boot environment.
Makers == {r \in Requests : req[r].stage \in Early \/ job[r].step = "begin"}

BesKept == /\ offered \in Images /\ NoBe \notin DOMAIN bes
           /\ \A b \in DOMAIN bes : bes[b].image \in Images

\* Tasks run in a daemon that serves, and each after its handler.
Quiet == up # "up" => \A j \in Requests : job[j].step = "none"
Later == \A r \in Requests : req[r].stage \in Early => job[r].step = "none"

\* There are no more boot environments than there have been requests to make one.
Room == /\ IsFiniteSet(DOMAIN bes)
        /\ Cardinality(DOMAIN bes) + Cardinality(Makers) <= MaxRequests + 1

\* Without a boot environment it is no plan, and an apply starts with one.
Good(plan) == plan.be = NoBe => plan = NoPlan
Plans ==
    /\ Good(row.plan)
    /\ \A r \in Requests :
          /\ req[r].op = "create_be" /\ Works(r) => req[r].be # NoBe
          /\ req[r].op = "apply" /\ req[r].stage = "start" => req[r].plan.be # NoBe
          /\ job[r].kind = "apply" /\ job[r].step = "begin" => job[r].plan.be # NoBe
          /\ Saving(r, "check") => Good(job[r].plan)

\* What a check found is of the image booted and of one offered since.
SavedPlans ==
    \A j \in Requests : Saving(j, "check") =>
       \E to \in Images : /\ NamesOf(job[j].plan.packages) = Differing(bes[Booted].image, to)
                          /\ to \in {offered, Current}

\* What a plan names is not there, but for an apply that has just made it.
Free ==
    Calm =>
       /\ row.plan.be \in DOMAIN bes /\ bes[row.plan.be].by # "user" =>
             \E j \in Requests : Saving(j, "apply")
       /\ \A j \in Requests : Saving(j, "check") /\ job[j].plan.be \in DOMAIN bes =>
             bes[job[j].plan.be].by = "user"

PlanInv == BesKept /\ Quiet /\ Later /\ Plans /\ SavedPlans /\ Free

\* A check under way finds a name that is left.
NamesLeft ==
    /\ IsFiniteSet(DOMAIN bes)
    /\ \A j \in Requests : job[j].kind = "check" /\ job[j].step = "begin" =>
          Cardinality(DOMAIN bes) < MaxTaken

LEMMA NoBeIs == NoBe = <<0, 0>> /\ NoPlan.be = NoBe /\ NoPlan.packages = << >>
BY DEF NoBe, None, NoPlan

LEMMA NoBeNamed == ASSUME NEW v, NEW n, n # 0 PROVE <<v, n>> # NoBe
BY NoBeIs

\* The number of requests is what bounds them.
LEMMA RequestsFinite == IsFiniteSet(Requests) /\ Cardinality(Requests) = MaxRequests
<1>1. MaxRequests \in Nat
    BY DaemonAssumption
<1> QED
    BY <1>1, FS_Interval DEF Requests

\* As long as a name is left, the plan has one that is not taken.
LEMMA NameLeft ==
    ASSUME NEW S, IsFiniteSet(S), Cardinality(S) < MaxTaken, NEW v
    PROVE  \E n \in 1 .. MaxTaken : <<v, n>> \notin S
<1> SUFFICES ASSUME \A n \in 1 .. MaxTaken : <<v, n>> \in S PROVE FALSE
    OBVIOUS
<1>1. MaxTaken \in Nat
    BY DaemonAssumption
<1>2. IsFiniteSet(1 .. MaxTaken) /\ Cardinality(1 .. MaxTaken) = MaxTaken
    BY <1>1, FS_Interval
<1> DEFINE f == [n \in 1 .. MaxTaken |-> <<v, n>>]
<1>3. f \in Injection(1 .. MaxTaken, S)
    BY DEF Injection, IsInjective
<1>4. Cardinality(1 .. MaxTaken) <= Cardinality(S)
    BY <1>3, FS_Injection
<1>5. Cardinality(S) \in Nat
    BY FS_CardinalityType
<1> QED
    BY <1>1, <1>2, <1>4, <1>5

LEMMA MinIn == ASSUME NEW S \in SUBSET Nat, S # {} PROVE Min(S) \in S
<1> DEFINE R == {ss \in Nat \X Nat : ss[1] < ss[2]}
<1>1. IsWellFoundedOn(R, Nat)
    BY NatLessThanWellFounded DEF OpToRel
<1>2. PICK x \in S : \A y \in S : <<y, x>> \notin R
    BY <1>1, WFMin
<1>3. \A y \in S : x <= y
  <2>1. \A y \in S : ~(y < x)
      BY <1>2
  <2> QED
      BY <2>1
<1> QED
    BY <1>3 DEF Min

LEMMA NameFree ==
    ASSUME NEW packages, NEW S, IsFiniteSet(S), Cardinality(S) < MaxTaken
    PROVE  BeName(packages, S) \notin S /\ \E n \in Nat \ {0} : BeName(packages, S) = <<MandrakeVersion(packages), n>>
<1> DEFINE v == MandrakeVersion(packages)
           free == {n \in 1 .. MaxTaken : <<v, n>> \notin S}
<1>1. free # {}
    BY NameLeft
<1>2. free \in SUBSET Nat
    OBVIOUS
<1>3. BeName(packages, S) = <<v, IF free = {} THEN 1 ELSE Min(free)>>
    BY Zenon DEF BeName
<1>4. Min(free) \in free
    BY <1>1, <1>2, MinIn
<1>5. BeName(packages, S) = <<v, Min(free)>>
    BY <1>1, <1>3
<1> DEFINE n == Min(free)
<1>6. n \in Nat \ {0} /\ <<v, n>> \notin S
    BY <1>4
<1> HIDE DEF free, n
<1>7. BeName(packages, S) = <<v, n>>
    BY <1>5 DEF n
<1> QED
    BY <1>6, <1>7

LEMMA OfferedFrom == ASSUME [Next]_vars PROVE offered' = offered \/ Publish
<1>1. ASSUME NEW r \in Requests,
             \/ Ask(r) \/ Lookup(r) \/ Store(r) \/ CreateUser(r)
             \/ LookForJobs(r) \/ StartJob(r) \/ NoteJob(r)
             \/ CheckPlans(r) \/ CheckSaves(r) \/ ApplyUpdates(r) \/ ApplySaves(r)
             \/ RebootAsks(r) \/ JobFails(r) \/ LookForBe(r) \/ ActOnBe(r)
             \/ Attach(r) \/ Detach(r) \/ UpgradeFails(r) \/ Drop(r)
      PROVE  offered' = offered
    BY <1>1, Zenon DEF Ask, Lookup, Store, CreateUser, LookForJobs, StartJob, NoteJob, CheckPlans,
       CheckSaves, ApplyUpdates, ApplySaves, RebootAsks, JobFails, LookForBe, ActOnBe, Attach,
       Detach, UpgradeFails, Drop, HostState
<1>2. ASSUME \/ Starting \/ FirstBootFails \/ Sweep \/ Tick \/ Crash \/ HostReboots
             \/ UNCHANGED vars
      PROVE  offered' = offered
    BY <1>2, Zenon DEF Sweep, Tick, Starting, Migrate, Recover, FirstBoot, InsertAdmin, DestroyFile,
       LoadOrGenerate, WritePair, FirstBootFails, HostState, Crash, HostReboots, Dies, vars
<1> QED
    BY <1>1, <1>2 DEF Next

\* The plan a check makes: what differs, in a boot environment that is not there.
LEMMA NewPlan ==
    ASSUME BesInv, BesKept, IsFiniteSet(DOMAIN bes), Cardinality(DOMAIN bes) < MaxTaken
    PROVE  /\ PlanMade.be \notin DOMAIN bes /\ Good(PlanMade)
           /\ NamesOf(PlanMade.packages) = Differing(bes[Booted].image, offered)
<1> DEFINE from == bes[Booted].image
           packages == ParseDryRun(Printed(from, offered)).packages
           be == BeName(packages, DOMAIN bes)
<1>1. from \in 0 .. 2 /\ offered \in 0 .. 2
    BY BootedIn, DaemonAssumption DEF BesKept
<1>2. NamesOf(packages) = Differing(from, offered)
    BY <1>1, PlanNames
<1>3. PlanMade = IF packages = << >> THEN NoPlan ELSE [be |-> be, packages |-> packages]
    BY Zenon DEF PlanMade, PlanOf
<1> HIDE DEF from, packages
<1>5. be \notin DOMAIN bes /\ be # NoBe
    BY NameFree, NoBeNamed
<1>6. NoBe \notin DOMAIN bes
    BY DEF BesKept
<1> HIDE DEF be
<1>7. CASE packages = << >>
    BY <1>2, <1>3, <1>6, <1>7, NoBeIs DEF Good, from
<1>8. CASE packages # << >>
    BY <1>2, <1>3, <1>5, <1>8 DEF Good, from
<1> QED
    BY <1>7, <1>8

LEMMA DiesIdle == ASSUME Jobs, Dies, NEW j \in Requests PROVE job'[j].step = "none"
<1> DEFINE v == [job[j] EXCEPT !.step = "none"]
<1>1. job'[j] = v
    BY DEF Dies
<1>2. JobRecord(job[j])
    BY DEF Jobs, JobOK
<1>3. v.step = "none"
    BY <1>2 DEF JobRecord
<1> QED
    BY <1>1, <1>3

LEMMA UpUntilDies ==
    ASSUME StartInv, [Next]_vars, up = "up", ~Dies PROVE up' = "up"
<1>1. ASSUME NEW r \in Requests,
             \/ Ask(r) \/ Lookup(r) \/ Store(r) \/ CreateUser(r)
             \/ LookForJobs(r) \/ StartJob(r) \/ NoteJob(r)
             \/ CheckPlans(r) \/ CheckSaves(r) \/ ApplyUpdates(r) \/ ApplySaves(r)
             \/ RebootAsks(r) \/ JobFails(r) \/ LookForBe(r) \/ ActOnBe(r)
             \/ Attach(r) \/ Detach(r) \/ UpgradeFails(r) \/ Drop(r)
      PROVE  up' = up
    BY <1>1, Zenon DEF Ask, Lookup, Store, CreateUser, LookForJobs, StartJob, NoteJob, CheckPlans,
       CheckSaves, ApplyUpdates, ApplySaves, RebootAsks, JobFails, LookForBe, ActOnBe, Attach,
       Detach, UpgradeFails, Drop, StartState
<1>2. ASSUME Publish \/ Sweep \/ Tick \/ UNCHANGED vars PROVE up' = up
    BY <1>2 DEF Publish, Sweep, Tick, StartState, vars
<1>3. ~Starting /\ ~FirstBootFails
    BY DEF Starting, Migrate, Recover, FirstBoot, InsertAdmin, DestroyFile, LoadOrGenerate,
       WritePair, FirstBootFails
<1> QED
    BY <1>1, <1>2, <1>3 DEF Next, Crash, HostReboots

LEMMA QuietNext == ASSUME StartInv, UpdateInv, Quiet, [Next]_vars PROVE Quiet'
<1> SUFFICES ASSUME up' # "up", NEW j \in Requests, job'[j].step # "none" PROVE FALSE
    BY DEF Quiet
<1>1. ~Dies
    BY DiesIdle DEF UpdateInv
<1>2. up # "up"
    BY <1>1, UpUntilDies
<1>3. job[j].step = "none"
    BY <1>2 DEF Quiet
<1>4. ~StartJob(j)
    BY <1>2 DEF StartInv, Served, StartJob, At, Works, Working
<1>5. ~CheckPlans(j) /\ ~ApplyUpdates(j)
    BY <1>2 DEF CheckPlans, ApplyUpdates, Step
<1> QED
    BY <1>3, <1>4, <1>5, JobsFrom DEF Begins, Planned, Applied

LEMMA StartLeaves ==
    ASSUME StartInv, NEW r \in Requests, StartJob(r) PROVE req'[r].stage \notin Early
<1>1. \E to \in {"note", "store", "over"} : Moved(r, to)
    BY StartJobStep DEF WorkStep, AnswerStep
<1> QED
    BY <1>1 DEF Moved, Early

LEMMA LaterNext == ASSUME StartInv, UpdateInv, Later, [Next]_vars PROVE Later'
<1> SUFFICES ASSUME NEW r \in Requests, req'[r].stage \in Early PROVE job'[r].step = "none"
    BY DEF Later
<1>1. job[r].step = "none"
    BY EarlyFrom DEF Later
<1>2. ~StartJob(r)
    BY StartLeaves
<1> QED
    BY <1>1, <1>2, JobsFrom DEF Begins, Planned, Applied

LEMMA MakersShrink == ASSUME StartInv, UpdateInv, [Next]_vars PROVE Makers' \subseteq Makers
<1> SUFFICES ASSUME NEW r \in Requests, req'[r].stage \in Early \/ job'[r].step = "begin"
             PROVE  req[r].stage \in Early \/ job[r].step = "begin"
    BY DEF Makers
<1>1. ASSUME Begins(r) PROVE req[r].stage \in Early
    BY <1>1 DEF Begins, StartJob, At, Early
<1> QED
    BY <1>1, EarlyFrom, JobsFrom DEF Planned, Applied

\* One that may be there more is there for one who may make it less.
LEMMA OneMore ==
    ASSUME Room, NEW r \in Makers, NEW be, DOMAIN bes' \subseteq DOMAIN bes \cup {be},
           Makers' \subseteq Makers \ {r}
    PROVE  Room'
<1>1. IsFiniteSet(Makers) /\ IsFiniteSet(DOMAIN bes) /\ IsFiniteSet(DOMAIN bes \cup {be})
    BY RequestsFinite, FS_Subset, FS_AddElement DEF Makers, Room
<1>2. Cardinality(DOMAIN bes \cup {be}) <= Cardinality(DOMAIN bes) + 1
    BY <1>1, FS_AddElement, FS_CardinalityType
<1>3. IsFiniteSet(DOMAIN bes') /\ Cardinality(DOMAIN bes') <= Cardinality(DOMAIN bes \cup {be})
    BY <1>1, FS_Subset
<1>4. IsFiniteSet(Makers \ {r}) /\ Cardinality(Makers \ {r}) = Cardinality(Makers) - 1
    BY <1>1, FS_RemoveElement
<1>5. IsFiniteSet(Makers') /\ Cardinality(Makers') <= Cardinality(Makers \ {r})
    BY <1>4, FS_Subset
<1>6. /\ Cardinality(Makers) \in Nat /\ Cardinality(DOMAIN bes) \in Nat
      /\ Cardinality(DOMAIN bes \cup {be}) \in Nat /\ Cardinality(DOMAIN bes') \in Nat
      /\ Cardinality(Makers \ {r}) \in Nat /\ Cardinality(Makers') \in Nat
    BY <1>1, <1>3, <1>4, <1>5, FS_CardinalityType
<1>7. MaxRequests \in Nat /\ Cardinality(DOMAIN bes) + Cardinality(Makers) <= MaxRequests + 1
    BY DaemonAssumption DEF Room
<1>8. Cardinality(DOMAIN bes') + Cardinality(Makers') <= MaxRequests + 1
    BY <1>2, <1>3, <1>4, <1>5, <1>6, <1>7
<1> QED
    BY <1>3, <1>8 DEF Room

LEMMA RoomNext == ASSUME StartInv, UpdateInv, BesInv, Later, Room, [Next]_vars PROVE Room'
<1>1. CASE DOMAIN bes' = DOMAIN bes
  <2>1. IsFiniteSet(Makers) /\ IsFiniteSet(Makers') /\ Cardinality(Makers') <= Cardinality(Makers)
      BY MakersShrink, RequestsFinite, FS_Subset DEF Makers
  <2>2. /\ Cardinality(Makers) \in Nat /\ Cardinality(Makers') \in Nat
        /\ Cardinality(DOMAIN bes) \in Nat /\ MaxRequests \in Nat
      BY <2>1, FS_CardinalityType, DaemonAssumption DEF Room
  <2> QED
      BY <1>1, <2>1, <2>2 DEF Room
<1>2. ASSUME NEW j \in Requests, ApplyUpdates(j) PROVE Room'
  <2>1. DOMAIN bes' \subseteq DOMAIN bes \cup {job[j].plan.be}
      BY <1>2, AppliedBe
  <2>2. Applied(j) /\ req' = req
      BY <1>2, AppliesJob DEF UpdateInv, ApplyUpdates
  <2>3. j \in Makers /\ j \notin Makers'
      BY <2>2 DEF Applied, Makers, Later
  <2> QED
      BY <2>1, <2>3, MakersShrink, OneMore
<1>3. ASSUME NEW r \in Requests, ActOnBe(r) PROVE Room'
  <2>1. DOMAIN bes' \subseteq DOMAIN bes \cup {req[r].be}
      BY <1>3, ActedBe
  <2>2. req[r].stage = "act" /\ job' = job /\ req'[r].stage = "over"
      BY <1>3, OverMoves DEF ActOnBe, At, StartInv, Moved
  <2>3. job[r].step = "none"
      BY <2>2 DEF Later, Early
  <2>4. r \in Makers /\ r \notin Makers'
      BY <2>2, <2>3 DEF Makers, Early
  <2> QED
      BY <2>1, <2>4, MakersShrink, OneMore
<1>4. CASE HostReboots
    BY <1>1, <1>4, RebootSame
<1>5. CASE bes' = bes
    BY <1>1, <1>5
<1> QED
    BY <1>2, <1>3, <1>4, <1>5, BesFrom

LEMMA KeptNext == ASSUME BesInv, BesKept, Plans, [Next]_vars PROVE BesKept'
<1>1. offered' \in Images
    BY OfferedFrom DEF BesKept, Publish
<1>2. ASSUME DOMAIN bes' \subseteq DOMAIN bes, \A b \in DOMAIN bes' : Same(bes, bes', b)
      PROVE  BesKept'
    BY <1>1, <1>2 DEF BesKept, Same
<1>3. ASSUME NEW j \in Requests, ApplyUpdates(j) PROVE BesKept'
  <2> DEFINE n == job[j].plan.be
  <2>1. /\ DOMAIN bes' = DOMAIN bes \cup {n}
        /\ \A b \in DOMAIN bes : Same(bes, bes', b)
        /\ bes'[n].image = offered
      BY <1>3, AppliedBe
  <2>2. n # NoBe
      BY <1>3 DEF Plans, ApplyUpdates, Step
  <2> HIDE DEF n
  <2> QED
      BY <1>1, <2>1, <2>2 DEF BesKept, Same
<1>4. ASSUME NEW r \in Requests, ActOnBe(r) PROVE BesKept'
  <2>1. ASSUME NEW b \in DOMAIN bes' \ DOMAIN bes
        PROVE  DOMAIN bes' = DOMAIN bes \cup {b} /\ b # NoBe /\ bes'[b].image \in Images
    <3>1. /\ req[r].op = "create_be" /\ b = req[r].be /\ DOMAIN bes' = DOMAIN bes \cup {b}
          /\ bes'[b].image = bes[Active].image
        BY <1>4, ActedBe
    <3>2. b # NoBe
        BY <1>4, <3>1 DEF Plans, ActOnBe, At, Works, Working
    <3> QED
        BY <3>1, <3>2, ActiveIn DEF BesKept
  <2>2. \A b \in DOMAIN bes \cap DOMAIN bes' : Same(bes, bes', b)
      BY <1>4, ActedBe
  <2> QED
      BY <1>1, <2>1, <2>2 DEF BesKept, Same
<1>5. CASE HostReboots
    BY <1>2, <1>5, RebootSame
<1>6. CASE bes' = bes
    BY <1>2, <1>6 DEF Same
<1> QED
    BY <1>3, <1>4, <1>5, <1>6, BesFrom

\* Who is in its handler was, or has just asked.
LEMMA WorksFrom ==
    ASSUME StartInv, [Next]_vars, NEW r \in Requests, Works(r)' PROVE Works(r) \/ Ask(r)
<1>1. ASSUME NEW q \in Requests, \/ Lookup(q) \/ Store(q) \/ CreateUser(q) \/ LookForJobs(q)
             \/ StartJob(q) \/ NoteJob(q) \/ LookForBe(q) \/ ActOnBe(q) \/ Drop(q)
      PROVE  Works(r)
  <2>1. \E to : WorkStep(q, to)
      BY <1>1, LookupStep, StoreStep, CreateUserStep, LookForJobsStep, StartJobStep,
         NoteJobStep, LookForBeStep, ActOnBeStep, DropStep DEF AnswerStep
  <2> QED
      BY <2>1 DEF WorkStep, Moved, Works
<1>2. ASSUME NEW q \in Requests, Ask(q), q # r PROVE Works(r)
    BY <1>2, AskPuts DEF Asked, StartInv, Works
<1>3. ASSUME NEW q \in Requests, Attach(q) \/ Detach(q) \/ UpgradeFails(q) PROVE Works(r)
  <2>1. Moved(q, "attached") \/ Moved(q, "over")
      BY <1>3, GotoMoves, OverMoves DEF Attach, Detach, UpgradeFails, StartInv
  <2> QED
      BY <2>1 DEF Moved, Works, Working
<1>4. CASE req' = req
    BY <1>4 DEF Works
<1>5. ASSUME \/ Publish \/ Sweep \/ Tick \/ Starting \/ FirstBootFails \/ UNCHANGED vars
             \/ \E q \in Requests : \/ CheckPlans(q) \/ CheckSaves(q) \/ ApplyUpdates(q)
                                    \/ ApplySaves(q) \/ RebootAsks(q) \/ JobFails(q)
      PROVE  req' = req
    BY <1>5 DEF CheckPlans, CheckSaves, ApplyUpdates, ApplySaves, RebootAsks, JobFails, Publish,
       Sweep, Tick, Starting, Migrate, Recover, FirstBoot, InsertAdmin, DestroyFile, LoadOrGenerate, WritePair,
       FirstBootFails, vars
<1>6. ~Dies
    BY DiesEnds DEF StartInv, Ended, Works, Working
<1> QED
    BY <1>1, <1>2, <1>3, <1>4, <1>5, <1>6 DEF Next, Crash, HostReboots

\* Who looks and may start takes the row's plan with it.
LEMMA LookTakes ==
    ASSUME StartInv, NEW r \in Requests, LookForJobs(r), req'[r].stage = "start"
    PROVE  MayStart(req[r].op) /\ req'[r].op = req[r].op /\ req'[r].plan = row.plan
<1>1. CASE MayStart(req[r].op)
  <2> DEFINE u == [req[r] EXCEPT !.stage = "start"]
             v == [u EXCEPT !.plan = row.plan]
  <2>1. Request(req[r]) /\ r \in DOMAIN req
      BY DEF StartInv, Reqs, Shape, Request
  <2>2. Request(u) /\ u.op = req[r].op
      BY <2>1 DEF Request
  <2>3. req' = [req EXCEPT ![r].stage = "start", ![r].plan = row.plan]
      BY <1>1 DEF LookForJobs
  <2>4. req' = [req EXCEPT ![r] = v]
      BY <2>1, <2>3, Zenon
  <2> HIDE DEF u
  <2>5. v.op = req[r].op /\ v.plan = row.plan
      BY <2>2 DEF Request
  <2> HIDE DEF v
  <2> QED
      BY <1>1, <2>1, <2>4, <2>5
<1>2. CASE ~MayStart(req[r].op)
  <2>1. Answer(r)
      BY <1>2 DEF LookForJobs
  <2> QED
      BY <2>1, AnswerMoves DEF StartInv, Moved
<1> QED
    BY <1>1, <1>2

LEMMA StartFrom ==
    ASSUME StartInv, [Next]_vars, NEW r \in Requests, req'[r].stage = "start"
    PROVE  req'[r] = req[r] \/ LookForJobs(r)
<1>1. ASSUME NEW q \in Requests, \/ Lookup(q) \/ Store(q) \/ CreateUser(q)
             \/ StartJob(q) \/ NoteJob(q) \/ LookForBe(q) \/ ActOnBe(q) \/ Drop(q)
      PROVE  req'[r] = req[r]
  <2>1. \E to : Moved(q, to) /\ to # "start"
      BY <1>1, LookupStep, StoreStep, CreateUserStep, StartJobStep,
         NoteJobStep, LookForBeStep, ActOnBeStep, DropStep DEF WorkStep, AnswerStep
  <2> QED
      BY <2>1 DEF Moved
<1>2. ASSUME NEW q \in Requests, Ask(q) PROVE req'[r] = req[r]
    BY <1>2, AskPuts DEF Asked, StartInv
<1>3. ASSUME NEW q \in Requests, LookForJobs(q), q # r PROVE req'[r] = req[r]
    BY <1>3, LookForJobsStep DEF WorkStep, AnswerStep, Moved
<1>4. ASSUME NEW q \in Requests, Attach(q) \/ Detach(q) \/ UpgradeFails(q)
      PROVE  req'[r] = req[r]
  <2>1. Moved(q, "attached") \/ Moved(q, "over")
      BY <1>4, GotoMoves, OverMoves DEF Attach, Detach, UpgradeFails, StartInv
  <2> QED
      BY <2>1 DEF Moved
<1>5. ASSUME \/ Publish \/ Sweep \/ Tick \/ Starting \/ FirstBootFails \/ UNCHANGED vars
             \/ \E q \in Requests : \/ CheckPlans(q) \/ CheckSaves(q) \/ ApplyUpdates(q)
                                    \/ ApplySaves(q) \/ RebootAsks(q) \/ JobFails(q)
      PROVE  req' = req
    BY <1>5 DEF CheckPlans, CheckSaves, ApplyUpdates, ApplySaves, RebootAsks, JobFails, Publish,
       Sweep, Tick, Starting, Migrate, Recover, FirstBoot, InsertAdmin, DestroyFile, LoadOrGenerate, WritePair,
       FirstBootFails, vars
<1>6. ~Dies
    BY DiesEnds DEF StartInv, Ended
<1> QED
    BY <1>1, <1>2, <1>3, <1>4, <1>5, <1>6 DEF Next, Crash, HostReboots

\* Who asks for a new boot environment names it.
LEMMA AskNames ==
    ASSUME StartInv, BesKept, NEW r \in Requests, Ask(r), req'[r].op = "create_be"
    PROVE  req'[r].be # NoBe
<1>1. PICK op \in Asks[r] : \E be \in BeInputs(op) :
         \E key : \E stage : req' = [req EXCEPT ![r] = [op |-> op, key |-> key, be |-> be,
                                                        plan |-> NoPlan, stage |-> stage]]
    BY Zenon DEF Ask
<1>2. PICK be \in BeInputs(op) : req'[r].op = op /\ req'[r].be = be
    BY <1>1 DEF StartInv, Reqs, Shape
<1>3. PICK i \in Images \ {Current} : be = <<i, 1>>
    BY <1>2 DEF BeInputs
<1> QED
    BY <1>2, <1>3, NoBeNamed, DaemonAssumption

\* While a request may still make one, a name is left.
LEMMA RoomLeft == ASSUME MaxRequests < MaxTaken, Room PROVE NamesLeft
<1>1. IsFiniteSet(Makers) /\ IsFiniteSet(DOMAIN bes)
    BY RequestsFinite, FS_Subset DEF Makers, Room
<1>2. ASSUME NEW r \in Makers PROVE Cardinality(DOMAIN bes) < MaxTaken
  <2>1. Cardinality(Makers) \in Nat /\ Cardinality(DOMAIN bes) \in Nat /\ Cardinality(Makers) # 0
      BY <1>1, <1>2, FS_CardinalityType, FS_EmptySet
  <2>2. MaxRequests \in Nat /\ MaxTaken \in Nat
      BY DaemonAssumption
  <2> QED
      BY <2>1, <2>2 DEF Room
<1> QED
    BY <1>1, <1>2 DEF NamesLeft, Makers

LEMMA PlansNext ==
    ASSUME StartInv, UpdateInv, BesInv, BesKept, Plans, NamesLeft, [Next]_vars
    PROVE  Plans'
<1>1. Good(row.plan)'
  <2>1. ASSUME NEW j \in Requests, CheckSaves(j) PROVE Good(job[j].plan)
      BY <2>1 DEF CheckSaves, Finish, Plans, Saving
  <2> QED
      BY <2>1, RowPlanFrom DEF Plans, Good
<1>2. ASSUME NEW r \in Requests, req'[r].op = "create_be", Works(r)' PROVE req'[r].be # NoBe
  <2>1. CASE Ask(r)
      BY <1>2, <2>1, AskNames
  <2>2. CASE SameAsk(r)
      BY <1>2, <2>1, <2>2, WorksFrom DEF SameAsk, Plans
  <2>3. ASSUME LookForJobs(r), req'[r].op = req[r].op PROVE FALSE
      BY <1>2, <2>3 DEF LookForJobs, JobOps, UpdateOps
  <2> QED
      BY <1>2, <2>1, <2>2, <2>3, AskedFrom DEF Works, Working
<1>3. ASSUME NEW r \in Requests, req'[r].op = "apply", req'[r].stage = "start"
      PROVE  req'[r].plan.be # NoBe
  <2>1. CASE req'[r] = req[r]
      BY <1>3, <2>1 DEF Plans
  <2>2. CASE LookForJobs(r)
    <3>1. row.plan # NoPlan /\ req'[r].plan = row.plan
        BY <1>3, <2>2, LookTakes DEF MayStart
    <3> QED
        BY <3>1 DEF Plans, Good
  <2> QED
      BY <1>3, <2>1, <2>2, StartFrom
<1>4. ASSUME NEW r \in Requests, job'[r].kind = "apply", job'[r].step = "begin"
      PROVE  job'[r].plan.be # NoBe
  <2>1. CASE job'[r] = job[r]
      BY <1>4, <2>1 DEF Plans
  <2>2. CASE Begins(r)
      BY <1>4, <2>2 DEF Begins, StartJob, At, Plans
  <2> QED
      BY <1>4, <2>1, <2>2, JobsFrom DEF Planned, Applied
<1>5. ASSUME NEW r \in Requests, job'[r].kind = "check", job'[r].step = "save"
      PROVE  Good(job'[r].plan)
  <2>1. CASE job'[r] = job[r]
      BY <1>5, <2>1 DEF Plans, Saving
  <2>2. CASE Planned(r)
    <3>1. IsFiniteSet(DOMAIN bes) /\ Cardinality(DOMAIN bes) < MaxTaken
        BY <2>2 DEF Planned, NamesLeft
    <3> QED
        BY <2>2, <3>1, NewPlan DEF Planned
  <2> QED
      BY <1>5, <2>1, <2>2, JobsFrom DEF Begins, Applied
<1> QED
    BY <1>1, <1>2, <1>3, <1>4, <1>5 DEF Plans, Saving, Good

LEMMA SavedNext ==
    ASSUME StartInv, UpdateInv, BesInv, BesKept, SavedPlans, NamesLeft, [Next]_vars
    PROVE  SavedPlans'
<1> SUFFICES ASSUME NEW j \in Requests, job'[j].kind = "check", job'[j].step = "save"
             PROVE  \E to \in Images :
                       /\ NamesOf(job'[j].plan.packages) = Differing(bes'[Booted'].image, to)
                       /\ to \in {offered', Current}
    BY DEF SavedPlans, Saving, NamesOf
<1>1. ~HostReboots
    BY DiesIdle DEF HostReboots, UpdateInv
<1>2. bes'[Booted'].image = bes[Booted].image
    BY <1>1, BootedStays
<1>3. CASE job'[j] = job[j]
  <2>1. PICK to \in Images : /\ NamesOf(job[j].plan.packages) = Differing(bes[Booted].image, to)
                             /\ to \in {offered, Current}
      BY <1>3 DEF SavedPlans, Saving
  <2>2. to \in {offered', Current}
      BY <2>1, OfferedFrom DEF Publish
  <2> QED
      BY <1>2, <1>3, <2>1, <2>2
<1>4. CASE Planned(j)
  <2>2. IsFiniteSet(DOMAIN bes) /\ Cardinality(DOMAIN bes) < MaxTaken
      BY <1>4 DEF Planned, NamesLeft
  <2>3. NamesOf(PlanMade.packages) = Differing(bes[Booted].image, offered)
      BY <2>2, NewPlan
  <2>4. job'[j].plan = PlanMade /\ offered' = offered /\ offered \in Images
      BY <1>4 DEF Planned, CheckPlans, HostState, BesKept
  <2> QED
      BY <1>2, <2>3, <2>4
<1> QED
    BY <1>3, <1>4, JobsFrom DEF Begins, Applied

\* Who made a boot environment that is there: an update that has just done it, or it was
\* there, or a user.
LEMMA ByFrom ==
    ASSUME BesInv, [Next]_vars, NEW b \in DOMAIN bes', bes'[b].by # "user"
    PROVE  \/ b \in DOMAIN bes /\ bes[b].by = bes'[b].by
           \/ \E j \in Requests : ApplyUpdates(j)
<1>1. ASSUME NEW r \in Requests, ActOnBe(r) PROVE b \in DOMAIN bes /\ bes[b].by = bes'[b].by
  <2>1. b \in DOMAIN bes
      BY <1>1, ActedBe
  <2> QED
      BY <1>1, <2>1, ActedBe DEF Same
<1>2. CASE HostReboots
    BY <1>2, RebootSame DEF Same
<1> QED
    BY <1>1, <1>2, BesFrom

LEMMA SavingUnder ==
    ASSUME Jobs, NEW j \in Requests, job[j].kind \in UpdateOps, job[j].step # "none"
    PROVE  Under(j)
<1>1. j # None
    BY DEF Requests, None
<1> QED
    BY <1>1 DEF Jobs, JobOK, Under, Unfinished

\* An apply that has made its boot environment still has the row to write, if nothing fails.
LEMMA SavingStays ==
    ASSUME StartInv, UpdateInv, Quiet, Later, [Next]_vars, Calm', NEW j \in Requests,
           Saving(j, "apply"), ~ApplySaves(j)
    PROVE  Saving(j, "apply")'
<1>1. Jobs /\ Under(j) /\ up = "up"
    BY SavingUnder DEF UpdateInv, Saving, Quiet, UpdateOps
<1>2. faults' = 0 /\ faults \in Nat
    BY DaemonAssumption DEF Calm, StartInv
<1>3. ASSUME NEW q \in Requests, CheckSaves(q) \/ ApplySaves(q) \/ RebootAsks(q) \/ JobFails(q)
      PROVE  job'[j] = job[j]
  <2>1. q # j
      BY <1>2, <1>3 DEF CheckSaves, RebootAsks, JobFails, Finish, Saving
  <2>2. \E from : \E state : Finish(q, from, state)
      BY <1>3 DEF CheckSaves, ApplySaves, RebootAsks, JobFails
  <2> QED
      BY <1>1, <2>1, <2>2, FinishEnds
<1>4. ASSUME NEW q \in Requests, CheckPlans(q) PROVE job'[j] = job[j]
    BY <1>1, <1>4, PlansJob DEF CheckPlans, Saving
<1>5. ASSUME NEW q \in Requests, ApplyUpdates(q) PROVE job'[j] = job[j]
    BY <1>1, <1>5, AppliesJob DEF ApplyUpdates, Step, Saving
<1>6. ASSUME NEW q \in Requests, StartJob(q) PROVE job'[j] = job[j]
    BY <1>1, <1>6, StartsJob DEF StartJob, At, Later, Early, Saving
<1>7. ASSUME \/ \E q \in Requests :
                \/ Ask(q) \/ Lookup(q) \/ Store(q) \/ CreateUser(q) \/ LookForJobs(q) \/ NoteJob(q)
                \/ LookForBe(q) \/ ActOnBe(q) \/ Attach(q) \/ Detach(q) \/ UpgradeFails(q) \/ Drop(q)
             \/ Publish \/ Sweep \/ Tick \/ UNCHANGED vars
      PROVE  job' = job
    BY <1>7 DEF Ask, Lookup, Store, CreateUser, LookForJobs, NoteJob, LookForBe, ActOnBe, Attach,
       Detach, UpgradeFails, Drop, Publish, Sweep, Tick, vars
<1>8. ~Starting /\ ~FirstBootFails
    BY <1>1 DEF Starting, Migrate, Recover, FirstBoot, InsertAdmin, DestroyFile, LoadOrGenerate,
       WritePair, FirstBootFails
<1>9. ~Crash
    BY <1>2 DEF Crash
<1>10. ASSUME HostReboots PROVE FALSE
  <2>1. Busy = {} /\ ~Checking /\ ~Applying
      BY <1>2, <1>10 DEF HostReboots
  <2>2. j \in {row.check, row.apply} \/ Notes(j)
      BY <1>1, CalmBefore DEF UpdateInv
  <2>3. ~Notes(j)
      BY <2>1 DEF Busy, Working, Notes
  <2> QED
      BY <1>1, <2>1, <2>2, <2>3 DEF Checking, Applying, Under
<1> QED
    BY <1>3, <1>4, <1>5, <1>6, <1>7, <1>8, <1>9, <1>10 DEF Next, Saving

LEMMA FreeNext ==
    ASSUME StartInv, UpdateInv, BesInv, BesKept, Quiet, Later, Free, NamesLeft, [Next]_vars
    PROVE  Free'
<1> SUFFICES ASSUME Calm' PROVE
       /\ (row.plan.be \in DOMAIN bes /\ bes[row.plan.be].by # "user" =>
             \E j \in Requests : Saving(j, "apply"))'
       /\ \A j \in Requests : (Saving(j, "check") /\ job[j].plan.be \in DOMAIN bes =>
             bes[job[j].plan.be].by = "user")'
    BY DEF Free
<1>0. Calm /\ Jobs
    BY CalmBefore DEF UpdateInv
<1>1. /\ row.plan.be \in DOMAIN bes /\ bes[row.plan.be].by # "user" =>
            \E j \in Requests : Saving(j, "apply")
      /\ \A j \in Requests : Saving(j, "check") /\ job[j].plan.be \in DOMAIN bes =>
            bes[job[j].plan.be].by = "user"
    BY <1>0 DEF Free
<1>2. ASSUME NEW j \in Requests, Saving(j, "check")', job'[j].plan.be \in DOMAIN bes',
             bes'[job'[j].plan.be].by # "user"
      PROVE  FALSE
  <2>1. CASE job'[j] = job[j]
    <3>1. Saving(j, "check") /\ Under(j)
        BY <1>0, <1>2, <2>1, SavingUnder DEF Saving, UpdateOps
    <3>2. ASSUME NEW i \in Requests, ApplyUpdates(i) PROVE FALSE
      <4>1. Under(i) /\ i # j
          BY <1>0, <3>1, <3>2, SavingUnder DEF ApplyUpdates, Step, Saving, UpdateOps
      <4> QED
          BY <1>0, <3>1, <4>1 DEF UpdateInv
    <3>3. job[j].plan.be \in DOMAIN bes /\ bes[job[j].plan.be].by # "user"
        BY <1>2, <2>1, <3>2, ByFrom
    <3> QED
        BY <1>1, <3>1, <3>3
  <2>2. CASE Planned(j)
    <3>2. IsFiniteSet(DOMAIN bes) /\ Cardinality(DOMAIN bes) < MaxTaken
        BY <2>2 DEF Planned, NamesLeft
    <3>3. PlanMade.be \notin DOMAIN bes
        BY <3>2, NewPlan
    <3> QED
        BY <1>2, <2>2, <3>3 DEF Planned, CheckPlans, HostState
  <2> QED
      BY <1>2, <2>1, <2>2, JobsFrom DEF Begins, Applied, Saving
<1>3. ASSUME row'.plan.be \in DOMAIN bes', bes'[row'.plan.be].by # "user"
      PROVE  \E j \in Requests : Saving(j, "apply")'
  <2>1. ASSUME NEW i \in Requests, ApplyUpdates(i) PROVE Saving(i, "apply")'
      BY <1>0, <2>1, AppliesJob DEF Applied, Saving
  <2>2. ASSUME NEW i \in Requests, CheckSaves(i) PROVE row'.plan = job[i].plan /\ FALSE
    <3>1. row' = [row EXCEPT !.plan = job[i].plan] /\ bes' = bes /\ Saving(i, "check")
        BY <2>2, Zenon DEF CheckSaves, HostState, Finish, Saving
    <3>2. row'.plan = job[i].plan
        BY <3>1 DEF UpdateInv, RowOK
    <3> QED
        BY <1>1, <1>3, <3>1, <3>2
  <2>3. ASSUME NEW i \in Requests, ApplySaves(i) PROVE FALSE
    <3>1. row'.plan = NoPlan /\ bes' = bes
        BY <2>3, ApplyForgets DEF ApplySaves, HostState
    <3> QED
        BY <1>3, <3>1, NoBeIs DEF BesKept
  <2>4. ASSUME row'.plan = row.plan, \A i \in Requests : ~ApplyUpdates(i)
        PROVE  \E j \in Requests : Saving(j, "apply")'
    <3>1. row.plan.be \in DOMAIN bes /\ bes[row.plan.be].by # "user"
        BY <1>3, <2>4, ByFrom
    <3>2. PICK j \in Requests : Saving(j, "apply")
        BY <1>1, <3>1
    <3> QED
        BY <2>3, <3>2, SavingStays
  <2> QED
      BY <2>1, <2>2, <2>3, <2>4, RowPlanFrom
<1> QED
    BY <1>2, <1>3

LEMMA PlanInit == Init => PlanInv
<1> SUFFICES ASSUME Init PROVE PlanInv
    OBVIOUS
<1> DEFINE v == [active |-> TRUE, booted |-> TRUE, image |-> Current, by |-> "install"]
           first == <<Current, 1>>
<1>1. bes = [b \in {first} |-> v] /\ offered = Current /\ Current \in Images
    BY DaemonAssumption DEF Init
<1>2. v.image = Current
    OBVIOUS
<1>3. first # NoBe
    BY NoBeIs DEF Current
<1> HIDE DEF v, first
<1>4. DOMAIN bes = {first} /\ bes[first] = v
    BY <1>1
<1>5. /\ \A r \in Requests : req[r] = NewRequest /\ job[r] = NoJob
      /\ row.plan = NoPlan
    BY DEF Init, NoRow
<1>6. /\ NoJob.step = "none" /\ NoJob.kind = "none" /\ NewRequest.stage = "idle"
      /\ NewRequest.op = "attach"
    BY DEF NoJob, NewRequest
<1>7. BesKept
    BY <1>1, <1>2, <1>3, <1>4 DEF BesKept
<1>8. Quiet /\ Later /\ SavedPlans
    BY <1>5, <1>6 DEF Quiet, Later, SavedPlans, Saving
<1>9. Plans
    BY <1>5, <1>6, NoBeIs DEF Plans, Good, Saving
<1>10. Free
  <2>1. row.plan.be \notin DOMAIN bes
      BY <1>5, <1>7, NoBeIs DEF BesKept
  <2> QED
      BY <1>5, <1>6, <2>1 DEF Free, Saving
<1> QED
    BY <1>7, <1>8, <1>9, <1>10 DEF PlanInv

LEMMA PlanNext ==
    ASSUME StartInv, UpdateInv, BesInv, PlanInv, NamesLeft, [Next]_vars PROVE PlanInv'
    BY KeptNext, QuietNext, LaterNext, PlansNext, SavedNext, FreeNext DEF PlanInv

\* A plan that was made names what differs between the boot environment booted and what was
\* offered; and when no update is under way, the boot environment it names is not there to
\* make its apply fail, or a user made it; unless requests met or something failed.  For as
\* long as be_name finds a name that is left, of all it looks for: it gives a name that is
\* taken after that.  (pkg::parse_dry_run, updates::check, apply, be_name)
THEOREM PlansApplyWhileNamesLeft == Spec /\ []NamesLeft => []PlanCanBeApplied
<1>1. ASSUME StartInv, UpdateInv, PlanInv PROVE PlanCanBeApplied
  <2>1. ASSUME NEW j \in Requests, job[j].kind = "check", job[j].step = "save"
        PROVE  \E to \in Images :
                  LET named == {job[j].plan.packages[i].name : i \in DOMAIN job[j].plan.packages}
                  IN  named = Differing(bes[Booted].image, to) /\ to \in {offered, Current}
      BY <1>1, <2>1 DEF PlanInv, SavedPlans, Saving, NamesOf
  <2>2. ASSUME Calm, row.plan.be \in DOMAIN bes, UpdatesUnderway = {}
        PROVE  bes[row.plan.be].by = "user"
    <3>1. \A j \in Requests : ~Under(j)
        BY <2>2 DEF UpdatesUnderway, Under
    <3>2. \A j \in Requests : ~Saving(j, "apply")
        BY <1>1, <3>1, SavingUnder DEF UpdateInv, Saving, UpdateOps
    <3> QED
        BY <1>1, <2>2, <3>2 DEF PlanInv, Free
  <2> QED
      BY <2>1, <2>2 DEF PlanCanBeApplied
<1>2. StartInv /\ UpdateInv /\ BesInv /\ PlanInv /\ NamesLeft /\ [Next]_vars
         => StartInv' /\ UpdateInv' /\ BesInv' /\ PlanInv'
    BY StartNext, UpdateNext, BesNext, PlanNext
<1> QED
    BY <1>1, <1>2, StartInit, UpdateInit, BesInit, PlanInit, PTL DEF Spec

LEMMA RoomInit == Init => Room /\ Later
<1> SUFFICES ASSUME Init PROVE Room /\ Later
    OBVIOUS
<1>1. IsFiniteSet(DOMAIN bes) /\ Cardinality(DOMAIN bes) = 1
  <2>1. DOMAIN bes = {<<Current, 1>>}
      BY DEF Init
  <2> QED
      BY <2>1, FS_Singleton
<1>2. IsFiniteSet(Makers) /\ Cardinality(Makers) <= MaxRequests
    BY RequestsFinite, FS_Subset DEF Makers
<1>3. Cardinality(Makers) \in Nat /\ MaxRequests \in Nat
    BY <1>2, FS_CardinalityType, DaemonAssumption
<1>4. Later
    BY DEF Init, Later, NoJob
<1> QED
    BY <1>1, <1>2, <1>3, <1>4 DEF Room

\* So it is with no more requests than be_name looks for names: none makes more than one
\* boot environment.
THEOREM PlansApply == ASSUME MaxRequests < MaxTaken PROVE Spec => []PlanCanBeApplied
<1>1. Room => NamesLeft
    BY RoomLeft
<1>2. StartInv /\ UpdateInv /\ BesInv /\ Later /\ Room /\ [Next]_vars
         => StartInv' /\ UpdateInv' /\ BesInv' /\ Later' /\ Room'
    BY StartNext, UpdateNext, BesNext, LaterNext, RoomNext
<1>3. Spec => []NamesLeft
    BY <1>1, <1>2, StartInit, UpdateInit, BesInit, RoomInit, PTL DEF Spec
<1> QED
    BY <1>3, PlansApplyWhileNamesLeft, PTL
=============================================================================
