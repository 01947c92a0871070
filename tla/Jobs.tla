-------------------------------- MODULE Jobs --------------------------------
(***************************************************************************)
(* Background jobs of mandraked (crates/mandraked/src/jobs.rs) and what a  *)
(* restart does to them (serve.rs).                                        *)
(*                                                                         *)
(* A job is a row of the table jobs, plus a tokio task that runs the work  *)
(* and writes the row.  Every write is a database call of its own, and     *)
(* every one of them is followed by publish(): read the row back, insert   *)
(* an event row that carries it.  Between two of those calls other jobs    *)
(* run, the daemon may die, and the calls themselves may fail: jobs.rs     *)
(* ignores their errors (`let _ =`).  The request handler that creates a   *)
(* job spawns the task only after its INSERT has answered, and may be      *)
(* dropped by the request timeout (app.rs) while it waits.                 *)
(*                                                                         *)
(* Abstracted: ids, names, messages, times and problem documents; the      *)
(* in-memory bus publish() feeds last, which EventStream models.           *)
(***************************************************************************)
EXTENDS Naturals, Sequences

CONSTANTS
    Jobs,          \* the jobs that clients may start
    Full,          \* progress 1.0, in steps of the model
    MaxReports,    \* bound: progress reports of one job's work
    MaxCrashes,    \* bound: deaths of the daemon
    Mishaps,       \* which of MishapKinds may strike
    MaxMishaps     \* bound: how often they strike

\* drop: the 30 s timeout drops the handler between INSERT and spawn.
\* panic: the job's work panics and takes its task with it.
\* dberror: a database call fails (disk full, I/O error, poisoned lock).
MishapKinds == {"drop", "panic", "dberror"}

ASSUME JobsAssumption ==
    /\ Full \in Nat \ {0}
    /\ MaxReports \in Nat
    /\ MaxCrashes \in Nat
    /\ Mishaps \subseteq MishapKinds
    /\ MaxMishaps \in Nat

VARIABLES
    row,       \* row[j]: the job's row in the table jobs
    log,       \* log[j]: the job's rows in the table events, in id order
    pc,        \* pc[j]: where the handler, then the task, of job j is
    doing,     \* doing[j]: which report the task is writing
    snap,      \* snap[j]: the row publish() has read back
    reports,   \* reports[j]: progress reports made so far
    up,        \* the daemon is serving
    crashes,   \* deaths of the daemon so far
    mishaps,   \* mishaps so far
    struck     \* their kinds

trouble == <<mishaps, struck>>

vars == <<row, log, pc, doing, snap, reports, up, crashes, trouble>>

Outcomes == {"succeeded", "failed"}
Active == {"queued", "running"}
Rows == [state : {"none"} \cup Active \cup Outcomes, progress : 0 .. Full]
NoRow == [state |-> "none", progress |-> 0]

\* What the task reports: "complete" is the progress(1.0) before "succeeded".
Reports == {"running", "progress", "complete"} \cup Outcomes
EventKinds == {"running", "progress"} \cup Outcomes
Events == [kind : EventKinds, data : Rows]

\* unborn: nobody has asked for the job; handler: inserted, not yet spawned;
\* update, find, insert: the three calls of a report; work: inside the work;
\* done: the task has returned; abandoned: dropped or panicked under this
\* daemon; lost: died with an earlier one.
TaskSteps == {"update", "find", "insert", "work"}
Places == {"unborn", "handler", "done", "abandoned", "lost"} \cup TaskSteps

TypeOK ==
    /\ row \in [Jobs -> Rows]
    /\ log \in [Jobs -> Seq(Events)]
    /\ pc \in [Jobs -> Places]
    /\ doing \in [Jobs -> Reports]
    /\ snap \in [Jobs -> Rows]
    /\ reports \in [Jobs -> 0 .. MaxReports]
    /\ up \in BOOLEAN
    /\ crashes \in 0 .. MaxCrashes
    /\ mishaps \in 0 .. MaxMishaps
    /\ struck \subseteq Mishaps

Init ==
    /\ row = [j \in Jobs |-> NoRow]
    /\ log = [j \in Jobs |-> <<>>]
    /\ pc = [j \in Jobs |-> "unborn"]
    /\ doing = [j \in Jobs |-> "running"]
    /\ snap = [j \in Jobs |-> NoRow]
    /\ reports = [j \in Jobs |-> 0]
    /\ up = TRUE
    /\ crashes = 0
    /\ mishaps = 0
    /\ struck = {}

Mishap(kind) ==
    /\ kind \in Mishaps
    /\ struck' = struck \cup {kind}
    /\ mishaps < MaxMishaps
    /\ mishaps' = mishaps + 1

\* Every database call of jobs.rs has succeeded so far.
DbSound == "dberror" \notin struck

Goto(j, place) == pc' = [pc EXCEPT ![j] = place]

Begin(j, report) ==
    /\ doing' = [doing EXCEPT ![j] = report]
    /\ Goto(j, "update")

-----------------------------------------------------------------------------
(* The request handler: start_job.                                         *)

\* The INSERT commits even if the handler that asked for it is gone by then:
\* it runs on the blocking pool.  A failed INSERT answers the client with an
\* error and leaves nothing, as if it had not been asked.
Submit(j) ==
    /\ up
    /\ pc[j] = "unborn"
    /\ row' = [row EXCEPT ![j] = [state |-> "queued", progress |-> 0]]
    /\ Goto(j, "handler")
    /\ UNCHANGED <<log, doing, snap, reports, up, crashes, trouble>>

Spawn(j) ==
    /\ up
    /\ pc[j] = "handler"
    /\ Begin(j, "running")
    /\ UNCHANGED <<row, log, snap, reports, up, crashes, trouble>>

\* The timeout layer drops the handler's future: nobody is left to spawn.
DropHandler(j) ==
    /\ up
    /\ pc[j] = "handler"
    /\ Mishap("drop")
    /\ Goto(j, "abandoned")
    /\ UNCHANGED <<row, log, doing, snap, reports, up, crashes>>

-----------------------------------------------------------------------------
(* The task: set_state(running), the work, set_state(outcome).             *)

\* Mutant of Written: progress() without its clamp.
WrittenUnclamped(r, report) ==
    IF report = "progress" THEN {[r EXCEPT !.progress = f] : f \in 0 .. Full + 1}
    ELSE {[r EXCEPT !.state = IF report = "complete" THEN @ ELSE report]}

\* The rows the UPDATE of a report can leave, progress() being the only one
\* that looks at the state first.
Written(r, report) ==
    CASE report = "running"   -> {[r EXCEPT !.state = "running"]}
      [] report = "progress"  -> IF r.state = "running"
                                 THEN {[r EXCEPT !.progress = f] : f \in 0 .. Full}
                                 ELSE {r}
      [] report = "complete"  -> IF r.state = "running"
                                 THEN {[r EXCEPT !.progress = Full]}
                                 ELSE {r}
      [] report = "succeeded" -> {[state |-> "succeeded", progress |-> Full]}
      [] report = "failed"    -> {[r EXCEPT !.state = "failed"]}

EventKind(report) == IF report = "complete" THEN "progress" ELSE report

\* Mutant of AfterReport: the task returns after progress(1.0).
AfterReportEarly(j) ==
    IF doing[j] \in {"running", "progress"}
    THEN Goto(j, "work") /\ UNCHANGED doing
    ELSE Goto(j, "done") /\ UNCHANGED doing

\* Where the task goes once a report is published.
AfterReport(j) ==
    CASE doing[j] \in {"running", "progress"} -> Goto(j, "work") /\ UNCHANGED doing
      [] doing[j] = "complete" -> Begin(j, "succeeded")
      [] doing[j] \in Outcomes -> Goto(j, "done") /\ UNCHANGED doing

Update(j) ==
    /\ up
    /\ pc[j] = "update"
    /\ \/ /\ \E r \in Written(row[j], doing[j]) : row' = [row EXCEPT ![j] = r]
          /\ UNCHANGED trouble
       \/ /\ Mishap("dberror")
          /\ UNCHANGED row
    /\ Goto(j, "find")
    /\ UNCHANGED <<log, doing, snap, reports, up, crashes>>

\* publish() gives up silently when it cannot read the row back.
Find(j) ==
    /\ up
    /\ pc[j] = "find"
    /\ \/ /\ snap' = [snap EXCEPT ![j] = row[j]]
          /\ Goto(j, "insert")
          /\ UNCHANGED <<doing, trouble>>
       \/ /\ Mishap("dberror")
          /\ AfterReport(j)
          /\ UNCHANGED snap
    /\ UNCHANGED <<row, log, reports, up, crashes>>

\* A failed INSERT loses the durable event (it is published with id 0).
Insert(j) ==
    /\ up
    /\ pc[j] = "insert"
    /\ \/ /\ log' = [log EXCEPT ![j] =
                       Append(@, [kind |-> EventKind(doing[j]), data |-> snap[j]])]
          /\ UNCHANGED trouble
       \/ /\ Mishap("dberror")
          /\ UNCHANGED log
    /\ AfterReport(j)
    /\ UNCHANGED <<row, snap, reports, up, crashes>>

ReportProgress(j) ==
    /\ up
    /\ pc[j] = "work"
    /\ reports[j] < MaxReports
    /\ reports' = [reports EXCEPT ![j] = @ + 1]
    /\ Begin(j, "progress")
    /\ UNCHANGED <<row, log, snap, up, crashes, trouble>>

\* The work returns Ok(message) or Err(problem).
EndWork(j) ==
    /\ up
    /\ pc[j] = "work"
    /\ \E report \in {"complete", "failed"} : Begin(j, report)
    /\ UNCHANGED <<row, log, snap, reports, up, crashes, trouble>>

PanicWork(j) ==
    /\ up
    /\ pc[j] = "work"
    /\ Mishap("panic")
    /\ Goto(j, "abandoned")
    /\ UNCHANGED <<row, log, doing, snap, reports, up, crashes>>

-----------------------------------------------------------------------------
(* The daemon: death and recovery.                                         *)

\* SIGKILL, power, or the end of a graceful shutdown: handlers and tasks go,
\* the database stays.
Crash ==
    /\ up
    /\ crashes < MaxCrashes
    /\ crashes' = crashes + 1
    /\ up' = FALSE
    /\ pc' = [j \in Jobs |-> IF pc[j] \in {"unborn", "done"} THEN pc[j] ELSE "lost"]
    /\ UNCHANGED <<row, log, doing, snap, reports, trouble>>

\* Mutants of Recovered: no WHERE clause; a clause that forgets running rows; jobs put back
\* in the queue.
RecoveredAll(r) == [r EXCEPT !.state = "failed"]
RecoveredQueued(r) == IF r.state = "queued" THEN [r EXCEPT !.state = "failed"] ELSE r
RecoveredRequeued(r) == IF r.state \in Active THEN [r EXCEPT !.state = "queued"] ELSE r

Recovered(r) == IF r.state \in Active THEN [r EXCEPT !.state = "failed"] ELSE r

\* recover() runs before the daemon listens; serve.rs only logs its failure.
Restart ==
    /\ ~up
    /\ up' = TRUE
    /\ \/ /\ row' = [j \in Jobs |-> Recovered(row[j])]
          /\ UNCHANGED trouble
       \/ /\ Mishap("dberror")
          /\ UNCHANGED row
    /\ UNCHANGED <<log, pc, doing, snap, reports, crashes>>

Handler(j) == Submit(j) \/ Spawn(j) \/ DropHandler(j)

Task(j) ==
    \/ Update(j) \/ Find(j) \/ Insert(j)
    \/ ReportProgress(j) \/ EndWork(j) \/ PanicWork(j)

Next ==
    \/ \E j \in Jobs : Handler(j) \/ Task(j)
    \/ Crash
    \/ Restart

Spec == Init /\ [][Next]_vars

\* The runtime keeps polling a spawned task and a handler that has not been
\* dropped; the work ends (its drivers' commands return); the service manager
\* restarts a daemon that died.  Nobody has to submit a job, and nothing makes
\* the daemon die or a mishap strike.
Fairness ==
    /\ \A j \in Jobs :
          /\ WF_vars(Spawn(j))
          /\ WF_vars(Update(j))
          /\ WF_vars(Find(j))
          /\ WF_vars(Insert(j))
          /\ WF_vars(EndWork(j))
    /\ WF_vars(Restart)

FairSpec == Spec /\ Fairness

-----------------------------------------------------------------------------
(* Properties.                                                             *)

\* What has finished stays as it finished: no late progress, no second
\* outcome and no recovery rewrites a finished row, whatever goes wrong
\* (jobs.rs sets outcomes without looking at the state it overwrites).
FinalOutcome ==
    [][\A j \in Jobs : row[j].state \in Outcomes => row'[j] = row[j]]_vars

\* The log reads like the job went: started first, outcome last and once.
LogInOrder ==
    \A j \in Jobs : \A n \in 1 .. Len(log[j]) :
        /\ log[j][n].kind = "running" => n = 1
        /\ log[j][n].kind \in Outcomes => n = Len(log[j])

\* A client that acts on job.succeeded or job.failed finds that outcome in the
\* row, then and ever after: a death between the UPDATE and the event can
\* swallow the event, never forge one.  Only a failed database call can.
AnnouncedIsRecorded ==
    DbSound => \A j \in Jobs : \A n \in 1 .. Len(log[j]) :
        log[j][n].kind \in Outcomes =>
            /\ row[j].state = log[j][n].kind
            /\ log[j][n].data = row[j]

\* A task that has returned has left its outcome in the row and in the log, as
\* long as the database answers (jobs.rs:5-6, "the outcome is recorded as
\* `succeeded` or `failed`").
DoneIsTold ==
    DbSound => \A j \in Jobs : pc[j] = "done" =>
        /\ row[j].state \in Outcomes
        /\ log[j] # <<>>
        /\ log[j][Len(log[j])].kind = row[j].state

\* A serving daemon shows no job of an earlier one as queued or running.
NoLeftovers ==
    DbSound /\ up => \A j \in Jobs : pc[j] = "lost" => row[j].state \notin Active

\* The log tells of an outcome in its place, once, when and only when the row has it, and
\* a restart leaves no job to wait for.
OutcomesAreTold == LogInOrder /\ AnnouncedIsRecorded /\ DoneIsTold /\ NoLeftovers

\* A job that was accepted finishes, if need be by the recovery, unless a mishap
\* strikes.
EveryJobSettles ==
    \A j \in Jobs : row[j].state \in Active ~> row[j].state \in Outcomes \/ struck # {}

\* The module implements JobLifecycle, as long as the database answers.
Phase == [j \in Jobs |-> row[j].state]
Told == [j \in Jobs |->
            IF log[j] = <<>> THEN "nothing"
            ELSE IF log[j][Len(log[j])].kind \in Outcomes
                 THEN log[j][Len(log[j])].kind
                 ELSE "underway"]
Lifecycle == INSTANCE JobLifecycle WITH phase <- Phase, told <- Told, broken <- ~DbSound
ImplementsLifecycle == Lifecycle!Spec
=============================================================================
