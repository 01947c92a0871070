---------------------------- MODULE JobLifecycle ----------------------------
(***************************************************************************)
(* What a background job promises to whoever started it (API schema Job,   *)
(* JobState): a job is created queued, may start running, and finishes at  *)
(* most once, for good.  The persistent event log tells the same story: it *)
(* says "underway" only of a job that runs, and announces an outcome only  *)
(* once that outcome is the recorded one.                                  *)
(*                                                                         *)
(* All of it holds as long as the database answers: once it is broken,     *)
(* nothing is promised any more.  The module has no daemon, task, crash or *)
(* database in it; Jobs.tla is shown to implement it.                      *)
(***************************************************************************)
CONSTANT Jobs

VARIABLES
    phase,    \* phase[j]: the state a reader of GET /jobs/{id} sees
    told,     \* told[j]: the last thing the event log says of job j
    broken    \* some database call has failed

vars == <<phase, told, broken>>

Outcomes == {"succeeded", "failed"}
Phases == {"none", "queued", "running"} \cup Outcomes
Stories == {"nothing", "underway"} \cup Outcomes

TypeOK ==
    /\ phase \in [Jobs -> Phases]
    /\ told \in [Jobs -> Stories]
    /\ broken \in BOOLEAN

Init ==
    /\ phase = [j \in Jobs |-> "none"]
    /\ told = [j \in Jobs |-> "nothing"]
    /\ broken = FALSE

Create(j) ==
    /\ phase[j] = "none"
    /\ phase' = [phase EXCEPT ![j] = "queued"]
    /\ UNCHANGED told

Start(j) ==
    /\ phase[j] = "queued"
    /\ phase' = [phase EXCEPT ![j] = "running"]
    /\ UNCHANGED told

\* A queued job can finish without having run: the daemon restarts first.
Finish(j) ==
    /\ phase[j] \in {"queued", "running"}
    /\ \E o \in Outcomes : phase' = [phase EXCEPT ![j] = o]
    /\ UNCHANGED told

\* A restart settles every unfinished job at once.
FailAll ==
    /\ phase' = [j \in Jobs |-> IF phase[j] \in {"queued", "running"}
                                THEN "failed" ELSE phase[j]]
    /\ UNCHANGED told

TellUnderway(j) ==
    /\ phase[j] = "running"
    /\ told[j] \in {"nothing", "underway"}
    /\ told' = [told EXCEPT ![j] = "underway"]
    /\ UNCHANGED phase

TellOutcome(j) ==
    /\ phase[j] \in Outcomes
    /\ told[j] \notin Outcomes
    /\ told' = [told EXCEPT ![j] = phase[j]]
    /\ UNCHANGED phase

Keep ==
    \/ FailAll
    \/ \E j \in Jobs :
          Create(j) \/ Start(j) \/ Finish(j) \/ TellUnderway(j) \/ TellOutcome(j)

Next == (Keep /\ UNCHANGED broken) \/ broken'

Spec == Init /\ [][Next]_vars
=============================================================================
