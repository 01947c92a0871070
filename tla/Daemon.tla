------------------------------- MODULE Daemon -------------------------------
(***************************************************************************)
(* What mandraked does for the host as a whole (crates/mandraked/src):     *)
(* the start (serve.rs) with the database's migrations (db.rs), the        *)
(* first-boot file (firstboot.rs) and the certificate (tls.rs), updates    *)
(* and boot environments (updates.rs, pkg.rs, routes/updates.rs,           *)
(* routes/boot_environments.rs, mandrake-zfs/src/beadm.rs), console        *)
(* sessions (zone_console.rs, vnc.rs) and the keys that make repeated      *)
(* requests harmless (idempotency.rs) for as long as they are kept (sweep, *)
(* auth/session.rs).  The daemon may die at any moment, the host reboots   *)
(* when told to; database and host state last.                             *)
(*                                                                         *)
(* An image is what is installed in a boot environment (UpdatePlan); the   *)
(* first is 1.  A boot environment is named <<version, n>>, the n-th of    *)
(* that name; the version 0 stands for a date.  Abstracted: jobs but for   *)
(* their states (Jobs), audit records, several zones (a console is one     *)
(* zone's), the date in names, users but for whether there are any         *)
(* (Accounts).                                                             *)
(***************************************************************************)
EXTENDS UpdatePlan, FiniteSets

CONSTANTS
    MaxRequests,   \* bound: requests asked
    MaxFaults,     \* bound: deaths of the daemon, dropped requests, failed commands
    MaxTaken,      \* bound: boot environments of one name that be_name looks for
    Images,        \* what the publisher may offer
    Keys,          \* idempotency keys, each with its actor
    Kept,          \* how long a response is kept, 24 hours, in ticks of the clock
    Keyed,         \* bound: requests that may come with a key
    Asks,          \* Asks[r]: bound: the operations request r may be
    Alone          \* bound: requests asked only while no other is in its handler

Current == 1
None == 0
Migrations == 3          \* of the database's schema

\* The certificate's and the key's file: not there, not written out, or what is in it.
NoFile == 0
Truncated == 3
Pairs == {1, 2}

ASSUME DaemonAssumption ==
    /\ MaxRequests \in Nat /\ MaxFaults \in Nat /\ MaxTaken \in Nat \ {0}
    /\ Kept \in Nat
    /\ Images \subseteq 0 .. 2 /\ Current \in Images
    /\ DOMAIN Asks = 1 .. MaxRequests

VARIABLES
    up,        \* how far the daemon's start is; "up" when it serves
    file,      \* the first-boot file: "good", "bad" or "absent"
    users,     \* there are users
    schema,    \* version: that of the database; applied: the migrations done in it
    tls,       \* key, cert: what is in the two files; made: the pair being written
    row,       \* the row of the update state
    job,       \* job[r]: the job request r started
    bes,       \* the boot environments, by name
    offered,   \* the image the publisher offers
    keys,      \* keys[k]: body: to what body key k has a stored response, or "none"; age: of
               \* the last response stored under it, at most Kept
    claimed,   \* the console session of the zone is taken
    req,       \* req[r]: request r
    ran,       \* ran[k]: how long ago an operation was last done under key k, at most Kept
    overlapped,\* two requests have been in their handlers at once
    faults,    \* how many of those there have been
    excused    \* keys whose requests have met, or were cut short before their answer was
               \* stored, and under which no response was stored since by one alone

vars == <<up, file, users, schema, tls, row, job, bes, offered, keys, claimed, req, ran,
          overlapped, faults, excused>>

Requests == 1 .. MaxRequests
UpdateOps == {"check", "apply"}
JobOps == UpdateOps \cup {"reboot"}
BeOps == {"create_be", "delete_be", "activate_be"}
Ops == JobOps \cup BeOps \cup {"create_user", "attach"}
Posted == JobOps \cup {"create_user"}       \* asked with a key here

ASSUME AsksAssumption == None \notin Keys /\ \A r \in Requests : Asks[r] \subseteq Ops

NoBe == <<None, None>>
NoPlan == [be |-> NoBe, packages |-> << >>]
NoRow == [plan |-> NoPlan, check |-> None, apply |-> None, applied |-> NoBe]
\* plan: being made by a check, being carried out by an apply.
NoJob == [kind |-> "none", state |-> "none", step |-> "none", plan |-> NoPlan]
NewRequest == [op |-> "attach", stage |-> "idle", key |-> None, be |-> NoBe, plan |-> NoPlan]

Working == {"lookup", "look", "start", "note", "act", "store"}
At(r, stage) == req[r].stage = stage
Doing(r, op, stage) == At(r, stage) /\ req[r].op = op
Busy == {r \in Requests : req[r].stage \in Working}
Over(r) == [req EXCEPT ![r] = [NewRequest EXCEPT !.stage = "over"]]
Goto(r, stage) == req' = [req EXCEPT ![r].stage = stage]
\* The handler has an answer, which is stored if it came with a key.
Answer(r) == IF req[r].key # None THEN Goto(r, "store") ELSE req' = Over(r)
Calm == ~overlapped /\ faults = 0

StartState == <<up, file, users, schema, tls>>
HostState == <<bes, offered>>
History == <<overlapped, faults, excused>>

\* The keys of these requests; and the requests that have done their work, or refused it,
\* and have yet to store the answer.
HeldBy(requests) == {req[r].key : r \in requests} \ {None}
Unanswered == {r \in Requests : req[r].stage \in {"note", "store"}}

-----------------------------------------------------------------------------
(* Boot environments.                                                      *)

Named(p(_)) == CHOOSE b \in DOMAIN bes : p(bes[b])
Booted == Named(LAMBDA b : b.booted)
Active == Named(LAMBDA b : b.active)

BeName(packages, existing) ==
    LET version == MandrakeVersion(packages)
        free == {n \in 1 .. MaxTaken : <<version, n>> \notin existing}
    IN  <<version, IF free = {} THEN 1 ELSE Min(free)>>

\* All others as they are.
ActiveOnly(table, be) == [b \in DOMAIN table |-> [table[b] EXCEPT !.active = b = be]]
With(table, be, new) == [b \in DOMAIN table \cup {be} |-> IF b = be THEN new ELSE table[b]]

-----------------------------------------------------------------------------
(* The row of the update state, and the view of it.                        *)

Unfinished(j) == j # None /\ job[j].state \in {"queued", "running"}
Checking == Unfinished(row.check)
Applying == Unfinished(row.apply)

\* Mutant of Recorded: with the plan the handler first saw.
RecordedFromView(r) == [row EXCEPT !.apply = IF req[r].op = "apply" THEN r ELSE @,
                                   !.check = IF req[r].op = "check" THEN r ELSE @,
                                   !.plan = req[r].plan]

\* The handler's last write: the row is read again, with the job's id put into it.
Recorded(r) == [row EXCEPT !.apply = IF req[r].op = "apply" THEN r ELSE @,
                           !.check = IF req[r].op = "check" THEN r ELSE @]

-----------------------------------------------------------------------------
(* Asking, and keys.                                                       *)

\* The hash of a body, which leaves out the request's path.
Body(op) == IF op \in JobOps THEN "empty" ELSE op

BeInputs(op) == CASE op = "create_be" -> {<<i, 1>> : i \in Images \ {Current}}
                  [] op \in {"delete_be", "activate_be"} -> DOMAIN bes
                  [] OTHER -> {NoBe}

Ask(r) ==
    /\ up = "up" /\ At(r, "idle") /\ \A q \in Requests : q < r => ~At(q, "idle")
    /\ r \in Alone => Busy = {}
    /\ \E op \in Asks[r] : \E be \in BeInputs(op) :
       \E key \in {None} \cup IF op \in Posted /\ r \in Keyed THEN Keys ELSE {} :
          req' = [req EXCEPT ![r] = [op |-> op, key |-> key, be |-> be, plan |-> NoPlan,
                                     stage |-> IF key # None THEN "lookup"
                                               ELSE IF op = "create_user" THEN "act"
                                               ELSE "look"]]
    /\ overlapped' = (overlapped \/ Busy # {})
    /\ excused' = excused \cup (HeldBy(Busy) \cap {req'[r].key})
    /\ UNCHANGED <<StartState, row, job, HostState, keys, claimed, ran, faults>>

Seen(r) == keys[req[r].key].body

\* A stored response is given again; one to another body refuses this one.
Lookup(r) ==
    /\ At(r, "lookup")
    /\ IF Seen(r) # "none" THEN req' = Over(r)
       ELSE Goto(r, IF req[r].op = "create_user" THEN "act" ELSE "look")
    /\ UNCHANGED <<StartState, row, job, HostState, keys, claimed, ran, History>>

Store(r) ==
    /\ At(r, "store")
    /\ keys' = [keys EXCEPT ![req[r].key] = [body |-> Body(req[r].op), age |-> 0]]
    /\ req' = Over(r)
    /\ excused' = excused \ ({req[r].key} \ HeldBy(Busy \ {r}))
    /\ UNCHANGED <<StartState, row, job, HostState, claimed, ran, overlapped, faults>>

\* Mutant of Stale: stale is what was stored before now.
StaleAtOnce(k) == keys[k].age >= 0

Stale(k) == keys[k].age >= Kept

\* The hourly sweep: when it runs among the ticks is open, and whether it runs.
Sweep ==
    /\ up = "up" /\ \E k \in Keys : Stale(k) /\ keys[k].body # "none"
    /\ keys' = [k \in Keys |-> IF Stale(k) THEN [keys[k] EXCEPT !.body = "none"] ELSE keys[k]]
    /\ UNCHANGED <<StartState, row, job, HostState, claimed, req, ran, History>>

Older(n) == IF n < Kept THEN n + 1 ELSE n

Tick ==
    /\ \E k \in Keys : keys[k].age < Kept \/ ran[k] < Kept
    /\ keys' = [k \in Keys |-> [keys[k] EXCEPT !.age = Older(@)]]
    /\ ran' = [k \in Keys |-> Older(ran[k])]
    /\ UNCHANGED <<StartState, row, job, HostState, claimed, req, History>>

Ran(r) == ran' = IF req[r].key = None THEN ran ELSE [ran EXCEPT ![req[r].key] = 0]

CreateUser(r) ==
    /\ Doing(r, "create_user", "act")
    /\ users' = TRUE
    /\ Ran(r) /\ Answer(r)
    /\ UNCHANGED <<up, file, schema, tls, row, job, HostState, keys, claimed, History>>

-----------------------------------------------------------------------------
(* Jobs: a handler looks whether it may start one, starts it, and writes   *)
(* down which it is.                                                       *)

\* Mutant of MayStart: an update waits for one of its own kind alone.
MayStartBesides(op) ==
    CASE op = "check" -> ~Checking
      [] op = "apply" -> ~Applying /\ row.plan # NoPlan
      [] op = "reboot" -> \A j \in Requests : ~(job[j].kind = "reboot" /\ Unfinished(j))

MayStart(op) ==
    CASE op = "check" -> ~Checking /\ ~Applying
      [] op = "apply" -> ~Applying /\ ~Checking /\ row.plan # NoPlan
      [] op = "reboot" -> \A j \in Requests : ~(job[j].kind = "reboot" /\ Unfinished(j))

LookForJobs(r) ==
    /\ At(r, "look") /\ req[r].op \in JobOps
    /\ IF MayStart(req[r].op)
       THEN req' = [req EXCEPT ![r].stage = "start", ![r].plan = row.plan]
       ELSE Answer(r)
    /\ UNCHANGED <<StartState, row, job, HostState, keys, claimed, ran, History>>

\* The job's row, and its task unless the handler is dropped in between.
StartJob(r) ==
    LET inserted == [kind |-> req[r].op, state |-> "queued", step |-> "begin",
                     plan |-> IF req[r].op = "apply" THEN req[r].plan ELSE NoPlan]
    IN  /\ At(r, "start")
        /\ Ran(r)
        /\ \/ /\ job' = [job EXCEPT ![r] = inserted]
              /\ IF req[r].op \in UpdateOps THEN Goto(r, "note") ELSE Answer(r)
              /\ UNCHANGED <<faults, excused>>
           \/ /\ faults < MaxFaults /\ faults' = faults + 1
              /\ excused' = excused \cup HeldBy({r})
              /\ job' = [job EXCEPT ![r] = [inserted EXCEPT !.step = "none"]]
              /\ req' = Over(r)
        /\ UNCHANGED <<StartState, row, HostState, keys, claimed, overlapped>>

NoteJob(r) ==
    /\ At(r, "note")
    /\ row' = Recorded(r)
    /\ Answer(r)
    /\ UNCHANGED <<StartState, job, HostState, keys, claimed, ran, History>>

Step(j, from, to) ==
    /\ up = "up" /\ job[j].step = from
    /\ job' = [job EXCEPT ![j].step = to, ![j].state = "running"]
Finish(j, from, state) ==
    /\ up = "up" /\ job[j].step = from
    /\ job' = [job EXCEPT ![j] = [NoJob EXCEPT !.kind = job[j].kind, !.state = state]]

PlanOf(packages) == IF packages = << >> THEN NoPlan
                    ELSE [be |-> BeName(packages, DOMAIN bes), packages |-> packages]

\* The check: refresh, dry run, and the boot environments' names for the plan's.
CheckPlans(j) ==
    /\ job[j].kind = "check" /\ up = "up" /\ job[j].step = "begin"
    /\ LET run == ParseDryRun(Printed(bes[Booted].image, offered))
       IN  /\ run.ok
           /\ job' = [job EXCEPT ![j].step = "save", ![j].state = "running",
                                ![j].plan = PlanOf(run.packages)]
    /\ UNCHANGED <<StartState, row, HostState, keys, claimed, req, ran, History>>

CheckSaves(j) ==
    /\ job[j].kind = "check" /\ Finish(j, "save", "succeeded")
    /\ row' = [row EXCEPT !.plan = job[j].plan]
    /\ UNCHANGED <<StartState, HostState, keys, claimed, req, ran, History>>

\* pkg update: into a new boot environment, which boots next.
ApplyUpdates(j) ==
    /\ job[j].kind = "apply" /\ Step(j, "begin", "save")
    /\ job[j].plan.be \notin DOMAIN bes
    /\ bes' = ActiveOnly(With(bes, job[j].plan.be,
                              [active |-> TRUE, booted |-> FALSE, image |-> offered,
                               by |-> "apply"]), job[j].plan.be)
    /\ UNCHANGED <<StartState, row, offered, keys, claimed, req, ran, History>>

ApplySaves(j) ==
    /\ job[j].kind = "apply" /\ Finish(j, "save", "succeeded")
    /\ row' = [row EXCEPT !.plan = NoPlan, !.applied = job[j].plan.be]
    /\ UNCHANGED <<StartState, HostState, keys, claimed, req, ran, History>>

\* shutdown is asked for; the host goes down at any time after it.
RebootAsks(j) ==
    /\ job[j].kind = "reboot" /\ Finish(j, "begin", "succeeded")
    /\ UNCHANGED <<StartState, row, HostState, keys, claimed, req, ran, History>>

\* pkg finds the name taken, what it prints cannot be read, or any command fails.
JobFails(j) ==
    /\ \E step \in {"begin", "save"} : Finish(j, step, "failed")
    /\ IF job[j].kind = "apply" /\ job[j].step = "begin" /\ job[j].plan.be \in DOMAIN bes
       THEN faults' = faults
       ELSE faults < MaxFaults /\ faults' = faults + 1
    /\ UNCHANGED <<StartState, row, HostState, keys, claimed, req, ran, overlapped, excused>>

-----------------------------------------------------------------------------
(* Requests for boot environments: found first, then acted upon.           *)

LookForBe(r) ==
    LET be == req[r].be
        there == be \in DOMAIN bes
        may == CASE req[r].op = "create_be" -> ~there
                 [] req[r].op = "delete_be" -> there /\ ~bes[be].booted /\ ~bes[be].active
                 [] OTHER -> there
    IN  /\ At(r, "look") /\ req[r].op \in BeOps
        /\ IF may THEN Goto(r, "act") ELSE req' = Over(r)
        /\ UNCHANGED <<StartState, row, job, HostState, keys, claimed, ran, History>>

\* beadm refuses too.
ActOnBe(r) ==
    LET be == req[r].be IN
    /\ At(r, "act") /\ req[r].op \in BeOps
    /\ CASE req[r].op = "create_be" ->
              /\ be \notin DOMAIN bes
              /\ bes' = With(bes, be, [active |-> FALSE, booted |-> FALSE,
                                       image |-> bes[Active].image, by |-> "user"])
         [] req[r].op = "delete_be" ->
              /\ be \in DOMAIN bes /\ ~bes[be].booted /\ ~bes[be].active
              /\ bes' = [b \in DOMAIN bes \ {be} |-> bes[b]]
         [] OTHER -> be \in DOMAIN bes /\ bes' = ActiveOnly(bes, be)
    /\ req' = Over(r)
    /\ UNCHANGED <<StartState, row, job, offered, keys, claimed, ran, History>>

Publish ==
    /\ \E image \in Images : image # offered /\ offered = Current /\ offered' = image
    /\ UNCHANGED <<StartState, row, job, bes, keys, claimed, req, ran, History>>

-----------------------------------------------------------------------------
(* Consoles: one session at a time of a zone, from the claim before the    *)
(* upgrade to the end of the session.                                      *)

\* Mutant of MayAttach: the session is taken, whoever has it.
MayAttachAnyway == TRUE

MayAttach == ~claimed

Attach(r) ==
    /\ Doing(r, "attach", "look")
    /\ IF MayAttach THEN claimed' = TRUE /\ Goto(r, "attached")
       ELSE claimed' = claimed /\ req' = Over(r)
    /\ UNCHANGED <<StartState, row, job, HostState, keys, ran, History>>

\* The client, the terminal or the guest ends it.
Detach(r) ==
    /\ At(r, "attached")
    /\ claimed' = FALSE
    /\ req' = Over(r)
    /\ UNCHANGED <<StartState, row, job, HostState, keys, ran, History>>

\* The upgrade fails, and what would release the claim never runs.
UpgradeFails(r) ==
    /\ At(r, "attached") /\ faults < MaxFaults
    /\ faults' = faults + 1
    /\ req' = Over(r)
    /\ UNCHANGED <<StartState, row, job, HostState, keys, claimed, ran, overlapped, excused>>

-----------------------------------------------------------------------------
(* The start: the database is migrated, jobs are recovered, then the       *)
(* first-boot file is dealt with, then the certificate is loaded or made,  *)
(* then requests are served.                                               *)

\* Each migration in a transaction, its version with it.
Migrate ==
    /\ up = "down" /\ schema.version < Migrations
    /\ LET next == schema.version + 1
       IN  schema' = [version |-> next, applied |-> schema.applied \cup {next}]
    /\ UNCHANGED <<up, file, users, tls, row, job, HostState, keys, claimed, req, ran, History>>

Recover ==
    /\ up = "down" /\ schema.version = Migrations
    /\ up' = "firstboot"
    /\ job' = [j \in Requests |->
                 IF Unfinished(j) THEN [NoJob EXCEPT !.kind = job[j].kind, !.state = "failed"]
                 ELSE job[j]]
    /\ UNCHANGED <<file, users, schema, tls, row, HostState, keys, claimed, req, ran, History>>

\* Mutant of Applies: whoever there is, the file is applied.
AppliesAlways == file = "good"

Applies == file = "good" /\ ~users

FirstBoot ==
    /\ up = "firstboot"
    /\ up' = CASE file = "absent" -> "tls"
               [] file # "absent" /\ Applies -> "insert"
               [] OTHER -> "destroy"
    /\ UNCHANGED <<file, users, schema, tls, row, job, HostState, keys, claimed, req, ran, History>>

InsertAdmin ==
    /\ up = "insert"
    /\ users' = TRUE
    /\ up' = "destroy"
    /\ UNCHANGED <<file, schema, tls, row, job, HostState, keys, claimed, req, ran, History>>

DestroyFile ==
    /\ up = "destroy"
    /\ file' = "absent"
    /\ up' = "tls"
    /\ UNCHANGED <<users, schema, tls, row, job, HostState, keys, claimed, req, ran, History>>

\* The database fails: the daemon goes on, the file where it was.
FirstBootFails ==
    /\ up \in {"firstboot", "insert", "destroy"} /\ file # "absent" /\ faults < MaxFaults
    /\ faults' = faults + 1
    /\ up' = "tls"
    /\ UNCHANGED <<file, users, schema, tls, row, job, HostState, keys, claimed, req, ran,
                   overlapped, excused>>

\* What cannot be loaded ends the daemon; it is started again.
LoadOrGenerate ==
    /\ up = "tls"
    /\ IF tls.cert # NoFile /\ tls.key # NoFile
       THEN /\ up' = IF tls.cert \in Pairs /\ tls.key = tls.cert THEN "up" ELSE "down"
            /\ tls' = tls
       ELSE /\ up' = "write"
            /\ tls' = [tls EXCEPT !.made = Min(Pairs \ {tls.key, tls.cert})]
    /\ UNCHANGED <<file, users, schema, row, job, HostState, keys, claimed, req, ran, History>>

\* The key, then the certificate, each first truncated.
WritePair ==
    LET files == <<"key", "cert">>
        todo == {i \in {1, 2} : tls[files[i]] # tls.made}
        f == files[Min(todo)]
    IN  /\ up = "write"
        /\ IF todo = {} THEN up' = "up" /\ tls' = [tls EXCEPT !.made = NoFile]
           ELSE /\ up' = up
                /\ tls' = [tls EXCEPT ![f] = IF @ = Truncated THEN tls.made ELSE Truncated]
        /\ UNCHANGED <<file, users, schema, row, job, HostState, keys, claimed, req, ran, History>>

-----------------------------------------------------------------------------
(* The daemon dies, by itself or with the host.                            *)

Dies ==
    /\ up' = "down"
    /\ claimed' = FALSE
    /\ req' = [r \in Requests |-> IF At(r, "idle") THEN req[r] ELSE Over(r)[r]]
    /\ job' = [j \in Requests |-> [job[j] EXCEPT !.step = "none"]]
    /\ tls' = [tls EXCEPT !.made = NoFile]
    /\ excused' = excused \cup HeldBy(Unanswered)
    /\ UNCHANGED <<file, users, schema, row, offered, keys, ran, overlapped>>

Crash ==
    /\ up # "down" /\ faults < MaxFaults
    /\ faults' = faults + 1
    /\ Dies
    /\ UNCHANGED bes

\* After a reboot was asked for, whatever else is under way; then it is as a crash is.
HostReboots ==
    /\ up # "down" /\ \E j \in Requests : job[j].kind = "reboot" /\ job[j].state = "succeeded"
    /\ bes' = [b \in DOMAIN bes |-> [bes[b] EXCEPT !.booted = bes[b].active]]
    /\ bes' # bes
    /\ Dies
    /\ IF Busy = {} /\ ~Checking /\ ~Applying THEN faults' = faults
       ELSE faults < MaxFaults /\ faults' = faults + 1

\* A handler is dropped where it waits, or fails.
Drop(r) ==
    /\ At(r, "note") \/ At(r, "act") \/ At(r, "store")
    /\ faults < MaxFaults /\ faults' = faults + 1
    /\ req' = Over(r)
    /\ excused' = excused \cup HeldBy({r} \cap Unanswered)
    /\ UNCHANGED <<StartState, row, job, HostState, keys, claimed, ran, overlapped>>

-----------------------------------------------------------------------------
Init ==
    /\ up = "down" /\ file \in {"good", "bad"} /\ users \in BOOLEAN
    /\ \E n \in {0, Migrations - 1, Migrations} :
          schema = [version |-> n, applied |-> 1 .. n] /\ (users => n # 0)
    /\ tls \in {[key |-> f, cert |-> f, made |-> NoFile] : f \in {NoFile, 1}}
    /\ row = NoRow
    /\ job = [r \in Requests |-> NoJob]
    /\ bes = [b \in {<<Current, 1>>} |->
                [active |-> TRUE, booted |-> TRUE, image |-> Current, by |-> "install"]]
    /\ offered = Current
    /\ keys = [k \in Keys |-> [body |-> "none", age |-> Kept]] /\ ran = [k \in Keys |-> Kept]
    /\ claimed = FALSE
    /\ req = [r \in Requests |-> NewRequest]
    /\ overlapped = FALSE /\ faults = 0 /\ excused = {}

Starting ==
    \/ Migrate \/ Recover \/ FirstBoot \/ InsertAdmin \/ DestroyFile
    \/ LoadOrGenerate \/ WritePair

Next ==
    \/ \E r \in Requests :
          \/ Ask(r) \/ Lookup(r) \/ Store(r) \/ CreateUser(r)
          \/ LookForJobs(r) \/ StartJob(r) \/ NoteJob(r)
          \/ CheckPlans(r) \/ CheckSaves(r) \/ ApplyUpdates(r) \/ ApplySaves(r)
          \/ RebootAsks(r) \/ JobFails(r) \/ LookForBe(r) \/ ActOnBe(r)
          \/ Attach(r) \/ Detach(r) \/ UpgradeFails(r) \/ Drop(r)
    \/ Sweep \/ Tick \/ Publish \/ Starting \/ FirstBootFails \/ Crash \/ HostReboots

Spec == Init /\ [][Next]_vars
\* A started daemon goes on with its start.
FairSpec == Spec /\ WF_vars(Starting)

-----------------------------------------------------------------------------
(* Properties.                                                             *)

TypeOK ==
    /\ up \in {"down", "firstboot", "insert", "destroy", "tls", "write", "up"}
    /\ file \in {"good", "bad", "absent"} /\ users \in BOOLEAN
    /\ {row.check, row.apply} \subseteq Requests \cup {None}
    /\ \A r \in Requests : /\ req[r].stage \in Working \cup {"idle", "attached", "over"}
                           /\ job[r].kind \in JobOps \cup {"none"}
    /\ Cardinality({b \in DOMAIN bes : bes[b].active}) = 1
    /\ Cardinality({b \in DOMAIN bes : bes[b].booted}) = 1
    /\ faults \in 0 .. MaxFaults

UpdatesUnderway == {j \in Requests : job[j].kind \in UpdateOps /\ Unfinished(j)}

\* One boot environment boots next and one is booted; and no two checks or applies are under
\* way, unless requests met, one was dropped or the daemon died.  (start_check and
\* start_apply look in the row for jobs that only the end of a handler puts there.)
OneUpdateAtATime ==
    /\ TypeOK
    /\ Calm => Cardinality(UpdatesUnderway) <= 1

\* A plan that was made names the packages that differ between the boot environment booted
\* and what was offered (parse_dry_run); and when no update is under way, the boot
\* environment it names is not there to make its apply fail, or a user made it; again unless
\* requests met or something failed.  (The whole row is written back, by the ends of jobs
\* and of handlers.)
PlanCanBeApplied ==
    /\ \A j \in Requests : job[j].kind = "check" /\ job[j].step = "save" =>
          \E to \in Images :
             LET named == {job[j].plan.packages[i].name : i \in DOMAIN job[j].plan.packages}
             IN  named = Differing(bes[Booted].image, to) /\ to \in {offered, Current}
    /\ Calm /\ row.plan.be \in DOMAIN bes /\ UpdatesUnderway = {} =>
          bes[row.plan.be].by = "user"

\* What is asked under a key is done only if nothing was done under it in the last 24 hours,
\* whatever requests with other keys or none meet it, and whatever fails of theirs.  Two
\* requests with one key that meet may both do it, and so may a repeat of one that was
\* dropped, failed or died between its work and the storing of its answer; from the next
\* response stored by one alone the promise holds again.  (idempotency::layer, session::sweep)
OnceByKey ==
    [][\A r \in Requests : (StartJob(r) \/ CreateUser(r)) /\ req[r].key \in Keys \ excused =>
          ran[req[r].key] >= Kept]_vars

\* A zone has one console session at most, and its claim is taken while it has; without
\* failed upgrades it is taken only then, through any deaths of the daemon.
ConsoleIsExclusive ==
    LET attached == {r \in Requests : At(r, "attached")}
    IN  /\ Cardinality(attached) <= 1
        /\ attached # {} => claimed
        /\ faults = 0 /\ claimed => attached # {}

\* The first-boot file makes a user only where there is none, whenever the daemon died
\* before.  It serves with a whole schema and a certificate of its key alone.  When nothing
\* fails any more, a start destroys the file, and comes to serve, unless an earlier one died
\* while it wrote the certificate.
FirstBootOnce ==
    /\ [][InsertAdmin => ~users]_vars
    /\ [](up = "up" => schema.applied = 1 .. Migrations /\ tls.cert = tls.key)
    /\ (up = "down" /\ faults = MaxFaults) ~>
          (file = "absent" /\ (up = "up" \/ Truncated \in {tls.key, tls.cert}))
=============================================================================
