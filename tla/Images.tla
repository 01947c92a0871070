------------------------------- MODULE Images -------------------------------
(***************************************************************************)
(* Importing and deleting images in mandraked (crates/mandraked/src/       *)
(* images.rs and routes/images.rs, crates/mandrake-images/src/import.rs).  *)
(*                                                                         *)
(* An image is a row in the table images, a file in staging while its      *)
(* payload is downloaded, and a payload in ZFS (or an ISO file).  The      *)
(* handler of an import looks for the payload's hash among the rows,       *)
(* inserts its own, and starts the job; the job's task downloads, checks,  *)
(* lands the payload and says in the row how far it is, through a relay    *)
(* task; the handler of a delete reads the row, takes the payload away and *)
(* deletes the row.  Row, staging and payload change in different steps,   *)
(* between which the other side runs, a handler may be dropped, or the     *)
(* daemon die.                                                             *)
(*                                                                         *)
(* How a payload lands is in ImageStore.  Abstracted: which pool, the      *)
(* progress within a phase, metadata and events, errors of the database;   *)
(* the job's own row (Jobs).                                               *)
(***************************************************************************)
EXTENDS ImageStore

CONSTANTS
    Images,      \* image ids, drawn anew by every import
    Payloads,    \* sha256 hashes
    NoPayload,   \* no hash yet
    Types,       \* Types[i]: the types the image i may have
    MaxMishaps   \* bound: deaths of the daemon, handlers dropped, clean-ups that fail

ASSUME ImagesAssumption ==
    /\ NoPayload \notin Payloads
    /\ DOMAIN Types = Images
    /\ \A i \in Images : \A t \in Types[i] :
          t.kind \in Kinds /\ t.size \in Nat /\ t.content \in Nat
    /\ MaxMishaps \in Nat

VARIABLES
    row,       \* row[i]: the state in the row of i
    type,      \* type[i]: its type
    sha,       \* sha[i]: its payload's hash
    importer,  \* importer[i]: where the import of i is, handler then task
    said,      \* said[i]: phases the task has told the relay, not yet written
    staged,    \* images with a file in staging
    stored,    \* stored[i]: what is in the pool under the name of i
    deleter,   \* deleter[i]: where the delete of i is
    up,        \* the daemon is serving
    mishaps,   \* how many of those there have been
    raced,     \* two imports have been between look and INSERT at once
    stuck,     \* imports whose handler was dropped after its INSERT
    cut,       \* images whose delete was cut short after the payload had gone
    uncleaned  \* imports whose clean-up failed

history == <<raced, stuck, cut, uncleaned>>
vars == <<row, type, sha, importer, said, staged, stored, deleter, up, mishaps,
          raced, stuck, cut, uncleaned>>

Phases == {"downloading", "verifying", "importing"}
InFlight == {"pending"} \cup Phases
Rows == {"absent", "deleted"} \cup InFlight \cup {"ready", "failed"}

\* insert, spawn: the handler before its INSERT and before the job's task exists;
\* clean, landed: the task before it removes the staging file, having failed or
\* not; done: it has finished as ready; undone: it has finished without; lost:
\* handler or task went, and nobody told.
LandSteps == {"receive", "create", "fill", "keep", "snapshot"}
Tasks == {"prepare", "download", "verify", "destroy", "clean", "landed",
          "finish", "fail", "discard"} \cup LandSteps
Places == {"idle", "insert", "spawn", "done", "undone", "lost"} \cup Tasks

TypeOK ==
    /\ row \in [Images -> Rows]
    /\ sha \in [Images -> Payloads \cup {NoPayload}]
    /\ importer \in [Images -> Places]
    /\ said \in [Images -> Seq(Phases)]
    /\ staged \subseteq Images
    /\ stored \in [Images -> Contents]
    /\ deleter \in [Images -> {"idle", "remove", "unlist"}]
    /\ mishaps \in 0 .. MaxMishaps
    /\ up \in BOOLEAN
    /\ raced \in BOOLEAN
    /\ stuck \subseteq Images
    /\ cut \subseteq Images
    /\ uncleaned \subseteq Images

Init ==
    /\ row = [i \in Images |-> "absent"]
    /\ type \in {f \in [Images -> UNION {Types[i] : i \in Images}] :
                  \A i \in Images : f[i] \in Types[i]}
    /\ sha = [i \in Images |-> NoPayload]
    /\ importer = [i \in Images |-> "idle"]
    /\ said = [i \in Images |-> <<>>]
    /\ staged = {}
    /\ stored = [i \in Images |-> "nothing"]
    /\ deleter = [i \in Images |-> "idle"]
    /\ up = TRUE /\ mishaps = 0
    /\ raced = FALSE /\ stuck = {} /\ cut = {} /\ uncleaned = {}

Goto(i, place) == importer' = [importer EXCEPT ![i] = place]
Say(i, phase) == said' = [said EXCEPT ![i] = Append(@, phase)]

-----------------------------------------------------------------------------
(* The handler of an import: import_image.                                 *)

Listed(i) == row[i] \notin {"absent", "deleted"}

\* image_by_sha256
Taken(p) == \E i \in Images : sha[i] = p /\ Listed(i) /\ row[i] # "failed"

Check(i, p) ==
    /\ up
    /\ importer[i] = "idle"
    /\ ~Taken(p)
    /\ sha' = [sha EXCEPT ![i] = p]
    /\ Goto(i, "insert")
    /\ raced' = (raced \/ \E k \in Images : importer[k] = "insert")
    /\ UNCHANGED <<row, type, said, staged, stored, deleter, mishaps, up, stuck, cut, uncleaned>>

InsertRow(i) ==
    /\ up
    /\ importer[i] = "insert"
    /\ row' = [row EXCEPT ![i] = "pending"]
    /\ Goto(i, "spawn")
    /\ UNCHANGED <<type, sha, said, staged, stored, deleter, mishaps, up, history>>

StartImport(i) ==
    /\ up
    /\ importer[i] = "spawn"
    /\ Goto(i, "prepare")
    /\ UNCHANGED <<row, type, sha, said, staged, stored, deleter, mishaps, up, history>>

DropImport(i) ==
    /\ up
    /\ mishaps < MaxMishaps
    /\ importer[i] \in {"insert", "spawn"}
    /\ mishaps' = mishaps + 1
    /\ stuck' = IF importer[i] = "spawn" THEN stuck \cup {i} ELSE stuck
    /\ Goto(i, "lost")
    /\ UNCHANGED <<row, type, sha, said, staged, stored, deleter, up, raced, cut, uncleaned>>

-----------------------------------------------------------------------------
(* The task: Importer::run inside run_import.                              *)

\* The datasets of the store exist, or the import fails before it has begun.
Prepare(i) ==
    /\ up
    /\ importer[i] = "prepare"
    /\ \/ Goto(i, "download") /\ Say(i, "downloading")
       \/ Goto(i, "fail") /\ UNCHANGED said
    /\ UNCHANGED <<row, type, sha, staged, stored, deleter, mishaps, up, history>>

\* The file is there from the first byte, whether or not the last one comes.
Download(i) ==
    /\ up
    /\ importer[i] = "download"
    /\ \/ /\ staged' = staged \cup {i}
          /\ Goto(i, "verify") /\ Say(i, "verifying")
       \/ /\ staged' \in {staged, staged \cup {i}}
          /\ Goto(i, "clean") /\ UNCHANGED said
    /\ UNCHANGED <<row, type, sha, stored, deleter, mishaps, up, history>>

Verify(i) ==
    /\ up
    /\ importer[i] = "verify"
    /\ \/ Goto(i, Head(Steps(type[i]))) /\ Say(i, "importing")
       \/ Goto(i, "clean") /\ UNCHANGED said
    /\ UNCHANGED <<row, type, sha, staged, stored, deleter, mishaps, up, history>>

\* What failed half-way is destroyed, unless it is a file.
AfterStep(i, step, ok) ==
    CASE ok -> NextStep(type[i], step)
      [] ~ok /\ IsCloneable(type[i]) -> "destroy"
      [] OTHER -> "clean"

Land(i) ==
    LET step == importer[i]
    IN  /\ up
        /\ step \in LandSteps
        /\ \E outcome \in Outcomes(type[i], step, stored[i]) :
              /\ stored' = [stored EXCEPT ![i] = outcome.content]
              /\ staged' = IF step = "keep" /\ outcome.ok THEN staged \ {i} ELSE staged
              /\ Goto(i, AfterStep(i, step, outcome.ok))
        /\ UNCHANGED <<row, type, sha, said, deleter, mishaps, up, history>>

\* A clean-up that fails is passed over.
CleanedUp(i, cleaned, left) ==
    \/ cleaned /\ UNCHANGED <<mishaps, uncleaned>>
    \/ /\ left /\ mishaps < MaxMishaps
       /\ mishaps' = mishaps + 1 /\ uncleaned' = uncleaned \cup {i}

Destroy(i) ==
    /\ up
    /\ importer[i] = "destroy"
    /\ CleanedUp(i, stored' = [stored EXCEPT ![i] = "nothing"], UNCHANGED stored)
    /\ Goto(i, "clean")
    /\ UNCHANGED <<row, type, sha, said, staged, deleter, up, raced, stuck, cut>>

\* The staging file goes, however it went.
Clean(i) ==
    /\ up
    /\ importer[i] \in {"clean", "landed"}
    /\ CleanedUp(i, staged' = staged \ {i}, UNCHANGED staged)
    /\ Goto(i, IF importer[i] = "landed" THEN "finish" ELSE "fail")
    /\ UNCHANGED <<row, type, sha, said, stored, deleter, up, raced, stuck, cut>>

\* set_image_progress, by the relay: rows that have gone or failed stay so.
Relay(i) ==
    /\ up
    /\ said[i] # <<>>
    /\ row' = [row EXCEPT ![i] = IF Listed(i) /\ @ # "failed" THEN Head(said[i]) ELSE @]
    /\ said' = [said EXCEPT ![i] = Tail(@)]
    /\ UNCHANGED <<type, sha, importer, staged, stored, deleter, mishaps, up, history>>

\* Mutant of RelayDone: the task does not wait for the relay.
RelayDoneNever(i) == TRUE

\* relay.await
RelayDone(i) == said[i] = <<>>

\* finish_image; a row that is gone means that the image was deleted meanwhile.
Finish(i) ==
    /\ up
    /\ importer[i] = "finish"
    /\ RelayDone(i)
    /\ IF Listed(i) /\ row[i] # "failed"
       THEN row' = [row EXCEPT ![i] = "ready"] /\ Goto(i, "done")
       ELSE Goto(i, "discard") /\ UNCHANGED row
    /\ UNCHANGED <<type, sha, said, staged, stored, deleter, mishaps, up, history>>

Discarded(i) == "nothing"

Discard(i) ==
    /\ up
    /\ importer[i] = "discard"
    /\ CleanedUp(i, stored' = [stored EXCEPT ![i] = Discarded(i)], UNCHANGED stored)
    /\ Goto(i, "undone")
    /\ UNCHANGED <<row, type, sha, said, staged, deleter, up, raced, stuck, cut>>

\* fail_image
Fail(i) ==
    /\ up
    /\ importer[i] = "fail"
    /\ RelayDone(i)
    /\ row' = [row EXCEPT ![i] = IF Listed(i) THEN "failed" ELSE @]
    /\ Goto(i, "undone")
    /\ UNCHANGED <<type, sha, said, staged, stored, deleter, mishaps, up, history>>

-----------------------------------------------------------------------------
(* The handler of a delete: delete_image.                                  *)

\* find_image: only a ready image has its payload removed.
FindForDelete(i) ==
    /\ up
    /\ deleter[i] = "idle"
    /\ Listed(i)
    /\ deleter' = [deleter EXCEPT ![i] = IF row[i] = "ready" THEN "remove" ELSE "unlist"]
    /\ UNCHANGED <<row, type, sha, importer, said, staged, stored, mishaps, up, history>>

\* ZFS refuses while clones depend on it; then the request fails.
Remove(i) ==
    /\ up
    /\ deleter[i] = "remove"
    /\ \/ /\ stored' = [stored EXCEPT ![i] = "nothing"]
          /\ deleter' = [deleter EXCEPT ![i] = "unlist"]
       \/ /\ deleter' = [deleter EXCEPT ![i] = "idle"]
          /\ UNCHANGED stored
    /\ UNCHANGED <<row, type, sha, importer, said, staged, mishaps, up, history>>

Unlist(i) ==
    /\ up
    /\ deleter[i] = "unlist"
    /\ row' = [row EXCEPT ![i] = "deleted"]
    /\ deleter' = [deleter EXCEPT ![i] = "idle"]
    /\ UNCHANGED <<type, sha, importer, said, staged, stored, mishaps, up, history>>

DropDelete(i) ==
    /\ up
    /\ mishaps < MaxMishaps
    /\ deleter[i] # "idle"
    /\ mishaps' = mishaps + 1
    /\ cut' = IF stored[i] = "nothing" THEN cut \cup {i} ELSE cut
    /\ deleter' = [deleter EXCEPT ![i] = "idle"]
    /\ UNCHANGED <<row, type, sha, importer, said, staged, stored, up, raced, stuck, uncleaned>>

-----------------------------------------------------------------------------
(* The daemon.                                                             *)

Crash ==
    /\ up
    /\ mishaps < MaxMishaps
    /\ mishaps' = mishaps + 1
    /\ up' = FALSE
    /\ importer' = [i \in Images |->
                      IF importer[i] \in {"idle", "done", "undone"} THEN importer[i]
                                                                     ELSE "lost"]
    /\ said' = [i \in Images |-> <<>>]
    /\ deleter' = [i \in Images |-> "idle"]
    /\ cut' = cut \cup {i \in Images : deleter[i] = "unlist" /\ stored[i] = "nothing"}
    /\ stored' \in {f \in [Images -> Contents] :
                       \A i \in Images : f[i] \in Interrupted(importer[i], stored[i])}
    /\ UNCHANGED <<row, type, sha, staged, raced, stuck, uncleaned>>

\* Mutant of Recovered: pending rows are forgotten.
RecoveredPhases(state) == IF state \in Phases THEN "failed" ELSE state

Recovered(state) == IF state \in InFlight THEN "failed" ELSE state

Restart ==
    /\ ~up
    /\ up' = TRUE
    /\ row' = [i \in Images |-> Recovered(row[i])]
    /\ UNCHANGED <<type, sha, importer, said, staged, stored, deleter, mishaps, history>>

Task(i) ==
    \/ Prepare(i) \/ Download(i) \/ Verify(i) \/ Land(i) \/ Destroy(i)
    \/ Clean(i) \/ Finish(i) \/ Discard(i) \/ Fail(i)

Next ==
    \/ \E i \in Images :
          \/ \E p \in Payloads : Check(i, p)
          \/ InsertRow(i) \/ StartImport(i) \/ DropImport(i)
          \/ Task(i) \/ Relay(i)
          \/ FindForDelete(i) \/ Remove(i) \/ Unlist(i) \/ DropDelete(i)
    \/ Crash \/ Restart

Spec == Init /\ [][Next]_vars

\* Handlers and tasks run on, commands and downloads end, one way or the other,
\* and the service manager restarts.  Nobody has to import, delete or crash.
Fairness ==
    /\ \A i \in Images :
          WF_vars(InsertRow(i)) /\ WF_vars(StartImport(i))
          /\ WF_vars(Task(i)) /\ WF_vars(Relay(i))
    /\ WF_vars(Restart)

FairSpec == Spec /\ Fairness

-----------------------------------------------------------------------------
(* Properties.                                                             *)

\* An import that has ended has left nothing in staging, and without an image, having failed
\* or had its image deleted under it, nothing in the pool, unless the clean-up itself failed
\* (import.rs:78-79, "On failure nothing of the image is left behind except the error").
FailureLeavesNothing ==
    \A i \in Images \ uncleaned :
        /\ importer[i] \in {"done", "undone"} => i \notin staged
        /\ importer[i] = "undone" => stored[i] = "nothing"

\* What is ready stays ready until it is deleted: no late word of the relay, no
\* late failure and no recovery takes it back.
ReadyStays ==
    [][\A i \in Images : row[i] = "ready" => row'[i] \in {"ready", "deleted"}]_vars

\* No payload is imported twice, whatever fails, is deleted or dies, as long as no
\* two handlers are between their look at the rows and their INSERT.
OneImagePerPayload ==
    ~raced => \A i, k \in Images :
        /\ i # k /\ sha[i] = sha[k]
        /\ Listed(i) /\ row[i] # "failed"
        => ~Listed(k) \/ row[k] = "failed"

\* A ready image has all of its payload, whichever command failed while it landed, but while
\* it is being deleted, or for good when a delete was cut short between the payload and the
\* row.
ReadyIsStored ==
    \A i \in Images : row[i] = "ready" =>
        stored[i] = "payload" \/ deleter[i] = "unlist" \/ i \in cut

\* Row, staging and pool tell one story of every image.
ImagesAreWhole == TypeOK /\ FailureLeavesNothing /\ OneImagePerPayload /\ ReadyIsStored

\* Every import settles, if need be by the recovery, but one whose handler was
\* dropped between the INSERT and the job.
EveryImportSettles ==
    \A i \in Images : row[i] \in InFlight ~> row[i] \notin InFlight \/ i \in stuck
=============================================================================
