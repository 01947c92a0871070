----------------------------- MODULE LoginGuard -----------------------------
(***************************************************************************)
(* What stands between a guesser and one user's password in mandraked: the *)
(* limiter of attempts per source address (auth/ratelimit.rs, in memory)   *)
(* and the lock on the user's row (routes/auth.rs, in the database).       *)
(*                                                                         *)
(* login() asks the limiter, turns malformed requests away, and makes the  *)
(* rest, attempt(), in one database call.  Time is counted in ticks, as    *)
(* ages: how long ago an attempt was, capped where it no longer matters.   *)
(*                                                                         *)
(* Abstracted: whether the password is right, which is up to the caller;   *)
(* users that do not exist, who have no row; steps of the wall clock.      *)
(***************************************************************************)
EXTENDS Naturals, Sequences, FiniteSets

CONSTANTS
    Sources,     \* source addresses
    LockAfter,   \* LOCK_AFTER: failures that lock (5)
    LockTicks,   \* LOCK_SECS: window and length of the lock (900 s)
    RateMax,     \* attempts per source (10)
    RateTicks,   \* and per this long (60 s)
    SweepAbove,  \* sources kept before idle ones are forgotten (10 000)
    MaxRestarts  \* bound: restarts of the daemon

ASSUME LoginGuardAssumption ==
    /\ LockAfter \in Nat \ {0, 1}
    /\ LockTicks \in Nat \ {0}
    /\ RateMax \in Nat \ {0}
    /\ RateTicks \in Nat \ {0}
    /\ SweepAbove \in Nat
    /\ MaxRestarts \in Nat

VARIABLES
    failed,     \* failed_logins of the row
    first,      \* age of first_failed_at; LockTicks stands for older and for NULL
    lock,       \* ticks until locked_until; 0 when not locked
    hits,       \* hits[s]: ages of the limiter's entries for s, oldest first
    failures,   \* history: ages of the failures since the last success
    passed,     \* history: passed[s], ages of the attempts of s let through
    restarts    \* restarts so far

lockRow == <<failed, first, lock>>
guardVars == <<failed, first, lock, hits, failures, passed, restarts>>

\* The front is popped while it no longer counts.
Recent(ages, limit) ==
    LET popped == CHOOSE n \in 0 .. Len(ages) :
                     /\ \A i \in 1 .. n : ages[i] >= limit
                     /\ n < Len(ages) => ages[n + 1] < limit
    IN  SubSeq(ages, popped + 1, Len(ages))
Older(ages, limit) == [n \in DOMAIN ages |-> IF ages[n] < limit THEN ages[n] + 1 ELSE limit]

GuardTypeOK ==
    /\ failed \in 0 .. LockAfter
    /\ first \in 0 .. LockTicks
    /\ lock \in 0 .. LockTicks
    /\ \A s \in Sources : hits[s] \in Seq(0 .. RateTicks) /\ Len(hits[s]) <= RateMax
    /\ failures \in Seq(0 .. LockTicks)
    /\ \A s \in Sources : passed[s] \in Seq(0 .. RateTicks)
    /\ restarts \in 0 .. MaxRestarts

GuardInit ==
    /\ failed = 0 /\ first = LockTicks /\ lock = 0
    /\ hits = [s \in Sources |-> <<>>]
    /\ failures = <<>>
    /\ passed = [s \in Sources |-> <<>>]
    /\ restarts = 0

-----------------------------------------------------------------------------
(* The limiter: check_at.  A source without entries is not in its map.     *)

Known == {s \in Sources : hits[s] # <<>>}

\* No entry of s still counts.
Lapsed(s) == hits[s][Len(hits[s])] >= RateTicks

\* What the map holds when an attempt of s is judged.
Swept(s) ==
    LET kept == IF Cardinality(Known) > SweepAbove
                THEN [t \in Sources |-> IF t \in Known /\ Lapsed(t) THEN <<>> ELSE hits[t]]
                ELSE hits
    IN  [kept EXCEPT ![s] = Recent(@, RateTicks)]

Judge(s, passes) ==
    /\ (Len(Swept(s)[s]) < RateMax) = passes
    /\ hits' = IF passes THEN [Swept(s) EXCEPT ![s] = Append(@, 0)] ELSE Swept(s)
    /\ passed' = IF passes
                 THEN [passed EXCEPT ![s] = Append(Recent(@, RateTicks), 0)]
                 ELSE passed

\* 429: nobody looks at the password.
Limited(s) ==
    /\ Judge(s, FALSE)
    /\ UNCHANGED <<lockRow, failures, restarts>>

\* A request with an impossible name or password costs an attempt all the same.
Malformed(s) ==
    /\ Judge(s, TRUE)
    /\ UNCHANGED <<lockRow, failures, restarts>>

-----------------------------------------------------------------------------
(* The lock: attempt.                                                      *)

Locked == lock > 0

\* Mutant of Refuse: an attempt while locked prolongs the lock.
RefuseLonger == lock' = LockTicks /\ UNCHANGED <<failed, first>>

Refuse == UNCHANGED lockRow

TryLocked(s) ==
    /\ Locked
    /\ Judge(s, TRUE)
    /\ Refuse
    /\ UNCHANGED <<failures, restarts>>

\* Mutant of Count: it starts again with every failure.
CountAnew == 1

\* The count belongs to the window of the first failure it counts.
Count == IF first < LockTicks THEN failed + 1 ELSE 1

Fail(s) ==
    /\ ~Locked
    /\ Judge(s, TRUE)
    /\ failed' = Count
    /\ first' = IF first < LockTicks THEN first ELSE 0
    /\ lock' = IF Count >= LockAfter THEN LockTicks ELSE 0
    /\ failures' = Append(failures, 0)
    /\ UNCHANGED restarts

Succeed(s) ==
    /\ ~Locked
    /\ Judge(s, TRUE)
    /\ failed' = 0 /\ first' = LockTicks /\ lock' = 0
    /\ failures' = <<>>
    /\ UNCHANGED restarts

-----------------------------------------------------------------------------

Tick ==
    /\ first' = IF first < LockTicks THEN first + 1 ELSE first
    /\ lock' = IF Locked THEN lock - 1 ELSE 0
    /\ hits' = [s \in Sources |-> Older(hits[s], RateTicks)]
    /\ failures' = Recent(Older(failures, LockTicks), LockTicks)
    /\ passed' = [s \in Sources |-> Recent(Older(passed[s], RateTicks), RateTicks)]
    /\ UNCHANGED <<failed, restarts>>

\* The limiter lives in memory, the lock in the database.
Restart ==
    /\ restarts < MaxRestarts
    /\ restarts' = restarts + 1
    /\ hits' = [s \in Sources |-> <<>>]
    /\ UNCHANGED <<lockRow, failures, passed>>

GuardNext ==
    \/ \E s \in Sources :
          Limited(s) \/ Malformed(s) \/ TryLocked(s) \/ Fail(s) \/ Succeed(s)
    \/ Tick
    \/ Restart

GuardSpec == GuardInit /\ [][GuardNext]_guardVars

\* Time passes, whatever the guessers do.
GuardFairSpec == GuardSpec /\ WF_guardVars(Tick)

-----------------------------------------------------------------------------
(* Properties.                                                             *)

\* Guessing is bounded: without the right password in between, the row takes at
\* most 2 * LockAfter - 2 wrong ones within LockTicks.  That is all but the first
\* of a window about to end, and one short of the lock, then those of the next
\* window, the one that locks included.
GuessesBounded == Len(failures) <= 2 * LockAfter - 2

\* However often the daemon restarts, a source passes at most RateMax attempts in
\* RateTicks, and as many again for every restart.
RateHolds ==
    \A s \in Sources : Len(passed[s]) <= (1 + restarts) * RateMax

\* Neither one user's password nor one source gets more guesses.
GuessingIsBounded == GuardTypeOK /\ GuessesBounded /\ RateHolds

\* A lock ends, even if the attempts never stop.
LockEnds == Locked ~> ~Locked
=============================================================================
