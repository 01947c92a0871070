------------------------------ MODULE TtlCache ------------------------------
(***************************************************************************)
(* The read cache of mandraked (crates/mandraked/src/cache.rs) between the *)
(* handlers that read a driver's list and those that change what it lists  *)
(* (routes/{network,storage,zones,vms,images}.rs, zones.rs, vms.rs).       *)
(*                                                                         *)
(* What a driver lists is a version number, raised by every change.  A     *)
(* reader that finds no fresh value runs the driver's command without      *)
(* holding the cache's lock, and then stores what the command has listed,  *)
(* whatever has happened to the cache meanwhile.  A writer runs its        *)
(* command and then clears the cache: two steps.                           *)
(*                                                                         *)
(* Time is counted in ticks, as ages that stop counting where they no      *)
(* longer matter.                                                          *)
(***************************************************************************)
EXTENDS Integers

CONSTANTS
    Readers,     \* handlers that read
    Writers,     \* handlers that write
    Ttl,         \* time to live of a value (drivers.rs: LIST_TTL)
    MaxFill,     \* longest time a driver's list command takes
    MaxChanges   \* bound: changes of what the driver lists

ASSUME TtlCacheAssumption ==
    /\ Ttl \in Nat \ {0}
    /\ MaxFill \in Nat
    /\ MaxChanges \in Nat

VARIABLES
    world,     \* the version the driver would list now
    slot,      \* the cached value, or Empty
    reader,    \* reader[r]: a reader's state and, when idle, its last answer
    writer,    \* writer[w]: the version it has made and not yet cleared for
    acked      \* the newest version whose writer has cleared the cache

cacheVars == <<world, slot, reader, writer, acked>>

Versions == 0 .. MaxChanges
Oldest == Ttl + MaxFill
Idle == -1

\* age: since the value was stored; data: since the driver listed it; late:
\* whether some writer cleared the cache while the value was being fetched.
Slots == [val : Versions, age : 0 .. Ttl, data : 0 .. Oldest, late : BOOLEAN]
Empty == [val |-> 0, age |-> Ttl, data |-> 0, late |-> FALSE]

\* idle: no answer; listing: the driver's command has yet to look; listed: it
\* has looked; answered: val is the answer.  since: how long the fetch has run.
Reading == {"listing", "listed"}
Reader == [at : Reading \cup {"idle", "answered"}, val : Versions,
           since : 0 .. MaxFill, data : 0 .. Oldest, late : BOOLEAN]
NewReader == [at |-> "idle", val |-> 0, since |-> 0, data |-> 0, late |-> FALSE]

CacheTypeOK ==
    /\ world \in Versions
    /\ slot \in Slots
    /\ reader \in [Readers -> Reader]
    /\ writer \in [Writers -> Versions \cup {Idle}]
    /\ acked \in Versions

CacheInit ==
    /\ world = 0
    /\ slot = Empty
    /\ reader = [r \in Readers |-> NewReader]
    /\ writer = [w \in Writers |-> Idle]
    /\ acked = 0

-----------------------------------------------------------------------------
(* Readers: get_or.                                                        *)

\* To every reader an empty slot is an expired one.
Fresh == slot.age < Ttl

Hit(r) ==
    /\ reader[r].at \notin Reading
    /\ Fresh
    /\ reader' = [reader EXCEPT ![r] =
                    [@ EXCEPT !.at = "answered", !.val = slot.val, !.data = slot.data]]
    /\ UNCHANGED <<world, slot, writer, acked>>

Miss(r) ==
    /\ reader[r].at \notin Reading
    /\ ~Fresh
    /\ reader' = [reader EXCEPT ![r] = [NewReader EXCEPT !.at = "listing"]]
    /\ UNCHANGED <<world, slot, writer, acked>>

List(r) ==
    /\ reader[r].at = "listing"
    /\ reader' = [reader EXCEPT ![r] = [@ EXCEPT !.at = "listed", !.val = world]]
    /\ UNCHANGED <<world, slot, writer, acked>>

Store(r) ==
    /\ reader[r].at = "listed"
    /\ slot' = [val |-> reader[r].val, age |-> 0, data |-> reader[r].data,
                late |-> reader[r].late]
    /\ reader' = [reader EXCEPT ![r].at = "answered"]
    /\ UNCHANGED <<world, writer, acked>>

\* The command fails or the request times out: no answer, nothing stored.
GiveUp(r) ==
    /\ reader[r].at \in Reading
    /\ reader' = [reader EXCEPT ![r] = NewReader]
    /\ UNCHANGED <<world, slot, writer, acked>>

-----------------------------------------------------------------------------
(* Writers: the driver's command, then clear.                              *)

Write(w) ==
    /\ writer[w] = Idle
    /\ world < MaxChanges
    /\ world' = world + 1
    /\ writer' = [writer EXCEPT ![w] = world + 1]
    /\ UNCHANGED <<slot, reader, acked>>

\* Mutant of Forget: clear() forgets nothing.
ForgetNothing == slot

Forget == Empty

Clear(w) ==
    /\ writer[w] # Idle
    /\ slot' = Forget
    /\ reader' = [r \in Readers |->
                    IF reader[r].at \in Reading
                    THEN [reader[r] EXCEPT !.late = TRUE] ELSE reader[r]]
    /\ acked' = IF acked < writer[w] THEN writer[w] ELSE acked
    /\ writer' = [writer EXCEPT ![w] = Idle]
    /\ UNCHANGED world

\* The handler is dropped, or returns an error, with its command half done:
\* what the driver lists has changed and nobody clears.
Abandon(w) ==
    /\ writer[w] # Idle
    /\ writer' = [writer EXCEPT ![w] = Idle]
    /\ UNCHANGED <<world, slot, reader, acked>>

\* An operator changes the host by hand: there is no writer at all.
ChangeByHand ==
    /\ world < MaxChanges
    /\ world' = world + 1
    /\ UNCHANGED <<slot, reader, writer, acked>>

-----------------------------------------------------------------------------
(* Time.                                                                   *)

\* Mutant of Aged: time does not count.
AgedNot == slot

Aged == IF Fresh THEN [slot EXCEPT !.age = @ + 1, !.data = @ + 1] ELSE Empty

Aging(rd) ==
    CASE rd.at = "listing" -> [rd EXCEPT !.since = @ + 1]
      [] rd.at = "listed" -> [rd EXCEPT !.since = @ + 1, !.data = @ + 1]
      [] OTHER -> rd

\* A list command that has run MaxFill ticks ends before the next.
Tick ==
    /\ \A r \in Readers : reader[r].at \in Reading => reader[r].since < MaxFill
    /\ slot' = Aged
    /\ reader' = [r \in Readers |-> Aging(reader[r])]
    /\ UNCHANGED <<world, writer, acked>>

CacheNext ==
    \/ \E r \in Readers : Hit(r) \/ Miss(r) \/ List(r) \/ Store(r) \/ GiveUp(r)
    \/ \E w \in Writers : Write(w) \/ Clear(w) \/ Abandon(w)
    \/ ChangeByHand
    \/ Tick

CacheSpec == CacheInit /\ [][CacheNext]_cacheVars

\* Time passes; a command that was started looks and ends.  Nobody has to read,
\* write or clear.
CacheFairness ==
    /\ WF_cacheVars(Tick)
    /\ \A r \in Readers : WF_cacheVars(List(r)) /\ WF_cacheVars(Store(r))

CacheFairSpec == CacheSpec /\ CacheFairness

-----------------------------------------------------------------------------
(* Properties.                                                             *)

\* However fills, clears and changes by hand interleave, an answer was true
\* less than a time to live plus one list command before it was given.
BoundedStaleness ==
    \A r \in Readers : reader[r].at = "answered" => reader[r].data < Oldest

\* The cache holds something older than a write that has cleared it only if the
\* fetch that stored it was running at that clear: this race is the one exception
\* to cache.rs:3-4, "every write the daemon performs clears the affected cache so
\* the next read sees the change at once".
StaleOnlyByRace ==
    slot.val < acked /\ Fresh => slot.late

\* What the cache answers is as old as it may be, and what it holds out of date by one race only.
StalenessIsBounded == CacheTypeOK /\ BoundedStaleness /\ StaleOnlyByRace

\* Once what the driver lists has settled, so has what the cache answers.
EventuallyCurrent == <>[](Fresh => slot.val = world)
=============================================================================
