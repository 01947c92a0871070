---------------------------- MODULE EventStream ----------------------------
(***************************************************************************)
(* The event stream of mandraked: the table events, the in-process bus     *)
(* (crates/mandraked/src/events.rs), the WebSocket that replays and then   *)
(* follows (routes/events.rs), and the console that reads it and resumes   *)
(* with `since` after a drop (console/src/api/events.ts).                  *)
(*                                                                         *)
(* Publishing is two steps, in emit(), record() and publish() alike: the   *)
(* INSERT, which numbers the event, then the send on the bus.  Publishers  *)
(* run concurrently, so the order of the bus need not be the order of the  *)
(* numbers.  An event is its number here; number 0 is what a publisher     *)
(* sends when its INSERT has failed.                                       *)
(*                                                                         *)
(* Abstracted: what the events say, sockets that lose frames already sent, *)
(* and other subscribers, who share nothing with this one but the bus.     *)
(***************************************************************************)
EXTENDS Integers, Sequences, FiniteSets

CONSTANTS
    Publishers,    \* how many publishers may be between INSERT and send
    Capacity,      \* of the bus, per subscriber (1024)
    ReplayLimit,   \* of the replay's SELECT (1000)
    MaxEvents,     \* bound: events inserted
    MaxDrops,      \* bound: connections that drop
    MaxCrashes,    \* bound: deaths of the daemon
    Mishaps,       \* which of MishapKinds may strike
    MaxMishaps     \* bound: how often they strike

\* insert: an INSERT fails and the event is sent as number 0.
\* drop: the request timeout drops a handler between INSERT and send.
\* replay: the replay's SELECT fails, which counts as an empty replay.
\* power: the power fails, and the last commits with it (db.rs: journal_mode
\* WAL with synchronous NORMAL): their numbers will be given again.
MishapKinds == {"insert", "drop", "replay", "power"}

\* overlap: a publisher inserts while another has yet to send.
\* lag: a subscriber's queue overflows.  cut: the replay's LIMIT cuts it short.
Strains == {"overlap", "lag", "cut"}

ASSUME EventStreamAssumption ==
    /\ Publishers \in Nat \ {0}
    /\ Capacity \in Nat \ {0}
    /\ ReplayLimit \in Nat \ {0}
    /\ MaxEvents \in Nat
    /\ MaxDrops \in Nat
    /\ MaxCrashes \in Nat
    /\ MaxMishaps \in Nat
    /\ Mishaps \subseteq MishapKinds

VARIABLES
    up,         \* the daemon is serving
    lastId,     \* the table events holds 1 .. lastId
    pending,    \* numbers inserted and not yet sent
    conn,       \* the connection: away, joined (subscribed), live (in its loop)
    rx,         \* the subscriber's queue on the bus
    replay,     \* replayed events still to be sent
    lastSent,   \* last number sent, or the `since` of the request
    frames,     \* every frame the client has received, over all connections
    base,       \* lastId when the client joined without `since`
    drops, crashes, mishaps,  \* counters of the bounds
    struck      \* what has happened that may cost events: mishaps and Strains

daemonVars == <<up, lastId, pending>>
connVars == <<conn, rx, replay, lastSent>>
vars == <<up, lastId, pending, conn, rx, replay, lastSent, frames, base,
          drops, crashes, mishaps, struck>>

None == -1
Ids == 0 .. MaxEvents
Seen == {frames[n] : n \in 1 .. Len(frames)}

\* console/src/api/events.ts: lastId, undefined until a frame has come.
Cursor == IF frames = <<>> THEN None ELSE frames[Len(frames)]

TypeOK ==
    /\ up \in BOOLEAN
    /\ lastId \in Ids
    /\ pending \subseteq Ids
    /\ conn \in {"away", "joined", "live"}
    /\ rx \in Seq(Ids) /\ Len(rx) <= Capacity
    /\ replay \in Seq(Ids) /\ Len(replay) <= ReplayLimit
    /\ lastSent \in Ids \cup {None}
    /\ frames \in Seq(Ids)
    /\ base \in Ids
    /\ drops \in 0 .. MaxDrops
    /\ crashes \in 0 .. MaxCrashes
    /\ mishaps \in 0 .. MaxMishaps
    /\ struck \subseteq Mishaps \cup Strains

Init ==
    /\ up = TRUE
    /\ lastId = 0
    /\ pending = {}
    /\ conn = "away"
    /\ rx = <<>>
    /\ replay = <<>>
    /\ lastSent = None
    /\ frames = <<>>
    /\ base = 0
    /\ drops = 0 /\ crashes = 0 /\ mishaps = 0 /\ struck = {}

Mishap(kind) ==
    /\ kind \in Mishaps
    /\ mishaps < MaxMishaps
    /\ mishaps' = mishaps + 1
    /\ struck' = struck \cup {kind}

Strain(kind, present) ==
    /\ struck' = IF present THEN struck \cup {kind} ELSE struck
    /\ UNCHANGED mishaps

-----------------------------------------------------------------------------
(* Publishers.                                                             *)

Insert ==
    /\ up
    /\ Cardinality(pending) < Publishers
    /\ \/ /\ lastId < MaxEvents
          /\ lastId' = lastId + 1
          /\ pending' = pending \cup {lastId + 1}
          /\ Strain("overlap", pending # {})
       \/ /\ Mishap("insert")
          /\ pending' = pending \cup {0}
          /\ UNCHANGED lastId
    /\ UNCHANGED <<up, connVars, frames, base, drops, crashes>>

\* A full queue loses its oldest event; the receiver's Lagged is ignored.
Enqueue(queue, e) ==
    Append(IF Len(queue) = Capacity THEN Tail(queue) ELSE queue, e)

\* Mutant of Send: the handler subscribes after the replay.
SendAfterReplay(e) ==
    /\ up
    /\ e \in pending
    /\ pending' = pending \ {e}
    /\ rx' = IF conn = "live" THEN Enqueue(rx, e) ELSE rx
    /\ Strain("lag", conn = "live" /\ Len(rx) = Capacity)
    /\ UNCHANGED <<up, lastId, conn, replay, lastSent, frames, base, drops, crashes>>

Send(e) ==
    /\ up
    /\ e \in pending
    /\ pending' = pending \ {e}
    /\ rx' = IF conn = "away" THEN rx ELSE Enqueue(rx, e)
    /\ Strain("lag", conn # "away" /\ Len(rx) = Capacity)
    /\ UNCHANGED <<up, lastId, conn, replay, lastSent, frames, base, drops, crashes>>

DropHandler(e) ==
    /\ up
    /\ e \in pending
    /\ Mishap("drop")
    /\ pending' = pending \ {e}
    /\ UNCHANGED <<up, lastId, connVars, frames, base, drops, crashes>>

-----------------------------------------------------------------------------
(* The connection.                                                         *)

\* The handler subscribes before the upgrade, and so before the replay.
Subscribe ==
    /\ up
    /\ conn = "away"
    /\ conn' = "joined"
    /\ lastSent' = Cursor
    /\ base' = IF Cursor = None THEN lastId ELSE base
    /\ UNCHANGED <<daemonVars, rx, replay, frames, drops, crashes, mishaps, struck>>

\* Mutant of Backlog: the replay starts one event too late.
BacklogSkipping(since) ==
    LET count == IF since = None \/ since = lastId THEN 0 ELSE lastId - since - 1
    IN  [n \in 1 .. count |-> since + n + 1]

\* WHERE id > since ORDER BY id LIMIT ReplayLimit; none without `since`.
Backlog(since) ==
    LET count == IF since = None \/ since > lastId THEN 0
                 ELSE IF lastId - since < ReplayLimit THEN lastId - since
                 ELSE ReplayLimit
    IN  [n \in 1 .. count |-> since + n]

Replay ==
    /\ up
    /\ conn = "joined"
    /\ conn' = "live"
    /\ \/ /\ replay' = Backlog(lastSent)
          /\ Strain("cut", lastSent # None /\ lastId - lastSent > ReplayLimit)
       \/ Mishap("replay") /\ replay' = <<>>
    /\ UNCHANGED <<daemonVars, rx, lastSent, frames, base, drops, crashes>>

Deliver(e) ==
    /\ frames' = Append(frames, e)
    /\ lastSent' = e

SendReplayed ==
    /\ conn = "live"
    /\ replay # <<>>
    /\ replay' = Tail(replay)
    /\ Deliver(Head(replay))
    /\ UNCHANGED <<daemonVars, conn, rx, base, drops, crashes, mishaps, struck>>

\* The live loop skips what is not newer than the last event sent.
Follow(e) ==
    IF lastSent # None /\ e <= lastSent
    THEN UNCHANGED <<frames, lastSent>>
    ELSE Deliver(e)

Receive ==
    /\ conn = "live"
    /\ replay = <<>>
    /\ rx # <<>>
    /\ rx' = Tail(rx)
    /\ Follow(Head(rx))
    /\ UNCHANGED <<daemonVars, conn, replay, base, drops, crashes, mishaps, struck>>

Disconnected ==
    /\ conn' = "away"
    /\ rx' = <<>>
    /\ replay' = <<>>
    /\ lastSent' = None

DropConnection ==
    /\ conn # "away"
    /\ drops < MaxDrops
    /\ drops' = drops + 1
    /\ Disconnected
    /\ UNCHANGED <<daemonVars, frames, base, crashes, mishaps, struck>>

-----------------------------------------------------------------------------
(* The daemon.                                                             *)

Crash ==
    /\ up
    /\ crashes < MaxCrashes
    /\ crashes' = crashes + 1
    /\ up' = FALSE
    /\ pending' = {}
    /\ Disconnected
    /\ \/ UNCHANGED <<lastId, mishaps, struck>>
       \/ Mishap("power") /\ lastId' \in 0 .. lastId
    /\ UNCHANGED <<frames, base, drops>>

Restart ==
    /\ ~up
    /\ up' = TRUE
    /\ UNCHANGED <<lastId, pending, connVars, frames, base, drops, crashes, mishaps, struck>>

Next ==
    \/ Insert
    \/ \E e \in pending : Send(e) \/ DropHandler(e)
    \/ Subscribe \/ Replay \/ SendReplayed \/ Receive \/ DropConnection
    \/ Crash \/ Restart

Spec == Init /\ [][Next]_vars

\* Publishers that are not dropped run on, the socket's task runs on, the
\* console retries on a timer for ever, the service manager restarts.
Fairness ==
    /\ WF_vars(\E e \in pending : Send(e))
    /\ WF_vars(Subscribe)
    /\ WF_vars(Replay)
    /\ WF_vars(SendReplayed)
    /\ WF_vars(Receive)
    /\ WF_vars(Restart)

FairSpec == Spec /\ Fairness

-----------------------------------------------------------------------------
(* Properties.                                                             *)

\* The client never sees an event twice, nor an older one after a newer one,
\* over replays, live events and reconnections, whatever order the bus has.
InOrder ==
    \A n \in 1 .. Len(frames) : \A m \in 1 .. n - 1 : frames[m] < frames[n]

\* Nothing is under way towards the client.
Quiet ==
    /\ up /\ conn = "live"
    /\ replay = <<>> /\ rx = <<>> /\ pending = {}

\* A failed INSERT costs its own event only; anything else may cost others.
Excused == struck \ {"insert"} # {}

\* Since it joined, the client has missed nothing, through dropped connections
\* and restarts, unless one of the mishaps or strains named above has struck.
NothingLost == Quiet => (base + 1) .. lastId \subseteq Seen \/ Excused

\* What the client has seen is in order and complete.
StreamIsSound == TypeOK /\ InOrder /\ NothingLost

\* And whatever is inserted after the client joined reaches it (or the client
\* joins anew, without `since`).
EveryEventArrives ==
    \A e \in 1 .. MaxEvents :
        (base < e /\ e <= lastId) ~> (e \in Seen \/ e <= base \/ Excused)
=============================================================================
