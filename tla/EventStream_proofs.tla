------------------------- MODULE EventStream_proofs -------------------------
(***************************************************************************)
(* Proofs about EventStream, for any capacity, limit, number of publishers *)
(* and bounds, and any set of mishaps.                                     *)
(*                                                                         *)
(* TypeCorrect    Spec => []TypeOK                                         *)
(* FramesInOrder  Spec => []InOrder                                        *)
(* StreamSound    Spec => []StreamIsSound: NothingLost as well             *)
(*                                                                         *)
(* That nothing is lost rests on where an event that the client has yet to *)
(* see may be, and on the order it will come in: the live loop skips what  *)
(* is older than the last frame, so an event that comes late is lost.      *)
(***************************************************************************)
EXTENDS EventStream, TtlCache, SequenceTheorems, TLAPS

Within(queue, e) == \E n \in 1 .. Len(queue) : queue[n] = e
OnTheWay(e) == e \in pending \/ Within(rx, e) \/ Within(replay, e)

\* A connection goes on from the last frame; what it replays comes right after that one.
Connected ==
    /\ conn = "away" => rx = <<>>
    /\ conn # "away" => lastSent = Cursor
    /\ conn # "live" => replay = <<>>
    /\ replay # <<>> => lastSent # None
    /\ \A n \in 1 .. Len(replay) : replay[n] = lastSent + n

\* While no insert overlaps a send: only the last event is still to be sent, and the bus
\* holds older ones, each once and in their order (0 is no event).
BusInOrder ==
    /\ pending \subseteq {0, lastId}
    /\ \A n \in 1 .. Len(rx) :
          rx[n] <= lastId /\ (rx[n] = lastId /\ rx[n] # 0 => lastId \notin pending)
    /\ \A n \in 1 .. Len(rx) : \A m \in 1 .. n - 1 :
          rx[m] # 0 /\ rx[n] # 0 => rx[m] < rx[n]

\* Of the events since the client joined, it has seen those up to the last frame, and those
\* after that one are on their way, once it is clear that no replay will bring them.
Complete ==
    /\ Cursor <= lastId
    /\ \A n \in 1 .. Len(replay) : replay[n] <= lastId
    /\ \A e \in Ids : base < e /\ e <= Cursor => e \in Seen
    /\ conn = "live" \/ (conn = "joined" /\ lastSent = None) =>
          \A e \in Ids : base < e /\ lastSent < e /\ e <= lastId => OnTheWay(e)

Sound == ~Excused => BusInOrder /\ Complete

Inv == TypeOK /\ InOrder /\ Connected /\ Sound

-----------------------------------------------------------------------------
(* Bounds, and what excuses.                                               *)

LEMMA MishapType ==
    ASSUME TypeOK, NEW kind, Mishap(kind)
    PROVE  /\ mishaps' \in 0 .. MaxMishaps /\ struck' \subseteq Mishaps \cup Strains
           /\ Excused => Excused'
           /\ kind # "insert" => Excused'
<1>1. mishaps' \in 0 .. MaxMishaps
    BY EventStreamAssumption DEF TypeOK, Mishap
<1>2. struck' \subseteq Mishaps \cup Strains /\ struck \subseteq struck' /\ kind \in struck'
    BY DEF TypeOK, Mishap
<1> QED
    BY <1>1, <1>2 DEF Excused

LEMMA StrainType ==
    ASSUME TypeOK, NEW kind \in Strains, NEW present \in BOOLEAN, Strain(kind, present)
    PROVE  /\ mishaps' \in 0 .. MaxMishaps /\ struck' \subseteq Mishaps \cup Strains
           /\ Excused => Excused'
           /\ present => Excused'
BY EventStreamAssumption DEF TypeOK, Strain, Strains, Excused

LEMMA CursorType ==
    ASSUME TypeOK
    PROVE  /\ Cursor \in Ids \cup {None}
           /\ frames = <<>> => Cursor = None
           /\ frames # <<>> => Len(frames) \in Nat \ {0} /\ Cursor = frames[Len(frames)]
<1>1. Len(frames) \in Nat /\ (frames # <<>> => Len(frames) # 0)
    BY EmptySeq, LenProperties DEF TypeOK
<1>2. frames # <<>> => frames[Len(frames)] \in Ids
    BY <1>1, ElementOfSeq DEF TypeOK
<1> QED
    BY <1>1, <1>2 DEF Cursor

\* A newer event than the last frame becomes the last frame.
LEMMA Delivered ==
    ASSUME TypeOK, InOrder, NEW e \in Ids, Deliver(e), Cursor < e
    PROVE  /\ frames' \in Seq(Ids) /\ InOrder' /\ Cursor' = e /\ lastSent' = e
           /\ Seen \subseteq Seen' /\ e \in Seen'
<1>1. /\ frames' \in Seq(Ids) /\ frames' # <<>>
      /\ Len(frames') = Len(frames) + 1 /\ Len(frames) \in Nat
      /\ \A n \in 1 .. Len(frames) : frames'[n] = frames[n]
      /\ frames'[Len(frames) + 1] = e
    BY AppendProperties, LenProperties DEF TypeOK, Deliver
<1>2. \A n \in 1 .. Len(frames) : frames[n] \in Nat
  <2>1. \A n \in 1 .. Len(frames) : frames[n] \in Ids
      BY ElementOfSeq DEF TypeOK
  <2> QED
      BY <2>1, EventStreamAssumption DEF Ids
<1>3. \A n \in 1 .. Len(frames) : frames[n] < e
  <2> SUFFICES ASSUME NEW n \in 1 .. Len(frames) PROVE frames[n] < e
      OBVIOUS
  <2>1. Len(frames) # 0 /\ frames # <<>>
      BY <1>1, EmptySeq
  <2>2. Cursor = frames[Len(frames)] /\ Cursor \in Nat /\ e \in Nat
      BY <1>1, <1>2, <2>1 DEF Cursor, Ids
  <2>3. CASE n = Len(frames)
      BY <2>2, <2>3
  <2>4. CASE n # Len(frames)
    <3>1. n \in 1 .. Len(frames) - 1 /\ Len(frames) \in 1 .. Len(frames)
        BY <1>1, <2>4
    <3>2. frames[n] < frames[Len(frames)]
        BY <3>1 DEF InOrder
    <3> QED
        BY <1>2, <2>2, <3>2
  <2> QED
      BY <2>3, <2>4
<1>4. InOrder'
  <2> SUFFICES ASSUME NEW n \in 1 .. Len(frames'), NEW m \in 1 .. n - 1
               PROVE  frames'[m] < frames'[n]
      BY DEF InOrder
  <2>1. m \in 1 .. Len(frames)
      BY <1>1
  <2>2. CASE n = Len(frames) + 1
      BY <1>1, <1>3, <2>1, <2>2
  <2>3. CASE n # Len(frames) + 1
    <3>1. n \in 1 .. Len(frames)
        BY <1>1, <2>3
    <3> QED
        BY <1>1, <2>1, <3>1 DEF InOrder
  <2> QED
      BY <2>2, <2>3
<1>5. Cursor' = e /\ lastSent' = e
    BY <1>1 DEF Cursor, Deliver
<1>6. Seen \subseteq Seen' /\ e \in Seen'
    BY <1>1 DEF Seen
<1> QED
    BY <1>1, <1>4, <1>5, <1>6

\* A sequence without its first.
LEMMA Shifted ==
    ASSUME NEW s \in Seq(Ids), s # <<>>
    PROVE  /\ Head(s) = s[1] /\ Head(s) \in Ids /\ Tail(s) \in Seq(Ids)
           /\ Len(s) \in Nat \ {0} /\ Len(Tail(s)) = Len(s) - 1
           /\ \A n \in 1 .. Len(Tail(s)) : n + 1 \in 1 .. Len(s) /\ Tail(s)[n] = s[n + 1]
           /\ \A e : Within(s, e) => e = s[1] \/ Within(Tail(s), e)
<1>1. /\ Head(s) \in Ids /\ Tail(s) \in Seq(Ids)
      /\ Len(s) \in Nat \ {0} /\ Len(Tail(s)) = Len(s) - 1
      /\ \A n \in 1 .. Len(Tail(s)) : Tail(s)[n] = s[n + 1]
    BY HeadTailProperties, EmptySeq
<1>2. Head(s) = s[1]
    OBVIOUS
<1>3. ASSUME NEW e, Within(s, e), e # s[1] PROVE Within(Tail(s), e)
  <2>1. PICK n \in 1 .. Len(s) : s[n] = e
      BY <1>3 DEF Within
  <2>2. n - 1 \in 1 .. Len(Tail(s)) /\ Tail(s)[n - 1] = s[(n - 1) + 1] /\ (n - 1) + 1 = n
      BY <1>1, <1>3, <2>1
  <2> QED
      BY <2>1, <2>2 DEF Within
<1> QED
    BY <1>1, <1>2, <1>3

-----------------------------------------------------------------------------
(* Publishers.                                                             *)

LEMMA InitInv == Init => Inv
<1> SUFFICES ASSUME Init PROVE Inv
    OBVIOUS
<1>1. TypeOK
    BY EventStreamAssumption, EmptySeq DEF Init, TypeOK, Ids
<1>2. /\ frames = <<>> /\ rx = <<>> /\ replay = <<>> /\ Len(<<>>) = 0
      /\ Cursor = None /\ lastSent = None /\ conn = "away" /\ lastId = 0 /\ pending = {}
    BY EmptySeq DEF Init, Cursor
<1>3. InOrder /\ Connected
    BY <1>2 DEF InOrder, Connected
<1>4. BusInOrder
    BY <1>2 DEF BusInOrder
<1>5. Complete
    BY <1>2 DEF Complete, None, Ids
<1> QED
    BY <1>1, <1>3, <1>4, <1>5 DEF Inv, Sound

\* An event that is inserted, when no other is still to be sent, is the last.
LEMMA InsertInv == ASSUME Inv, Insert PROVE Inv'
<1> USE EventStreamAssumption
<1>1. UNCHANGED <<up, conn, rx, replay, lastSent, frames, base, drops, crashes>>
    BY DEF Insert, connVars
<1>2. (pending # {}) \in BOOLEAN /\ "overlap" \in Strains
    BY DEF Strains
<1>3. /\ mishaps' \in 0 .. MaxMishaps /\ struck' \subseteq Mishaps \cup Strains
      /\ Excused => Excused'
    BY <1>2, MishapType, StrainType DEF Insert, Inv
<1>4. \/ /\ lastId < MaxEvents /\ lastId' = lastId + 1 /\ pending' = pending \cup {lastId + 1}
         /\ pending # {} => Excused'
      \/ lastId' = lastId /\ pending' = pending \cup {0}
    BY <1>2, StrainType DEF Insert, Inv
<1>5. lastId' \in Ids /\ pending' \subseteq Ids /\ lastId <= lastId' /\ lastId \in Nat
  <2>1. lastId \in Nat /\ lastId <= MaxEvents /\ pending \subseteq Ids
      BY DEF Inv, TypeOK, Ids
  <2>2. lastId' \in Ids /\ lastId <= lastId'
      BY <1>4, <2>1 DEF Ids
  <2>3. lastId' \in Ids /\ 0 \in Ids
      BY <2>2 DEF Ids
  <2>4. pending' \subseteq pending \cup {0, lastId'}
      BY <1>4
  <2> QED
      BY <2>1, <2>2, <2>3, <2>4
<1>6. TypeOK'
    BY <1>1, <1>3, <1>5 DEF Inv, TypeOK
<1>7. InOrder' /\ Connected' /\ Cursor' = Cursor /\ Seen' = Seen
    BY <1>1 DEF Inv, InOrder, Connected, Cursor, Seen
<1>8. ASSUME ~Excused' PROVE BusInOrder' /\ Complete'
  <2>1. BusInOrder /\ Complete
      BY <1>3, <1>8 DEF Inv, Sound
  <2>2. \A n \in 1 .. Len(rx) : rx[n] \in Nat
      BY ElementOfSeq DEF Inv, TypeOK, Ids
  <2>3. \A n \in 1 .. Len(replay) : replay[n] \in Nat
      BY ElementOfSeq DEF Inv, TypeOK, Ids
  <2>4. BusInOrder'
    <3>1. pending' \subseteq {0, lastId'}
      <4>1. pending \subseteq {0, lastId}
          BY <2>1 DEF BusInOrder
      <4>2. \/ pending = {} /\ pending' = pending \cup {lastId'}
            \/ lastId' = lastId /\ pending' = pending \cup {0}
          BY <1>4, <1>8
      <4> QED
          BY <4>1, <4>2
    <3>2. ASSUME NEW n \in 1 .. Len(rx)
          PROVE  rx[n] <= lastId' /\ (rx[n] = lastId' /\ rx[n] # 0 => lastId' \notin pending')
        BY <1>4, <1>5, <2>1, <2>2, <3>2 DEF BusInOrder
    <3> QED
        BY <1>1, <2>1, <3>1, <3>2 DEF BusInOrder
  <2>5. Complete'
    <3>1. Cursor <= lastId'
        BY <1>5, <2>1, CursorType DEF Complete, Ids, None, Inv
    <3>2. \A n \in 1 .. Len(replay) : replay[n] <= lastId'
        BY <1>5, <2>1, <2>3 DEF Complete, Ids
    <3>3. ASSUME NEW e \in Ids, e <= lastId', ~(e <= lastId) PROVE e \in pending'
        BY <1>4, <1>5, <3>3 DEF Ids
    <3>4. pending \subseteq pending'
        BY <1>4
    <3> QED
        BY <1>1, <1>7, <2>1, <3>1, <3>2, <3>3, <3>4 DEF Complete, OnTheWay
  <2> QED
      BY <2>4, <2>5
<1> QED
    BY <1>6, <1>7, <1>8 DEF Inv, Sound

\* What is sent goes to the end of the queue, after all older ones.
LEMMA SendInv == ASSUME Inv, NEW e \in pending, Send(e) PROVE Inv'
<1> USE EventStreamAssumption
<1>1. /\ UNCHANGED <<up, lastId, conn, replay, lastSent, frames, base, drops, crashes>>
      /\ pending' = pending \ {e}
    BY DEF Send
<1>2. /\ mishaps' \in 0 .. MaxMishaps /\ struck' \subseteq Mishaps \cup Strains
      /\ Excused => Excused'
      /\ conn # "away" /\ Len(rx) = Capacity => Excused'
    BY StrainType DEF Send, Strains, Inv
<1>3. e \in Ids /\ rx \in Seq(Ids) /\ Len(rx) \in Nat /\ Len(rx) <= Capacity
    BY LenProperties DEF Inv, TypeOK
<1>4. rx' \in Seq(Ids) /\ Len(rx') <= Capacity
  <2>1. CASE conn = "away"
      BY <1>3, <2>1 DEF Send
  <2>2. CASE conn # "away" /\ Len(rx) = Capacity
    <3>1. rx # <<>>
        BY <1>3, <2>2, EmptySeq
    <3>2. Tail(rx) \in Seq(Ids) /\ Len(Tail(rx)) = Len(rx) - 1
        BY <1>3, <3>1, Shifted
    <3>3. rx' = Append(Tail(rx), e)
        BY <2>2 DEF Send, Enqueue
    <3> QED
        BY <1>3, <3>2, <3>3, AppendProperties
  <2>3. CASE conn # "away" /\ Len(rx) # Capacity
    <3>1. rx' = Append(rx, e)
        BY <2>3 DEF Send, Enqueue
    <3> QED
        BY <1>3, <2>3, <3>1, AppendProperties
  <2> QED
      BY <2>1, <2>2, <2>3
<1>5. TypeOK'
    BY <1>1, <1>2, <1>4 DEF Inv, TypeOK
<1>6. InOrder' /\ Connected' /\ Cursor' = Cursor /\ Seen' = Seen
  <2>1. conn = "away" => rx' = rx
      BY DEF Send
  <2> QED
      BY <1>1, <2>1 DEF Inv, InOrder, Connected, Cursor, Seen
<1>7. ASSUME ~Excused' PROVE BusInOrder' /\ Complete'
  <2>1. BusInOrder /\ Complete
      BY <1>2, <1>7 DEF Inv, Sound
  <2>2. CASE conn = "away"
    <3>1. rx' = rx
        BY <2>2 DEF Send
    <3> QED
        BY <1>1, <1>6, <2>1, <2>2, <3>1 DEF BusInOrder, Complete
  <2>3. CASE conn # "away"
    <3>1. rx' = Append(rx, e)
        BY <1>2, <1>7, <2>3 DEF Send, Enqueue
    <3>2. /\ Len(rx') = Len(rx) + 1 /\ rx'[Len(rx) + 1] = e
          /\ \A n \in 1 .. Len(rx) : rx'[n] = rx[n] /\ rx[n] \in Nat
        BY <1>3, <3>1, AppendProperties, ElementOfSeq DEF Ids
    <3>3. e \in {0, lastId} /\ lastId \in Nat
        BY <2>1 DEF BusInOrder, Inv, TypeOK, Ids
    <3>4. BusInOrder'
      <4>1. pending' \subseteq {0, lastId'}
          BY <1>1, <2>1 DEF BusInOrder
      <4>2. ASSUME NEW n \in 1 .. Len(rx')
            PROVE  /\ rx'[n] <= lastId
                   /\ rx'[n] = lastId /\ rx'[n] # 0 => lastId \notin pending'
        <5>1. CASE n = Len(rx) + 1
            BY <1>1, <3>2, <3>3, <5>1
        <5>2. CASE n \in 1 .. Len(rx)
            BY <1>1, <2>1, <3>2, <5>2 DEF BusInOrder
        <5> QED
            BY <1>3, <3>2, <4>2, <5>1, <5>2
      <4>3. ASSUME NEW n \in 1 .. Len(rx'), NEW m \in 1 .. n - 1, rx'[m] # 0, rx'[n] # 0
            PROVE  rx'[m] < rx'[n]
        <5>1. m \in 1 .. Len(rx)
            BY <1>3, <3>2
        <5>2. CASE n = Len(rx) + 1
          <6>1. rx'[n] = e /\ e = lastId /\ rx'[m] = rx[m] /\ rx[m] # 0
              BY <3>2, <3>3, <4>3, <5>1, <5>2
          <6>2. rx[m] <= lastId /\ rx[m] # lastId
              BY <2>1, <5>1, <6>1 DEF BusInOrder
          <6> QED
              BY <3>2, <3>3, <5>1, <6>1, <6>2
        <5>3. CASE n \in 1 .. Len(rx)
            BY <2>1, <3>2, <4>3, <5>1, <5>3 DEF BusInOrder
        <5> QED
            BY <1>3, <3>2, <5>2, <5>3
      <4> QED
          BY <1>1, <4>1, <4>2, <4>3 DEF BusInOrder
    <3>5. ASSUME NEW i, OnTheWay(i) PROVE OnTheWay(i)'
      <4>1. CASE i = e
        <5>1. Len(rx) + 1 \in 1 .. Len(rx')
            BY <1>3, <3>2
        <5> QED
            BY <3>2, <4>1, <5>1 DEF OnTheWay, Within
      <4>2. CASE i \in pending /\ i # e
          BY <1>1, <4>2 DEF OnTheWay
      <4>3. CASE Within(rx, i)
        <5>1. PICK n \in 1 .. Len(rx) : rx[n] = i
            BY <4>3 DEF Within
        <5>2. n \in 1 .. Len(rx') /\ rx'[n] = i
            BY <1>3, <3>2, <5>1
        <5> QED
            BY <5>2 DEF OnTheWay, Within
      <4>4. CASE Within(replay, i)
          BY <1>1, <4>4 DEF OnTheWay, Within
      <4> QED
          BY <3>5, <4>1, <4>2, <4>3, <4>4 DEF OnTheWay
    <3>6. Complete'
        BY <1>1, <1>6, <2>1, <3>5 DEF Complete
    <3> QED
        BY <3>4, <3>6
  <2> QED
      BY <2>2, <2>3
<1> QED
    BY <1>5, <1>6, <1>7 DEF Inv, Sound

\* A handler that is dropped excuses what is lost.
LEMMA DropHandlerInv == ASSUME Inv, NEW e \in pending, DropHandler(e) PROVE Inv'
<1>1. UNCHANGED <<up, lastId, conn, rx, replay, lastSent, frames, base, drops, crashes>>
    BY DEF DropHandler, connVars
<1>2. /\ mishaps' \in 0 .. MaxMishaps /\ struck' \subseteq Mishaps \cup Strains /\ Excused'
    BY MishapType DEF DropHandler, Inv
<1>3. TypeOK'
    BY <1>1, <1>2 DEF DropHandler, Inv, TypeOK
<1>4. InOrder' /\ Connected'
    BY <1>1 DEF Inv, InOrder, Connected, Cursor
<1> QED
    BY <1>2, <1>3, <1>4 DEF Inv, Sound

-----------------------------------------------------------------------------
(* The connection.                                                         *)

LEMMA SubscribeInv == ASSUME Inv, Subscribe PROVE Inv'
<1>1. /\ UNCHANGED <<up, lastId, pending, rx, replay, frames, drops, crashes, mishaps, struck>>
      /\ conn = "away" /\ conn' = "joined" /\ lastSent' = Cursor
      /\ base' = IF Cursor = None THEN lastId ELSE base
    BY DEF Subscribe, daemonVars
<1>2. Cursor \in Ids \cup {None} /\ Cursor' = Cursor /\ Seen' = Seen
    BY <1>1, CursorType DEF Inv, Cursor, Seen
<1>3. TypeOK'
    BY <1>1, <1>2 DEF Inv, TypeOK
<1>4. InOrder' /\ Connected' /\ replay = <<>> /\ rx = <<>>
    BY <1>1, <1>2, EmptySeq DEF Inv, InOrder, Connected
<1>5. ASSUME ~Excused' PROVE BusInOrder' /\ Complete'
  <2>1. BusInOrder /\ Complete
      BY <1>1, <1>5 DEF Inv, Sound, Excused
  <2>2. BusInOrder'
      BY <1>1, <2>1 DEF BusInOrder
  <2>3. ASSUME NEW e \in Ids, base' < e, e <= Cursor PROVE e \in Seen
    <3>1. Cursor # None
        BY <2>3, EventStreamAssumption DEF Ids, None
    <3> QED
        BY <1>1, <2>1, <2>3, <3>1 DEF Complete
  <2>4. ASSUME Cursor = None, NEW e \in Ids, base' < e, e <= lastId PROVE FALSE
    <3>1. base' = lastId /\ lastId \in Nat /\ e \in Nat
        BY <1>1, <2>4, EventStreamAssumption DEF Inv, TypeOK, Ids
    <3> QED
        BY <2>4, <3>1
  <2>5. Complete'
      BY <1>1, <1>2, <1>4, <2>1, <2>3, <2>4 DEF Complete
  <2> QED
      BY <2>2, <2>5
<1> QED
    BY <1>3, <1>4, <1>5 DEF Inv, Sound

\* What the replay's SELECT returns.
LEMMA BacklogIs ==
    ASSUME TypeOK, NEW since \in Ids \cup {None}
    PROVE  /\ Backlog(since) \in Seq(Ids) /\ Len(Backlog(since)) <= ReplayLimit
           /\ since = None => Backlog(since) = <<>>
           /\ \A n \in 1 .. Len(Backlog(since)) :
                 Backlog(since)[n] = since + n /\ since + n <= lastId
           /\ since # None /\ lastId - since <= ReplayLimit =>
                 \A e \in Ids : since < e /\ e <= lastId => Within(Backlog(since), e)
<1> DEFINE count == IF since = None \/ since > lastId THEN 0
                    ELSE IF lastId - since < ReplayLimit THEN lastId - since
                    ELSE ReplayLimit
           s == [n \in 1 .. count |-> since + n]
<1>0. /\ lastId \in Nat /\ lastId <= MaxEvents /\ ReplayLimit \in Nat /\ MaxEvents \in Nat
      /\ since \in Int /\ since >= -1 /\ (since # None => since \in Nat)
    BY EventStreamAssumption DEF TypeOK, Ids, None
<1>1. /\ count \in Nat /\ count <= ReplayLimit
      /\ since = None => count = 0
      /\ \A n \in 1 .. count : since + n \in Nat /\ since + n <= lastId
    BY <1>0
<1>2. since # None /\ since <= lastId /\ lastId - since <= ReplayLimit => count = lastId - since
    BY <1>0
<1>3. s = Backlog(since)
    BY DEF Backlog
<1> HIDE DEF count
<1>4. s \in [1 .. count -> Ids]
    BY <1>0, <1>1 DEF Ids
<1>5. s \in Seq(Ids)
    BY <1>1, <1>4, SeqDef
<1>6. Len(s) = count
  <2>1. DOMAIN s = 1 .. count /\ DOMAIN s = 1 .. Len(s) /\ Len(s) \in Nat
      BY <1>5, LenProperties
  <2> QED
      BY <1>1, <2>1
<1>7. \A n \in 1 .. Len(s) : s[n] = since + n
    BY <1>6
<1>8. ASSUME since = None PROVE s = <<>>
    BY <1>1, <1>5, <1>6, <1>8, EmptySeq
<1>9. ASSUME since # None, lastId - since <= ReplayLimit, NEW e \in Ids, since < e, e <= lastId
      PROVE  Within(s, e)
  <2>1. e \in Nat /\ since <= lastId
      BY <1>0, <1>9 DEF Ids
  <2>2. e - since \in 1 .. count /\ since + (e - since) = e
      BY <1>0, <1>2, <1>9, <2>1
  <2> QED
      BY <1>6, <1>7, <2>2 DEF Within
<1> HIDE DEF s
<1> QED
    BY <1>1, <1>3, <1>5, <1>6, <1>7, <1>8, <1>9

LEMMA ReplayInv == ASSUME Inv, Replay PROVE Inv'
<1>1. /\ UNCHANGED <<up, lastId, pending, rx, lastSent, frames, base, drops, crashes>>
      /\ conn = "joined" /\ conn' = "live"
    BY DEF Replay, daemonVars
<1>2. /\ lastSent = Cursor /\ Cursor' = Cursor /\ Seen' = Seen /\ lastSent \in Ids \cup {None}
    BY <1>1 DEF Inv, TypeOK, Connected, Cursor, Seen
<1>3. /\ replay' \in Seq(Ids) /\ Len(replay') <= ReplayLimit
      /\ replay' # <<>> => lastSent # None
      /\ \A n \in 1 .. Len(replay') : replay'[n] = lastSent + n /\ replay'[n] <= lastId
  <2>1. CASE replay' = Backlog(lastSent)
      BY <1>2, <2>1, BacklogIs DEF Inv
  <2>2. CASE replay' = <<>>
      BY <2>2, EmptySeq, EventStreamAssumption
  <2> QED
      BY <2>1, <2>2 DEF Replay
<1>4. /\ mishaps' \in 0 .. MaxMishaps /\ struck' \subseteq Mishaps \cup Strains
      /\ Excused => Excused'
      /\ \/ /\ replay' = Backlog(lastSent)
            /\ lastSent # None /\ lastId - lastSent > ReplayLimit => Excused'
         \/ Excused'
  <2> DEFINE present == lastSent # None /\ lastId - lastSent > ReplayLimit
  <2>1. CASE replay' = Backlog(lastSent) /\ Strain("cut", present)
    <3>1. present \in BOOLEAN /\ "cut" \in Strains
        BY DEF Strains
    <3> HIDE DEF present
    <3>2. /\ mishaps' \in 0 .. MaxMishaps /\ struck' \subseteq Mishaps \cup Strains
          /\ Excused => Excused'
          /\ present => Excused'
        BY <2>1, <3>1, StrainType DEF Inv
    <3> QED
        BY <2>1, <3>2 DEF present
  <2>2. CASE Mishap("replay")
      BY <2>2, MishapType DEF Inv
  <2> QED
      BY <2>1, <2>2 DEF Replay
<1>5. TypeOK'
    BY <1>1, <1>3, <1>4 DEF Inv, TypeOK
<1>6. InOrder' /\ Connected'
    BY <1>1, <1>2, <1>3 DEF Inv, InOrder, Connected
<1>7. ASSUME ~Excused' PROVE BusInOrder' /\ Complete'
  <2>1. BusInOrder /\ Complete
      BY <1>4, <1>7 DEF Inv, Sound
  <2>2. replay' = Backlog(lastSent) /\ (lastSent # None => lastId - lastSent <= ReplayLimit)
    <3>1. lastSent # None => lastSent \in Nat /\ lastId \in Nat /\ ReplayLimit \in Nat
        BY <1>2, EventStreamAssumption DEF Inv, TypeOK, Ids
    <3> QED
        BY <1>4, <1>7, <3>1
  <2>3. BusInOrder'
      BY <1>1, <2>1 DEF BusInOrder
  <2>4. ASSUME NEW e \in Ids, base < e, lastSent < e, e <= lastId PROVE OnTheWay(e)'
    <3>1. CASE lastSent = None
      <4>1. e \in pending \/ Within(rx, e) \/ Within(replay, e)
          BY <1>1, <2>1, <2>4, <3>1 DEF Complete, OnTheWay
      <4>2. ~Within(replay, e)
          BY <1>1, EmptySeq DEF Inv, Connected, Within
      <4> QED
          BY <1>1, <4>1, <4>2 DEF OnTheWay, Within
    <3>2. CASE lastSent # None
      <4>1. Within(Backlog(lastSent), e)
          BY <1>2, <2>2, <2>4, <3>2, BacklogIs DEF Inv
      <4> QED
          BY <2>2, <4>1 DEF OnTheWay
    <3> QED
        BY <3>1, <3>2
  <2>5. Complete'
      BY <1>1, <1>2, <1>3, <2>1, <2>4 DEF Complete
  <2> QED
      BY <2>3, <2>5
<1> QED
    BY <1>5, <1>6, <1>7 DEF Inv, Sound

\* The next replayed event comes right after the last frame.
LEMMA SendReplayedInv == ASSUME Inv, SendReplayed PROVE Inv'
<1> DEFINE e == Head(replay)
<1>1. /\ UNCHANGED <<up, lastId, pending, conn, rx, base, drops, crashes, mishaps, struck>>
      /\ conn = "live" /\ replay # <<>> /\ replay' = Tail(replay) /\ Deliver(e)
    BY DEF SendReplayed, daemonVars
<1>2. /\ e = replay[1] /\ e \in Ids /\ replay' \in Seq(Ids)
      /\ Len(replay) \in Nat \ {0} /\ Len(replay') = Len(replay) - 1
      /\ \A n \in 1 .. Len(replay') : n + 1 \in 1 .. Len(replay) /\ replay'[n] = replay[n + 1]
      /\ \A i : Within(replay, i) => i = e \/ Within(replay', i)
    BY <1>1, Shifted DEF Inv, TypeOK
<1>3. /\ lastSent \in Nat /\ lastSent = Cursor /\ lastSent \in Ids /\ e = lastSent + 1
      /\ e \in Nat
  <2>1. lastSent = Cursor /\ lastSent \in Ids
      BY <1>1 DEF Inv, TypeOK, Connected
  <2>2. 1 \in 1 .. Len(replay)
      BY <1>2
  <2>3. replay[1] = lastSent + 1
      BY <2>2 DEF Inv, Connected
  <2> QED
      BY <1>2, <2>1, <2>3, EventStreamAssumption DEF Ids
<1> HIDE DEF e
<1>4. /\ frames' \in Seq(Ids) /\ InOrder' /\ Cursor' = e /\ lastSent' = e
      /\ Seen \subseteq Seen' /\ e \in Seen'
    BY <1>1, <1>2, <1>3, Delivered DEF Inv
<1>5. TypeOK'
  <2>1. Len(replay') <= ReplayLimit
      BY <1>2, EventStreamAssumption DEF Inv, TypeOK
  <2> QED
      BY <1>1, <1>2, <1>4, <2>1 DEF Inv, TypeOK
<1>6. Connected'
  <2>1. ASSUME NEW n \in 1 .. Len(replay') PROVE replay'[n] = lastSent' + n
    <3>1. replay'[n] = replay[n + 1] /\ replay[n + 1] = lastSent + (n + 1)
        BY <1>2 DEF Inv, Connected
    <3> QED
        BY <1>3, <1>4, <3>1
  <2>2. lastSent' # None
      BY <1>3, <1>4 DEF None
  <2> QED
      BY <1>1, <1>4, <2>1, <2>2 DEF Connected
<1>7. ASSUME ~Excused' PROVE BusInOrder' /\ Complete'
  <2>1. BusInOrder /\ Complete
      BY <1>1, <1>7 DEF Inv, Sound, Excused
  <2>2. BusInOrder'
      BY <1>1, <2>1 DEF BusInOrder
  <2>3. Cursor' <= lastId
    <3>1. 1 \in 1 .. Len(replay)
        BY <1>2
    <3> QED
        BY <1>2, <1>4, <2>1, <3>1 DEF Complete
  <2>4. \A n \in 1 .. Len(replay') : replay'[n] <= lastId
      BY <1>2, <2>1 DEF Complete
  <2>5. ASSUME NEW i \in Ids, base < i, i <= e PROVE i \in Seen'
    <3>1. i = e \/ i <= lastSent
        BY <1>3, <2>5, EventStreamAssumption DEF Ids
    <3> QED
        BY <1>3, <1>4, <2>1, <2>5, <3>1 DEF Complete
  <2>6. ASSUME NEW i \in Ids, base < i, e < i, i <= lastId PROVE OnTheWay(i)'
    <3>1. lastSent < i /\ i # e
        BY <1>3, <2>6, EventStreamAssumption DEF Ids
    <3>2. OnTheWay(i)
        BY <1>1, <2>1, <2>6, <3>1 DEF Complete
    <3> QED
        BY <1>1, <1>2, <3>1, <3>2 DEF OnTheWay, Within
  <2>7. Complete'
      BY <1>1, <1>4, <2>3, <2>4, <2>5, <2>6 DEF Complete
  <2> QED
      BY <2>2, <2>7
<1> QED
    BY <1>4, <1>5, <1>6, <1>7 DEF Inv, Sound

\* What the live loop receives it sends if it is newer; and nothing older is then to come.
LEMMA ReceiveInv == ASSUME Inv, Receive PROVE Inv'
<1> DEFINE e == Head(rx)
<1>1. /\ UNCHANGED <<up, lastId, pending, conn, replay, base, drops, crashes, mishaps, struck>>
      /\ conn = "live" /\ replay = <<>> /\ rx # <<>> /\ rx' = Tail(rx) /\ Follow(e)
    BY DEF Receive, daemonVars
<1>2. /\ e = rx[1] /\ e \in Ids /\ rx' \in Seq(Ids)
      /\ Len(rx) \in Nat \ {0} /\ Len(rx') = Len(rx) - 1
      /\ \A n \in 1 .. Len(rx') : n + 1 \in 1 .. Len(rx) /\ rx'[n] = rx[n + 1]
      /\ \A i : Within(rx, i) => i = e \/ Within(rx', i)
    BY <1>1, Shifted DEF Inv, TypeOK
<1>3. lastSent = Cursor /\ lastSent \in Ids \cup {None} /\ lastSent \in Int /\ e \in Nat
    BY <1>1, <1>2, EventStreamAssumption DEF Inv, TypeOK, Connected, Ids, None
<1>4. Len(rx') <= Capacity
    BY <1>2, EventStreamAssumption DEF Inv, TypeOK
<1> HIDE DEF e
<1>5. ASSUME ~Excused PROVE BusInOrder'
  <2>1. BusInOrder
      BY <1>5 DEF Inv, Sound
  <2>2. ASSUME NEW n \in 1 .. Len(rx'), NEW m \in 1 .. n - 1, rx'[m] # 0, rx'[n] # 0
        PROVE  rx'[m] < rx'[n]
    <3>1. m \in 1 .. Len(rx') /\ m + 1 \in 1 .. (n + 1) - 1
        BY <1>2
    <3>2. rx'[m] = rx[m + 1] /\ rx'[n] = rx[n + 1] /\ n + 1 \in 1 .. Len(rx)
        BY <1>2, <3>1
    <3> QED
        BY <2>1, <2>2, <3>1, <3>2 DEF BusInOrder
  <2> QED
      BY <1>1, <1>2, <2>1, <2>2 DEF BusInOrder
<1>6. CASE lastSent # None /\ e <= lastSent
  <2>1. frames' = frames /\ lastSent' = lastSent
      BY <1>6 DEF Follow, Receive, e
  <2>2. TypeOK'
      BY <1>1, <1>2, <1>4, <2>1 DEF Inv, TypeOK
  <2>3. InOrder' /\ Connected' /\ Cursor' = Cursor /\ Seen' = Seen
      BY <1>1, <2>1 DEF Inv, InOrder, Connected, Cursor, Seen
  <2>4. ASSUME ~Excused PROVE Complete'
    <3>1. Complete
        BY <2>4 DEF Inv, Sound
    <3>2. ASSUME NEW i \in Ids, base < i, lastSent < i, i <= lastId PROVE OnTheWay(i)'
      <4>1. i # e
          BY <1>3, <1>6, <3>2, EventStreamAssumption DEF Ids
      <4>2. OnTheWay(i)
          BY <1>1, <3>1, <3>2 DEF Complete
      <4> QED
          BY <1>1, <1>2, <4>1, <4>2 DEF OnTheWay, Within
    <3> QED
        BY <1>1, <2>1, <2>3, <3>1, <3>2 DEF Complete
  <2>5. Sound'
      BY <1>1, <1>5, <2>4 DEF Sound, Excused
  <2> QED
      BY <2>2, <2>3, <2>5 DEF Inv
<1>7. CASE ~(lastSent # None /\ e <= lastSent)
  <2>1. Cursor < e /\ Deliver(e)
    <3>1. Deliver(e)
        BY <1>1, <1>7 DEF Follow
    <3>2. lastSent = None \/ ~(e <= lastSent)
        BY <1>7
    <3> QED
        BY <1>3, <3>1, <3>2 DEF None
  <2>2. /\ frames' \in Seq(Ids) /\ InOrder' /\ Cursor' = e /\ lastSent' = e
        /\ Seen \subseteq Seen' /\ e \in Seen'
      BY <1>2, <2>1, Delivered DEF Inv
  <2>3. TypeOK'
      BY <1>1, <1>2, <1>4, <2>2 DEF Inv, TypeOK
  <2>4. Connected'
      BY <1>1, <2>2, EmptySeq DEF Inv, Connected
  <2>5. ASSUME ~Excused PROVE Complete'
    <3>1. Complete /\ BusInOrder /\ lastId \in Nat
        BY <2>5, EventStreamAssumption DEF Inv, Sound, TypeOK, Ids
    <3>2. 1 \in 1 .. Len(rx)
        BY <1>2
    <3>3. e <= lastId
        BY <1>2, <3>1, <3>2 DEF BusInOrder
    <3>4. ASSUME NEW i \in Ids, base < i, lastSent < i, i < e PROVE FALSE
      <4>1. i \in Nat /\ base \in Nat /\ i # 0 /\ i # e /\ i <= lastId
          BY <1>3, <3>1, <3>3, <3>4, EventStreamAssumption DEF Ids, Inv, TypeOK
      <4>2. OnTheWay(i) /\ ~Within(replay, i)
          BY <1>1, <3>1, <3>4, <4>1, EmptySeq DEF Complete, Within
      <4>3. i \notin pending
          BY <1>3, <3>1, <3>3, <3>4, <4>1 DEF BusInOrder
      <4>4. PICK n \in 1 .. Len(rx) : rx[n] = i
          BY <4>2, <4>3 DEF OnTheWay, Within
      <4>5. n # 1 /\ 1 \in 1 .. n - 1
          BY <1>2, <4>1, <4>4
      <4>6. rx[1] < rx[n]
          BY <1>2, <1>3, <3>1, <3>4, <4>1, <4>4, <4>5 DEF BusInOrder
      <4> QED
          BY <1>2, <1>3, <3>4, <4>1, <4>4, <4>6
    <3>5. ASSUME NEW i \in Ids, base < i, i <= e PROVE i \in Seen'
      <4>1. i = e \/ i <= lastSent \/ (lastSent < i /\ i < e)
          BY <1>3, <3>5, EventStreamAssumption DEF Ids
      <4> QED
          BY <1>3, <2>2, <3>1, <3>4, <3>5, <4>1 DEF Complete
    <3>6. ASSUME NEW i \in Ids, base < i, e < i, i <= lastId PROVE OnTheWay(i)'
      <4>1. lastSent < i /\ i # e
          BY <1>3, <2>1, <3>6, EventStreamAssumption DEF Ids
      <4>2. OnTheWay(i)
          BY <1>1, <3>1, <3>6, <4>1 DEF Complete
      <4> QED
          BY <1>1, <1>2, <4>1, <4>2 DEF OnTheWay, Within
    <3> QED
        BY <1>1, <2>2, <3>1, <3>3, <3>5, <3>6, EmptySeq DEF Complete
  <2>6. Sound'
      BY <1>1, <1>5, <2>5 DEF Sound, Excused
  <2> QED
      BY <2>2, <2>3, <2>4, <2>6 DEF Inv
<1> QED
    BY <1>6, <1>7

-----------------------------------------------------------------------------
(* What ends a connection.                                                 *)

LEMMA DropConnectionInv == ASSUME Inv, DropConnection PROVE Inv'
<1>1. /\ UNCHANGED <<up, lastId, pending, frames, base, crashes, mishaps, struck>>
      /\ conn' = "away" /\ rx' = <<>> /\ replay' = <<>> /\ lastSent' = None
      /\ drops' \in 0 .. MaxDrops
    BY EventStreamAssumption DEF DropConnection, daemonVars, Disconnected, Inv, TypeOK
<1>2. Len(<<>>) = 0 /\ <<>> \in Seq(Ids)
    BY EmptySeq
<1>3. TypeOK'
    BY <1>1, <1>2, EventStreamAssumption DEF Inv, TypeOK
<1>4. InOrder' /\ Connected' /\ Cursor' = Cursor /\ Seen' = Seen
    BY <1>1, <1>2 DEF Inv, InOrder, Connected, Cursor, Seen
<1>5. Sound'
    BY <1>1, <1>2, <1>4 DEF Inv, Sound, Excused, BusInOrder, Complete
<1> QED
    BY <1>3, <1>4, <1>5 DEF Inv

LEMMA CrashInv == ASSUME Inv, Crash PROVE Inv'
<1>1. /\ UNCHANGED <<frames, base, drops>>
      /\ conn' = "away" /\ rx' = <<>> /\ replay' = <<>> /\ lastSent' = None
      /\ up' = FALSE /\ pending' = {} /\ crashes' \in 0 .. MaxCrashes
    BY EventStreamAssumption DEF Crash, Disconnected, Inv, TypeOK
<1>2. Len(<<>>) = 0 /\ <<>> \in Seq(Ids)
    BY EmptySeq
<1>3. /\ lastId' \in Ids
      /\ mishaps' \in 0 .. MaxMishaps /\ struck' \subseteq Mishaps \cup Strains
      /\ (lastId' = lastId /\ struck' = struck) \/ Excused'
  <2>1. CASE UNCHANGED <<lastId, mishaps, struck>>
      BY <2>1 DEF Inv, TypeOK
  <2>2. CASE Mishap("power") /\ lastId' \in 0 .. lastId
    <3>1. lastId' \in Ids
        BY <2>2, EventStreamAssumption DEF Inv, TypeOK, Ids
    <3> QED
        BY <2>2, <3>1, MishapType DEF Inv
  <2> QED
      BY <2>1, <2>2 DEF Crash
<1>4. TypeOK'
  <2>1. rx' \in Seq(Ids) /\ Len(rx') <= Capacity
      BY <1>1, <1>2, EventStreamAssumption
  <2>2. replay' \in Seq(Ids) /\ Len(replay') <= ReplayLimit
      BY <1>1, <1>2, EventStreamAssumption
  <2> QED
      BY <1>1, <1>3, <2>1, <2>2 DEF Inv, TypeOK
<1>5. InOrder' /\ Connected' /\ Cursor' = Cursor /\ Seen' = Seen
    BY <1>1, <1>2 DEF Inv, InOrder, Connected, Cursor, Seen
<1>6. Sound'
    BY <1>1, <1>2, <1>3, <1>5 DEF Inv, Sound, Excused, BusInOrder, Complete
<1> QED
    BY <1>4, <1>5, <1>6 DEF Inv

LEMMA NextInv == Inv /\ [Next]_vars => Inv'
<1> SUFFICES ASSUME Inv, [Next]_vars PROVE Inv'
    OBVIOUS
<1>1. CASE Restart \/ UNCHANGED vars
  <2>1. UNCHANGED <<lastId, pending, conn, rx, replay, lastSent, frames, base,
                    drops, crashes, mishaps, struck>> /\ up' \in BOOLEAN
      BY <1>1 DEF Restart, vars, connVars, Inv, TypeOK
  <2> QED
      BY SMTT(30), <2>1 DEF Inv, TypeOK, InOrder, Connected, Sound, Excused, BusInOrder, Complete,
                  OnTheWay, Within, Cursor, Seen
<1> QED
    BY <1>1, InsertInv, SendInv, DropHandlerInv, SubscribeInv, ReplayInv, SendReplayedInv,
       ReceiveInv, DropConnectionInv, CrashInv DEF Next

LEMMA Always == Spec => []Inv
BY InitInv, NextInv, PTL DEF Spec

\* Every variable keeps its type: the subscriber's queue never exceeds its capacity, nor a
\* replay its limit.
THEOREM TypeCorrect == Spec => []TypeOK
<1>1. Inv => TypeOK
    BY DEF Inv
<1> QED
    BY <1>1, Always, PTL

\* The client never sees an event twice or an older one after a newer one, whatever fails,
\* overflows or is cut short.
THEOREM FramesInOrder == Spec => []InOrder
<1>1. Inv => InOrder
    BY DEF Inv
<1> QED
    BY <1>1, Always, PTL

\* And when nothing is under way to it, it has seen every event since it joined, through
\* dropped connections and deaths of the daemon, unless what may cost events has struck.
THEOREM StreamSound == Spec => []StreamIsSound
<1>1. Inv => StreamIsSound
  <2> SUFFICES ASSUME Inv, Quiet, ~Excused PROVE (base + 1) .. lastId \subseteq Seen
      BY DEF Inv, StreamIsSound, NothingLost
  <2>1. /\ Complete /\ lastSent = Cursor /\ lastSent \in Int
        /\ lastId \in Nat /\ lastId <= MaxEvents /\ base \in Nat /\ MaxEvents \in Nat
      BY EventStreamAssumption DEF Inv, Sound, Quiet, Connected, TypeOK, Ids, None
  <2>2. ASSUME NEW e \in (base + 1) .. lastId PROVE e \in Seen
    <3>1. e \in Ids /\ base < e /\ e <= lastId /\ e \in Nat
        BY <2>1 DEF Ids
    <3>2. ~OnTheWay(e)
        BY EmptySeq DEF Quiet, OnTheWay, Within
    <3>3. ~(lastSent < e)
        BY <2>1, <3>1, <3>2 DEF Complete, Quiet
    <3> QED
        BY <2>1, <3>1, <3>3 DEF Complete
  <2> QED
      BY <2>2
<1> QED
    BY <1>1, Always, PTL

-----------------------------------------------------------------------------
(***************************************************************************)
(* TtlCache, for any readers, writers, times and bounds.                   *)
(*                                                                         *)
(* CacheTypeCorrect  CacheSpec => []CacheTypeOK                            *)
(* AnswersAreYoung   CacheSpec => []BoundedStaleness                       *)
(* RaceOnly          CacheSpec => []StaleOnlyByRace                        *)
(* StaysCurrent      CacheSpec => []StalenessIsBounded, the three together *)
(*                                                                         *)
(* That ages stay in their range is itself a property of the protocol: the *)
(* types are inductive only with what bounds them.                         *)
(***************************************************************************)

\* What is cached was listed at most MaxFill before it was stored.
SlotYoung == Fresh => slot.data <= slot.age + MaxFill

\* What a fetch has listed is no older than the fetch; an answer is younger than a
\* cached value that expires.
ReaderYoung(r) ==
    /\ reader[r].at \in Reading => reader[r].data <= reader[r].since
    /\ reader[r].at = "answered" => reader[r].data < Oldest

\* Nobody has cleared for a version the driver has yet to list.
ClearedIsMade == acked <= world /\ \A w \in Writers : writer[w] <= world

\* A fetch that listed something older than a cleared write was running at the clear.
FetchRaced(r) == reader[r].at = "listed" /\ reader[r].val < acked => reader[r].late

CacheInv ==
    /\ CacheTypeOK /\ SlotYoung /\ ClearedIsMade /\ StaleOnlyByRace
    /\ \A r \in Readers : ReaderYoung(r) /\ FetchRaced(r)

LEMMA CacheInitInv == CacheInit => CacheInv
BY TtlCacheAssumption
   DEF CacheInit, CacheInv, CacheTypeOK, SlotYoung, ClearedIsMade, StaleOnlyByRace, ReaderYoung,
       FetchRaced,
       Fresh, Empty, NewReader, Slots, Reader, Reading, Versions, Oldest, Idle

\* One reader moves, and the rest is as it was.
LEMMA ReaderMoves ==
    ASSUME CacheInv, NEW r \in Readers, NEW rd \in Reader, reader' = [reader EXCEPT ![r] = rd],
           UNCHANGED <<world, writer, acked>>,
           slot' \in Slots, SlotYoung', StaleOnlyByRace',
           rd.at \in Reading => rd.data <= rd.since,
           rd.at = "answered" => rd.data < Oldest,
           rd.at = "listed" /\ rd.val < acked => rd.late
    PROVE  CacheInv'
<1>1. \A q \in Readers : reader'[q] = IF q = r THEN rd ELSE reader[q]
    BY DEF CacheInv, CacheTypeOK
<1>2. CacheTypeOK'
    BY DEF CacheInv, CacheTypeOK
<1>3. \A q \in Readers : ReaderYoung(q)' /\ FetchRaced(q)'
    BY <1>1 DEF CacheInv, ReaderYoung, FetchRaced, Oldest
<1>4. ClearedIsMade'
    BY DEF CacheInv, ClearedIsMade
<1> QED
    BY <1>2, <1>3, <1>4 DEF CacheInv

LEMMA HitInv == ASSUME CacheInv, NEW r \in Readers, Hit(r) PROVE CacheInv'
<1> DEFINE rd == [reader[r] EXCEPT !.at = "answered", !.val = slot.val, !.data = slot.data]
<1>1. reader[r] \in Reader /\ slot \in Slots /\ Fresh
    BY DEF CacheInv, CacheTypeOK, Hit
<1>2. rd \in Reader /\ rd.at = "answered" /\ rd.data = slot.data
    BY <1>1 DEF Reader, Slots
<1>3. slot.data < Oldest
    BY <1>1, TtlCacheAssumption DEF CacheInv, SlotYoung, Fresh, Slots, Oldest
<1>4. reader' = [reader EXCEPT ![r] = rd] /\ UNCHANGED <<world, slot, writer, acked>>
    BY Zenon DEF Hit
<1>5. SlotYoung' /\ StaleOnlyByRace'
    BY <1>4 DEF CacheInv, SlotYoung, StaleOnlyByRace, Fresh
<1> HIDE DEF rd
<1> QED
    BY <1>1, <1>2, <1>3, <1>4, <1>5, ReaderMoves DEF Reading

LEMMA MissInv == ASSUME CacheInv, NEW r \in Readers, Miss(r) \/ GiveUp(r) PROVE CacheInv'
<1> DEFINE rd == [NewReader EXCEPT !.at = "listing"]
<1>1. NewReader \in Reader /\ NewReader.at = "idle"
      /\ NewReader.data = 0 /\ NewReader.since = 0
    BY TtlCacheAssumption DEF NewReader, Reader, Reading, Versions, Oldest
<1>2. /\ rd \in Reader /\ rd.at = "listing"
      /\ rd.data = NewReader.data /\ rd.since = NewReader.since
    BY <1>1 DEF Reader, Reading
<1>3. rd.data <= rd.since
    BY <1>1, <1>2
<1>4. slot' = slot /\ world' = world /\ writer' = writer /\ acked' = acked
    BY DEF Miss, GiveUp
<1>5. SlotYoung' /\ StaleOnlyByRace' /\ slot' \in Slots
    BY <1>4 DEF CacheInv, CacheTypeOK, SlotYoung, StaleOnlyByRace, Fresh
<1>6. CASE Miss(r)
  <2>1. reader' = [reader EXCEPT ![r] = rd]
      BY <1>6 DEF Miss
  <2> HIDE DEF rd
  <2> QED
      BY <1>2, <1>4, <1>5, <1>3, <2>1, ReaderMoves DEF Reading
<1>7. CASE GiveUp(r)
  <2>1. reader' = [reader EXCEPT ![r] = NewReader]
      BY <1>7 DEF GiveUp
  <2> QED
      BY <1>1, <1>4, <1>5, <2>1, ReaderMoves DEF Reading
<1> QED
    BY <1>6, <1>7

LEMMA ListInv == ASSUME CacheInv, NEW r \in Readers, List(r) PROVE CacheInv'
<1> DEFINE rd == [reader[r] EXCEPT !.at = "listed", !.val = world]
<1>1. reader[r] \in Reader /\ world \in Versions /\ reader[r].at = "listing"
    BY DEF CacheInv, CacheTypeOK, List
<1>2. rd \in Reader /\ rd.at = "listed" /\ rd.val = world /\ rd.data = reader[r].data
      /\ rd.since = reader[r].since
    BY <1>1 DEF Reader, Reading
<1>3. rd.data <= rd.since
    BY <1>1, <1>2 DEF CacheInv, ReaderYoung, Reading
<1>4. ~(world < acked)
    BY <1>1 DEF CacheInv, ClearedIsMade, CacheTypeOK, Versions
<1>5. reader' = [reader EXCEPT ![r] = rd] /\ UNCHANGED <<world, slot, writer, acked>>
    BY Zenon DEF List
<1>6. SlotYoung' /\ StaleOnlyByRace' /\ slot' \in Slots
    BY <1>5 DEF CacheInv, CacheTypeOK, SlotYoung, StaleOnlyByRace, Fresh
<1> HIDE DEF rd
<1> QED
    BY <1>2, <1>3, <1>4, <1>5, <1>6, ReaderMoves DEF Reading

LEMMA StoreInv == ASSUME CacheInv, NEW r \in Readers, Store(r) PROVE CacheInv'
<1> DEFINE rd == [reader[r] EXCEPT !.at = "answered"]
<1>1. reader[r] \in Reader /\ reader[r].at = "listed"
    BY DEF CacheInv, CacheTypeOK, Store
<1>2. rd \in Reader /\ rd.at = "answered" /\ rd.data = reader[r].data
    BY <1>1 DEF Reader
<1>3. reader[r].data <= MaxFill
    BY <1>1, TtlCacheAssumption DEF CacheInv, ReaderYoung, Reader, Reading
<1>4. reader[r].data < Oldest
    BY <1>1, <1>3, TtlCacheAssumption DEF Reader, Oldest
<1>5. slot' = [val |-> reader[r].val, age |-> 0, data |-> reader[r].data,
               late |-> reader[r].late]
    BY DEF Store
<1>6. slot' \in Slots
    BY <1>1, <1>5, TtlCacheAssumption DEF Slots, Reader
<1>7. SlotYoung'
    BY <1>1, <1>3, <1>5, TtlCacheAssumption DEF SlotYoung, Reader
<1>8. StaleOnlyByRace'
    BY <1>1, <1>5 DEF CacheInv, StaleOnlyByRace, FetchRaced, Store
<1>9. reader' = [reader EXCEPT ![r] = rd] /\ UNCHANGED <<world, writer, acked>>
    BY DEF Store
<1> HIDE DEF rd
<1> QED
    BY <1>2, <1>4, <1>6, <1>7, <1>8, <1>9, ReaderMoves DEF Reading

\* A clear marks every fetch that runs, and leaves nothing that could be stale.
LEMMA ClearInv == ASSUME CacheInv, NEW w \in Writers, Clear(w) PROVE CacheInv'
<1>1. \A r \in Readers :
         /\ reader'[r] \in Reader
         /\ reader'[r].at = reader[r].at /\ reader'[r].data = reader[r].data
         /\ reader'[r].since = reader[r].since
         /\ reader[r].at \in Reading => reader'[r].late
  <2> SUFFICES ASSUME NEW r \in Readers
               PROVE  /\ reader'[r] \in Reader
                      /\ reader'[r].at = reader[r].at /\ reader'[r].data = reader[r].data
                      /\ reader'[r].since = reader[r].since
                      /\ reader[r].at \in Reading => reader'[r].late
      OBVIOUS
  <2> DEFINE rd == [reader[r] EXCEPT !.late = TRUE]
  <2>1. reader[r] \in Reader
      BY DEF CacheInv, CacheTypeOK
  <2>2. rd \in Reader /\ rd.at = reader[r].at /\ rd.data = reader[r].data
        /\ rd.since = reader[r].since /\ rd.late = TRUE
      BY <2>1 DEF Reader
  <2>3. reader'[r] = IF reader[r].at \in Reading THEN rd ELSE reader[r]
      BY DEF Clear
  <2> HIDE DEF rd
  <2> QED
      BY <2>1, <2>2, <2>3
<1>2. reader' \in [Readers -> Reader]
  <2>1. reader' = [r \in Readers |-> reader'[r]]
      BY DEF Clear
  <2> QED
      BY <1>1, <2>1
<1>3. /\ slot' = Empty /\ world' = world
      /\ acked' \in Versions /\ acked' <= world
      /\ writer' \in [Writers -> Versions \cup {Idle}]
      /\ \A v \in Writers : writer'[v] <= world
    BY DEF CacheInv, CacheTypeOK, ClearedIsMade, Clear, Forget, Versions, Idle
<1>4. Empty \in Slots /\ ~(Empty.age < Ttl)
    BY TtlCacheAssumption DEF Empty, Slots, Versions, Oldest
<1>5. CacheTypeOK'
    BY <1>2, <1>3, <1>4 DEF CacheInv, CacheTypeOK
<1>6. SlotYoung' /\ StaleOnlyByRace' /\ ClearedIsMade'
    BY <1>3, <1>4 DEF SlotYoung, StaleOnlyByRace, ClearedIsMade, Fresh
<1>7. \A r \in Readers : ReaderYoung(r)' /\ FetchRaced(r)'
    BY <1>1 DEF CacheInv, ReaderYoung, FetchRaced, Reading, Oldest
<1> QED
    BY <1>5, <1>6, <1>7 DEF CacheInv

\* The world changes, by a writer or by hand, or a writer forgets to clear.
LEMMA WorldInv ==
    ASSUME CacheInv, ChangeByHand \/ \E w \in Writers : Write(w) \/ Abandon(w)
    PROVE  CacheInv'
<1>1. /\ world' \in Versions /\ acked' = acked /\ world <= world'
      /\ writer' \in [Writers -> Versions \cup {Idle}]
      /\ \A v \in Writers : writer'[v] <= world'
    BY TtlCacheAssumption
       DEF CacheInv, CacheTypeOK, ClearedIsMade, ChangeByHand, Write, Abandon, Versions, Idle
<1>2. reader' = reader /\ slot' = slot
    BY DEF ChangeByHand, Write, Abandon
<1>3. ClearedIsMade'
    BY <1>1 DEF CacheInv, CacheTypeOK, ClearedIsMade, Versions
<1> QED
    BY <1>1, <1>2, <1>3
       DEF CacheInv, CacheTypeOK, SlotYoung, StaleOnlyByRace, ReaderYoung, FetchRaced, Fresh

\* Ages grow together, and what runs for MaxFill ends.
LEMMA TickInv == ASSUME CacheInv, Tick PROVE CacheInv'
<1> USE TtlCacheAssumption
<1>1. \A r \in Readers : reader'[r] \in Reader /\ ReaderYoung(r)' /\ FetchRaced(r)'
  <2> SUFFICES ASSUME NEW r \in Readers
               PROVE  reader'[r] \in Reader /\ ReaderYoung(r)' /\ FetchRaced(r)'
      OBVIOUS
  <2>1. reader[r] \in Reader /\ reader'[r] = Aging(reader[r]) /\ acked' = acked
        /\ ReaderYoung(r) /\ FetchRaced(r)
      BY DEF CacheInv, CacheTypeOK, Tick
  <2>2. reader[r].at \in Reading => reader[r].since < MaxFill
      BY DEF Tick
  <2>3. CASE reader[r].at = "listing"
    <3> DEFINE rd == [reader[r] EXCEPT !.since = @ + 1]
    <3>1. rd \in Reader /\ rd.at = "listing" /\ rd.since = reader[r].since + 1
          /\ rd.data = reader[r].data
        BY <2>1, <2>2, <2>3 DEF Reader, Reading
    <3>2. reader'[r] = rd
        BY <2>1, <2>3 DEF Aging
    <3> HIDE DEF rd
    <3> QED
        BY <2>1, <2>3, <3>1, <3>2 DEF ReaderYoung, FetchRaced, Reading, Reader
  <2>4. CASE reader[r].at = "listed"
    <3> DEFINE rd == [reader[r] EXCEPT !.since = @ + 1, !.data = @ + 1]
    <3>0. reader[r].since \in 0 .. MaxFill /\ reader[r].data \in 0 .. Oldest
          /\ reader[r].data <= reader[r].since /\ reader[r].since < MaxFill
        BY <2>1, <2>2, <2>4 DEF ReaderYoung, Reading, Reader
    <3>1. reader[r].since + 1 \in 0 .. MaxFill /\ reader[r].data + 1 \in 0 .. Oldest
        BY <3>0 DEF Oldest
    <3>2. rd \in Reader /\ rd.at = "listed" /\ rd.since = reader[r].since + 1
          /\ rd.data = reader[r].data + 1 /\ rd.val = reader[r].val /\ rd.late = reader[r].late
        BY <2>1, <2>4, <3>1 DEF Reader
    <3>3. reader'[r] = rd
        BY <2>1, <2>4 DEF Aging
    <3> HIDE DEF rd
    <3> QED
        BY <2>1, <2>4, <3>0, <3>2, <3>3 DEF ReaderYoung, FetchRaced, Reading
  <2>5. CASE reader[r].at \notin Reading
    <3>1. reader'[r] = reader[r]
        BY <2>1, <2>5 DEF Aging, Reading
    <3> QED
        BY <2>1, <3>1 DEF ReaderYoung, FetchRaced, Oldest
  <2> QED
      BY <2>3, <2>4, <2>5 DEF Reading
<1>2. reader' \in [Readers -> Reader]
  <2>1. reader' = [r \in Readers |-> reader'[r]]
      BY DEF Tick
  <2> QED
      BY <1>1, <2>1
<1>3. slot' \in Slots /\ SlotYoung' /\ StaleOnlyByRace'
  <2>1. slot \in Slots /\ SlotYoung /\ StaleOnlyByRace /\ acked' = acked /\ slot' = Aged
      BY DEF CacheInv, CacheTypeOK, Tick
  <2>2. CASE Fresh
    <3> DEFINE s == [slot EXCEPT !.age = @ + 1, !.data = @ + 1]
    <3>1. slot.age \in 0 .. Ttl /\ slot.data \in 0 .. Oldest /\ slot.age < Ttl
          /\ slot.data <= slot.age + MaxFill
        BY <2>1, <2>2 DEF Slots, Fresh, SlotYoung
    <3>2. slot.age + 1 \in 0 .. Ttl /\ slot.data + 1 \in 0 .. Oldest
        BY <3>1 DEF Oldest
    <3>3. s \in Slots /\ s.age = slot.age + 1 /\ s.data = slot.data + 1 /\ s.val = slot.val
          /\ s.late = slot.late
        BY <2>1, <3>2 DEF Slots
    <3>4. slot' = s
        BY <2>1, <2>2 DEF Aged
    <3> HIDE DEF s
    <3> QED
        BY <2>1, <2>2, <3>1, <3>3, <3>4 DEF SlotYoung, StaleOnlyByRace, Fresh
  <2>3. CASE ~Fresh
    <3>1. slot' = Empty /\ Empty \in Slots /\ ~(Empty.age < Ttl)
        BY <2>1, <2>3 DEF Aged, Empty, Slots, Versions, Oldest
    <3> QED
        BY <3>1 DEF SlotYoung, StaleOnlyByRace, Fresh
  <2> QED
      BY <2>2, <2>3
<1> QED
    BY <1>1, <1>2, <1>3 DEF CacheInv, CacheTypeOK, ClearedIsMade, Tick

LEMMA CacheNextInv == CacheInv /\ [CacheNext]_cacheVars => CacheInv'
<1> SUFFICES ASSUME CacheInv, [CacheNext]_cacheVars PROVE CacheInv'
    OBVIOUS
<1>1. CASE UNCHANGED cacheVars
    BY <1>1 DEF cacheVars, CacheInv, CacheTypeOK, SlotYoung, ClearedIsMade, StaleOnlyByRace,
        ReaderYoung,
                FetchRaced, Fresh
<1> QED
    BY <1>1, HitInv, MissInv, ListInv, StoreInv, ClearInv, WorldInv, TickInv DEF CacheNext

LEMMA CacheAlways == CacheSpec => []CacheInv
BY CacheInitInv, CacheNextInv, PTL DEF CacheSpec

\* Every variable keeps its type, ages included.
THEOREM CacheTypeCorrect == CacheSpec => []CacheTypeOK
<1>1. CacheInv => CacheTypeOK
    BY DEF CacheInv
<1> QED
    BY <1>1, CacheAlways, PTL

\* An answer is less than a time to live and a list command old.
THEOREM AnswersAreYoung == CacheSpec => []BoundedStaleness
<1>1. CacheInv => BoundedStaleness
    BY DEF CacheInv, ReaderYoung, BoundedStaleness
<1> QED
    BY <1>1, CacheAlways, PTL

\* What is older than a cleared write was being fetched at the clear.
THEOREM RaceOnly == CacheSpec => []StaleOnlyByRace
<1>1. CacheInv => StaleOnlyByRace
    BY DEF CacheInv
<1> QED
    BY <1>1, CacheAlways, PTL

\* The three together.
THEOREM StaysCurrent == CacheSpec => []StalenessIsBounded
<1>1. CacheTypeOK /\ BoundedStaleness /\ StaleOnlyByRace => StalenessIsBounded
    BY DEF StalenessIsBounded
<1> QED
    BY <1>1, CacheTypeCorrect, AnswersAreYoung, RaceOnly, PTL
=============================================================================
