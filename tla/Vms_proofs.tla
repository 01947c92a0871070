------------------------------ MODULE Vms_proofs ------------------------------
(***************************************************************************)
(* Proofs about Vms, for any requests, disks, sizes, names, layouts and    *)
(* bounds.                                                                 *)
(*                                                                         *)
(* VmTypesHold      VmSpec => []VmTypeOK                                   *)
(* RolledBackWhole  VmSpec => RollbackIsWhole                              *)
(* DisksAreThere    VmSpec => []DisksExist                                 *)
(* OnlyAsked        VmSpec => OnlyWhatIsAsked                              *)
(*                                                                         *)
(* The inductive invariant, KnownInv, is built up in four.  HandledInv     *)
(* holds whatever meets: the configuration is like one that mandraked      *)
(* wrote, and whatever a request carries, however stale, is of one like    *)
(* it.  RollbackInv is what a rollback relies on.  AgreesInv, while no     *)
(* request met another, and FreshInv, while none was dropped either, say   *)
(* that what a request has found is so.  They rest on the reading of a     *)
(* configuration giving back, in order, what the writing put in, which no  *)
(* step of a request shows by itself: WrittenBack.                         *)
(***************************************************************************)
EXTENDS Vms, FiniteSetTheorems, SequenceTheorems, WellFoundedInduction, TLAPS

-----------------------------------------------------------------------------
(* What there is to keep.  A rollback takes the members of a VM back one   *)
(* after the other: on what the VM has, on whether it runs, and on what    *)
(* the snapshots of one name are, it relies from when it looked until it   *)
(* ends.                                                                   *)

\* A sequence, of whatever it is.
IsSeq(s) == s = [i \in 1 .. Len(s) |-> s[i]] /\ Len(s) \in Nat

\* What a rollback is to take back.
Parts == {Dataset} \cup ToSet(Zvols(Vm))
WholeOf(vm) == <<Dataset>> \o [i \in DOMAIN vm.disks |-> vm.disks[i].zvol]

VmFields ==
    {"op", "stage", "index", "new", "name", "purge", "spec", "disk", "todo", "meant"}
IsVmRequest(q) == q = [f \in VmFields |-> q[f]] /\ q.op \in Ops
IsMember(m) == m = [f \in {"size", "data", "snaps"} |-> m[f]]

VmTyped ==
    /\ req = [r \in Requests |-> req[r]]
    /\ \A r \in Requests : IsVmRequest(req[r])
    /\ members = [d \in DOMAIN members |-> members[d]]
    /\ \A d \in DOMAIN members : IsMember(members[d])
    /\ overlapped \in BOOLEAN /\ cuts \in Nat

\* A member has no two snapshots of one name, and those of one name were taken by one
\* request.
SnapsApart ==
    /\ \A d \in DOMAIN members :
          LET snaps == members[d].snaps
          IN  /\ IsSeq(snaps)
              /\ \A i \in 1 .. Len(snaps) : snaps[i].by \in Requests
              /\ \A i, j \in 1 .. Len(snaps) : snaps[i].name = snaps[j].name => i = j
    /\ \A d, e \in DOMAIN members :
          \A i \in 1 .. Len(members[d].snaps), j \in 1 .. Len(members[e].snaps) :
             members[d].snaps[i].name = members[e].snaps[j].name =>
                members[d].snaps[i].by = members[e].snaps[j].by

SoloVm == ~overlapped => \A q, r \in Busy : q = r

\* A cached listing has the configuration there is, and has the VM running if it runs, but
\* for the time until a start has cleared it.
ListedVm ==
    Calm /\ cache # << >> =>
        /\ cache[1].config = Read(config)
        /\ running => cache[1].running \/ \E r \in Requests : At(r, "note")

\* Among those that are now, member d holds what it held when snapshot name was taken.
IsBack(now, d, name) ==
    /\ d \in DOMAIN now
    /\ now[d].snaps # << >>
    /\ Last(now[d].snaps).name = name
    /\ now[d].data = Last(now[d].snaps).data

\* What request r, a rollback, has still to do and has done.
RollsBack(r) ==
    Calm /\ req[r].op = "rollback_snapshot" /\ req[r].stage \in {"look", "act"} =>
        /\ ~running
        /\ IsSeq(req[r].todo) /\ req[r].todo # << >>
        /\ \A d \in Parts :
              d \in ToSet(req[r].todo) \/ (At(r, "act") /\ IsBack(members, d, req[r].name))

RollbackInv ==
    VmTyped /\ SnapsApart /\ SoloVm /\ ListedVm /\ \A r \in Requests : RollsBack(r)

-----------------------------------------------------------------------------
(* Sequences.                                                              *)

\* A sequence is a sequence of its own parts.
LEMMA SeqOfParts ==
    ASSUME NEW s, IsSeq(s)
    PROVE  s \in Seq(ToSet(s)) /\ DOMAIN s = 1 .. Len(s) /\ Len(s) \in Nat
<1>1. DOMAIN s = 1 .. Len(s) /\ Len(s) \in Nat
    BY DEF IsSeq
<1>2. \A i \in 1 .. Len(s) : s[i] \in ToSet(s)
    BY <1>1 DEF ToSet
<1>3. s = [i \in 1 .. Len(s) |-> s[i]]
    BY DEF IsSeq
<1>4. s \in [1 .. Len(s) -> ToSet(s)]
    BY <1>2, <1>3
<1> QED
    BY <1>1, <1>4

\* A sequence of anything is one.
LEMMA IsSeqOf ==
    ASSUME NEW S, NEW s \in Seq(S)
    PROVE  IsSeq(s)
BY DEF IsSeq

\* The tail is a sequence too, of all but the head.
LEMMA TailIsSeq ==
    ASSUME NEW s, IsSeq(s), s # << >>
    PROVE  IsSeq(Tail(s)) /\ ToSet(s) = {Head(s)} \cup ToSet(Tail(s))
<1>1. s \in Seq(ToSet(s))
    BY SeqOfParts
<1>2. Tail(s) \in Seq(ToSet(s)) /\ Len(Tail(s)) = Len(s) - 1
    BY <1>1
<1>3. Len(s) \in Nat \ {0}
    BY <1>1
<1>4. Head(s) = s[1] /\ \A i \in 1 .. Len(s) - 1 : Tail(s)[i] = s[i + 1]
    BY <1>1
<1>5. IsSeq(Tail(s))
    BY <1>2, IsSeqOf
<1>6. DOMAIN s = 1 .. Len(s) /\ DOMAIN Tail(s) = 1 .. Len(s) - 1
    BY <1>1, <1>2
<1>7. \A i \in 1 .. Len(s) : i = 1 \/ (i - 1 \in 1 .. Len(s) - 1 /\ s[i] = Tail(s)[i - 1])
    BY <1>3, <1>4
<1>8. \A i \in 1 .. Len(s) - 1 : i + 1 \in 1 .. Len(s)
    BY <1>3
<1>9. ASSUME NEW x \in ToSet(s) PROVE x \in {Head(s)} \cup ToSet(Tail(s))
    <2>1. PICK i \in 1 .. Len(s) : x = s[i]
        BY <1>6 DEF ToSet
    <2>2. CASE i = 1
        BY <1>4, <2>1, <2>2
    <2>3. CASE i # 1
        <3>1. i - 1 \in DOMAIN Tail(s) /\ x = Tail(s)[i - 1]
            BY <1>6, <1>7, <2>1, <2>3
        <3> QED
            BY <3>1 DEF ToSet
    <2> QED
        BY <2>2, <2>3
<1>10. {Head(s)} \cup ToSet(Tail(s)) \subseteq ToSet(s)
    <2>1. Head(s) \in ToSet(s)
        BY <1>3, <1>4, <1>6 DEF ToSet
    <2>2. ToSet(Tail(s)) \subseteq ToSet(s)
        BY <1>4, <1>6, <1>8 DEF ToSet
    <2> QED
        BY <2>1, <2>2
<1> QED
    BY <1>5, <1>9, <1>10

-----------------------------------------------------------------------------
(* Steps of one request.                                                   *)

OverVm == [NewRequest EXCEPT !.stage = "over"]

VmStep(r) ==
    /\ req' = [q \in Requests |-> IF q = r THEN req'[r] ELSE req[q]] /\ IsVmRequest(req'[r])
    /\ r \in Busy \/ Busy = {} \/ overlapped'
    /\ overlapped' \in BOOLEAN /\ (overlapped => overlapped')
    /\ cuts' \in Nat /\ (cuts' = 0 => cuts = 0)

Rolling(q) == q.op = "rollback_snapshot" /\ q.stage \in {"look", "act"}

\* A request not asked yet, and one that is over, have the fields of a request.
LEMMA OverIsRequest ==
    IsVmRequest(NewRequest) /\ IsVmRequest(OverVm) /\ OverVm.stage = "over" /\ OverVm.op = "get_vm"
<1>1. IsVmRequest(NewRequest)
    BY DEF NewRequest, IsVmRequest, VmFields, Ops, VmOps
<1>2. IsVmRequest(OverVm) /\ OverVm.stage = "over"
    BY <1>1 DEF OverVm, IsVmRequest, VmFields
<1>3. OverVm.op = "get_vm"
    BY DEF OverVm, NewRequest
<1> QED
    BY <1>1, <1>2, <1>3

\* What becomes of one request leaves the others alone.
LEMMA BecomesStep ==
    ASSUME VmTyped, NEW r \in Requests, NEW new, IsVmRequest(new), Becomes(r, new)
    PROVE  /\ req' = [q \in Requests |-> IF q = r THEN req'[r] ELSE req[q]]
           /\ IsVmRequest(req'[r])
           /\ req'[r] = IF new.stage = "over" THEN OverVm ELSE new
<1>1. IsVmRequest(OverVm)
    BY OverIsRequest
<1>2. req' = [req EXCEPT ![r] = IF new.stage = "over" THEN OverVm ELSE new]
    BY DEF Becomes, OverVm
<1>3. req = [q \in Requests |-> req[q]]
    BY DEF VmTyped
<1>4. req'[r] = IF new.stage = "over" THEN OverVm ELSE new
    BY <1>2, <1>3
<1>5. IsVmRequest(req'[r])
    BY <1>1, <1>4
<1> QED
    BY <1>2, <1>3, <1>4, <1>5

\* A request that goes on to another stage keeps the rest, unless it is over.
LEMMA GoesStep ==
    ASSUME VmTyped, NEW r \in Requests, NEW stage, Goes(r, stage)
    PROVE  /\ req' = [q \in Requests |-> IF q = r THEN req'[r] ELSE req[q]]
           /\ IsVmRequest(req'[r])
           /\ req'[r] = IF stage = "over" THEN OverVm ELSE [req[r] EXCEPT !.stage = stage]
<1> DEFINE new == [req[r] EXCEPT !.stage = stage]
<1>1. IsVmRequest(req[r])
    BY DEF VmTyped
<1>2. IsVmRequest(new) /\ new.stage = stage
    BY <1>1 DEF IsVmRequest, VmFields
<1>3. Becomes(r, new)
    BY DEF Goes
<1> HIDE DEF new
<1>4. /\ req' = [q \in Requests |-> IF q = r THEN req'[r] ELSE req[q]]
      /\ IsVmRequest(req'[r])
      /\ req'[r] = IF new.stage = "over" THEN OverVm ELSE new
    BY <1>2, <1>3, BecomesStep
<1> QED
    BY <1>2, <1>4 DEF new

\* A request that works and goes on to a stage.
LEMMA WorksStep ==
    ASSUME VmTyped, NEW r \in Requests, NEW stage, Goes(r, stage), req[r].stage \in Working,
           overlapped' = overlapped, cuts' \in Nat, cuts' = 0 => cuts = 0
    PROVE  /\ VmStep(r)
           /\ req'[r].stage = stage
           /\ Rolling(req'[r]) => req'[r] = [req[r] EXCEPT !.stage = stage]
<1>1. /\ req' = [q \in Requests |-> IF q = r THEN req'[r] ELSE req[q]]
      /\ IsVmRequest(req'[r])
      /\ req'[r] = IF stage = "over" THEN OverVm ELSE [req[r] EXCEPT !.stage = stage]
    BY GoesStep
<1>2. VmStep(r)
    BY <1>1 DEF VmStep, Busy, VmTyped
<1>3. OverVm.stage = "over" /\ OverVm.op = "get_vm"
    BY OverIsRequest
<1>4. IsVmRequest(req[r])
    BY DEF VmTyped
<1>5. req'[r].stage = stage
    BY <1>1, <1>3, <1>4 DEF IsVmRequest, VmFields
<1>6. Rolling(req'[r]) => req'[r] = [req[r] EXCEPT !.stage = stage]
    BY <1>1, <1>3 DEF Rolling
<1> QED
    BY <1>2, <1>5, <1>6

\* The same of one that remembers something as well.
LEMMA RemembersStep ==
    ASSUME VmTyped, NEW r \in Requests, NEW new, IsVmRequest(new), Becomes(r, new),
           new.stage # "over", req[r].stage \in Working,
           overlapped' = overlapped, cuts' = cuts
    PROVE  VmStep(r) /\ req'[r] = new
<1>1. /\ req' = [q \in Requests |-> IF q = r THEN req'[r] ELSE req[q]]
      /\ IsVmRequest(req'[r])
      /\ req'[r] = IF new.stage = "over" THEN OverVm ELSE new
    BY BecomesStep
<1> QED
    BY <1>1 DEF VmStep, Busy, VmTyped

\* While a request works, or where none did, nobody else does unless requests overlap.
LEMMA OthersRest ==
    ASSUME VmTyped, SoloVm, NEW r \in Requests, VmStep(r), ~overlapped'
    PROVE  /\ \A q \in Requests : q # r => q \notin Busy /\ req'[q] = req[q] /\ q \notin Busy'
           /\ SoloVm'
<1>1. \A q \in Requests : q # r => req'[q] = req[q]
    BY DEF VmStep
<1>2. \A q \in Requests : q # r => q \notin Busy
    BY DEF VmStep, SoloVm, VmTyped, Busy
<1>3. \A q \in Requests : q # r => q \notin Busy'
    BY <1>1, <1>2 DEF Busy
<1>4. SoloVm'
    BY <1>3 DEF SoloVm, Busy
<1> QED
    BY <1>1, <1>2, <1>3, <1>4

\* A prefix is a sequence of the same parts at the same places.
LEMMA PrefixOf ==
    ASSUME NEW s, IsSeq(s), NEW n \in 1 .. Len(s)
    PROVE  /\ IsSeq(SubSeq(s, 1, n)) /\ Len(SubSeq(s, 1, n)) = n
           /\ \A i \in 1 .. n : SubSeq(s, 1, n)[i] = s[i]
<1>1. \A i \in 1 .. n : s[i] \in ToSet(s)
    BY SeqOfParts DEF ToSet
<1>2. n \in Int /\ 1 \in Int /\ 1 <= n
    BY SeqOfParts
<1>3. /\ SubSeq(s, 1, n) \in Seq(ToSet(s)) /\ Len(SubSeq(s, 1, n)) = n
      /\ \A i \in 1 .. n : SubSeq(s, 1, n)[i] = s[i]
    BY <1>1, <1>2, SubSeqProperties
<1> QED
    BY <1>3, IsSeqOf

\* A part removed, those before it stay where they are and those after it move up.
LEMMA RemovedFrom ==
    ASSUME NEW s, IsSeq(s), NEW n \in 1 .. Len(s)
    PROVE  /\ IsSeq(RemoveAt(s, n)) /\ Len(RemoveAt(s, n)) = Len(s) - 1
           /\ \A i \in 1 .. Len(s) - 1 : RemoveAt(s, n)[i] = s[IF i < n THEN i ELSE i + 1]
<1> DEFINE S == ToSet(s)
           before == SubSeq(s, 1, n - 1)
           after == SubSeq(s, n + 1, Len(s))
<1>1. \A i \in 1 .. Len(s) : s[i] \in S
    BY SeqOfParts DEF ToSet
<1>2. n \in Int /\ 1 \in Int /\ 1 <= n /\ n - 1 \in Int /\ n + 1 \in Int /\ Len(s) \in Int /\ n <= Len(s)
    BY SeqOfParts
<1>3. /\ before \in Seq(S) /\ Len(before) = n - 1
      /\ \A i \in 1 .. n - 1 : before[i] = s[i]
    <2>1. \A i \in 1 .. n - 1 : s[i] \in S
        BY <1>1, <1>2
    <2>2. /\ SubSeq(s, 1, n - 1) \in Seq(S)
          /\ Len(SubSeq(s, 1, n - 1)) = IF 1 <= n - 1 THEN (n - 1) - 1 + 1 ELSE 0
          /\ \A i \in 1 .. (n - 1) - 1 + 1 : SubSeq(s, 1, n - 1)[i] = s[1 + i - 1]
        BY <1>2, <2>1, SubSeqProperties
    <2> QED
        BY <1>2, <2>2
<1>4. /\ after \in Seq(S) /\ Len(after) = Len(s) - n
      /\ \A i \in 1 .. Len(s) - n : after[i] = s[n + i]
    <2>1. \A i \in n + 1 .. Len(s) : s[i] \in S
        BY <1>1, <1>2
    <2>2. /\ SubSeq(s, n + 1, Len(s)) \in Seq(S)
          /\ Len(SubSeq(s, n + 1, Len(s))) = IF n + 1 <= Len(s) THEN Len(s) - (n + 1) + 1 ELSE 0
          /\ \A i \in 1 .. Len(s) - (n + 1) + 1 :
                SubSeq(s, n + 1, Len(s))[i] = s[(n + 1) + i - 1]
        BY <1>2, <2>1, SubSeqProperties
    <2> QED
        BY <1>2, <2>2
<1>5. RemoveAt(s, n) = before \o after
    BY DEF RemoveAt
<1> HIDE DEF before, after, S
<1>6. /\ before \o after \in Seq(S) /\ Len(before \o after) = Len(s) - 1
      /\ \A i \in 1 .. Len(s) - 1 :
            (before \o after)[i] = IF i <= n - 1 THEN before[i] ELSE after[i - (n - 1)]
    <2>1. /\ before \o after \in Seq(S) /\ Len(before \o after) = Len(before) + Len(after)
          /\ \A i \in 1 .. Len(before) + Len(after) :
                (before \o after)[i] = IF i <= Len(before) THEN before[i] ELSE after[i - Len(before)]
        BY <1>3, <1>4, ConcatProperties
    <2>2. Len(before) + Len(after) = Len(s) - 1
        BY <1>2, <1>3, <1>4
    <2> QED
        BY <1>3, <2>1, <2>2
<1>7. \A i \in 1 .. Len(s) - 1 : (before \o after)[i] = s[IF i < n THEN i ELSE i + 1]
    BY <1>2, <1>3, <1>4, <1>6
<1> QED
    BY <1>5, <1>6, <1>7, IsSeqOf

-----------------------------------------------------------------------------
(* Keys of a configuration, in their order.                                *)

\* The keys of a set S in their order.
Below(S, k) == {j \in S : Sooner(j, k)}
InOrder(S) ==
    [i \in 1 .. Cardinality(S) |-> CHOOSE k \in S : Cardinality(Below(S, k)) = i - 1]
IsOrder(S) ==
    /\ \A j, k \in S : j # k => Sooner(j, k) \/ Sooner(k, j)
    /\ \A j, k \in S : ~(Sooner(j, k) /\ Sooner(k, j))
    /\ \A i, j, k \in S : Sooner(i, j) /\ Sooner(j, k) => Sooner(i, k)

\* K lists the keys of S in their order.
Lists(K, S) ==
    /\ IsSeq(K) /\ Len(K) = Cardinality(S)
    /\ \A i \in 1 .. Len(K) : K[i] \in S
    /\ \A k \in S : \E i \in 1 .. Len(K) : K[i] = k
    /\ \A i, j \in 1 .. Len(K) : i < j => Sooner(K[i], K[j])

\* The further on a key is, the more come before it: no two come after as many.
LEMMA BelowGrows ==
    ASSUME NEW S, IsFiniteSet(S), IsOrder(S)
    PROVE  /\ \A k \in S : Cardinality(Below(S, k)) \in 0 .. Cardinality(S) - 1
           /\ \A j, k \in S : Sooner(j, k) =>
                 Cardinality(Below(S, j)) < Cardinality(Below(S, k))
           /\ \A j, k \in S : Cardinality(Below(S, j)) = Cardinality(Below(S, k)) => j = k
<1>1. ASSUME NEW T \in SUBSET S, NEW U \in SUBSET T, NEW x \in T, x \notin U
      PROVE  /\ Cardinality(U) \in Nat /\ Cardinality(T) \in Nat
             /\ Cardinality(U) < Cardinality(T)
  <2>1. IsFiniteSet(T)
      BY FS_Subset
  <2>2. IsFiniteSet(U) /\ Cardinality(U) <= Cardinality(T) /\ (Cardinality(T) = Cardinality(U) => T = U)
      BY <2>1, FS_Subset
  <2>3. Cardinality(U) \in Nat /\ Cardinality(T) \in Nat
      BY <2>1, <2>2, FS_CardinalityType
  <2> QED
      BY <1>1, <2>2, <2>3
<1>2. ASSUME NEW k \in S PROVE Cardinality(Below(S, k)) \in 0 .. Cardinality(S) - 1
  <2>1. Below(S, k) \subseteq S /\ k \notin Below(S, k)
      BY DEF Below, IsOrder
  <2>2. /\ Cardinality(Below(S, k)) \in Nat /\ Cardinality(S) \in Nat
        /\ Cardinality(Below(S, k)) < Cardinality(S)
      BY <1>1, <2>1
  <2> QED
      BY <2>2
<1>3. ASSUME NEW j \in S, NEW k \in S, Sooner(j, k)
      PROVE  Cardinality(Below(S, j)) < Cardinality(Below(S, k))
  <2>1. Below(S, k) \subseteq S /\ Below(S, j) \subseteq Below(S, k)
      BY <1>3 DEF Below, IsOrder
  <2>2. j \in Below(S, k) /\ j \notin Below(S, j)
      BY <1>3 DEF Below, IsOrder
  <2> QED
      BY <1>1, <2>1, <2>2
<1>4. ASSUME NEW j \in S, NEW k \in S, j # k
      PROVE  Cardinality(Below(S, j)) # Cardinality(Below(S, k))
  <2>1. /\ Cardinality(Below(S, j)) \in 0 .. Cardinality(S) - 1
        /\ Cardinality(Below(S, k)) \in 0 .. Cardinality(S) - 1
      BY <1>2
  <2>2. Sooner(j, k) \/ Sooner(k, j)
      BY <1>4 DEF IsOrder
  <2>3. \/ Cardinality(Below(S, j)) < Cardinality(Below(S, k))
        \/ Cardinality(Below(S, k)) < Cardinality(Below(S, j))
      BY <1>3, <2>2
  <2> QED
      BY <2>1, <2>3
<1> QED
    BY <1>2, <1>3, <1>4

\* A finite set in an order is listed.
LEMMA OrderLists ==
    ASSUME NEW S, IsFiniteSet(S), IsOrder(S)
    PROVE  Lists(InOrder(S), S)
<1> DEFINE n == Cardinality(S)
           before(k) == Cardinality(Below(S, k))
           f == [k \in S |-> before(k)]
           K == InOrder(S)
<1>1. n \in Nat
    BY FS_CardinalityType
<1>2. /\ \A k \in S : before(k) \in 0 .. n - 1
      /\ \A j, k \in S : Sooner(j, k) => before(j) < before(k)
    BY BelowGrows
<1>3. \A j, k \in S : before(j) = before(k) => j = k
    BY BelowGrows
<1>4. f \in Injection(S, 0 .. n - 1)
    BY <1>2, <1>3 DEF Injection, IsInjective
<1>5. IsFiniteSet(0 .. n - 1) /\ Cardinality(0 .. n - 1) = n
  <2>1. 0 \in Int /\ n - 1 \in Int
      BY <1>1
  <2>2. IsFiniteSet(0 .. n - 1) /\ Cardinality(0 .. n - 1) = IF 0 > n - 1 THEN 0 ELSE n - 1 - 0 + 1
      BY <2>1, FS_Interval
  <2> QED
      BY <1>1, <2>2
<1>6. f \in Surjection(S, 0 .. n - 1)
    BY <1>4, <1>5, FS_Injection
<1>7. \A i \in 0 .. n - 1 : \E k \in S : before(k) = i
    BY <1>6 DEF Surjection
<1>8. K = [i \in 1 .. n |-> CHOOSE k \in S : before(k) = i - 1]
    BY DEF InOrder
<1> HIDE DEF before, n, K
<1>9. \A i \in 1 .. n : K[i] \in S /\ before(K[i]) = i - 1
  <2>1. ASSUME NEW i \in 1 .. n PROVE K[i] \in S /\ before(K[i]) = i - 1
    <3>1. i - 1 \in 0 .. n - 1
        BY <1>1
    <3>2. \E k \in S : before(k) = i - 1
        BY <1>7, <3>1
    <3>3. K[i] = CHOOSE k \in S : before(k) = i - 1
        BY <1>8
    <3> QED
        BY <3>2, <3>3
  <2> QED
      BY <2>1
<1>10. \A k \in S : \E i \in 1 .. n : K[i] = k
  <2>1. ASSUME NEW k \in S PROVE \E i \in 1 .. n : K[i] = k
    <3>1. before(k) \in 0 .. n - 1
        BY <1>2
    <3>2. before(k) + 1 \in 1 .. n /\ (before(k) + 1) - 1 = before(k)
        BY <1>1, <3>1
    <3>3. K[before(k) + 1] \in S /\ before(K[before(k) + 1]) = before(k)
        BY <1>9, <3>2
    <3> QED
        BY <1>3, <3>2, <3>3
  <2> QED
      BY <2>1
<1>11. IsSeq(K) /\ Len(K) = n
    BY <1>1, <1>8 DEF IsSeq
<1>12. \A i, j \in 1 .. n : i < j => Sooner(K[i], K[j])
  <2>1. ASSUME NEW i \in 1 .. n, NEW j \in 1 .. n, i < j PROVE Sooner(K[i], K[j])
    <3>1. K[i] \in S /\ K[j] \in S /\ before(K[i]) < before(K[j])
        BY <1>1, <1>9, <2>1
    <3>2. ~(Sooner(K[j], K[i]))
      <4>1. before(K[i]) \in 0 .. n - 1 /\ before(K[j]) \in 0 .. n - 1
          BY <1>2, <3>1
      <4> QED
          BY <1>1, <1>2, <3>1, <4>1
    <3>3. K[i] # K[j]
      <4>1. before(K[i]) \in 0 .. n - 1
          BY <1>2, <3>1
      <4> QED
          BY <1>1, <3>1, <4>1
    <3> QED
        BY <3>1, <3>2, <3>3 DEF IsOrder
  <2> QED
      BY <2>1
<1> QED
    BY <1>9, <1>10, <1>11, <1>12 DEF Lists, n, K

\* What lists a set in an order is the only one.
LEMMA ListsOne ==
    ASSUME NEW S, IsFiniteSet(S), IsOrder(S), NEW K, Lists(K, S)
    PROVE  K = InOrder(S)
<1> DEFINE n == Cardinality(S)
           before(k) == Cardinality(Below(S, k))
<1>1. n \in Nat
    BY FS_CardinalityType
<1>2. K = [i \in 1 .. n |-> K[i]] /\ \A i \in 1 .. n : K[i] \in S
    BY DEF Lists, IsSeq
<1>3. ASSUME NEW i \in 1 .. n PROVE before(K[i]) = i - 1
  <2> DEFINE g == [j \in 1 .. i - 1 |-> K[j]]
  <2>1. ASSUME NEW j \in 1 .. i - 1 PROVE K[j] \in Below(S, K[i])
    <3>1. j \in 1 .. n /\ j < i
        BY <1>1
    <3>2. Sooner(K[j], K[i]) /\ K[j] \in S
        BY <1>2, <3>1 DEF Lists
    <3> QED
        BY <3>2 DEF Below
  <2>2. \A j, k \in 1 .. i - 1 : K[j] = K[k] => j = k
    <3>1. ASSUME NEW j \in 1 .. i - 1, NEW k \in 1 .. i - 1, j < k PROVE K[j] # K[k]
      <4>1. j \in 1 .. n /\ k \in 1 .. n
          BY <1>1
      <4>2. Sooner(K[j], K[k])
          BY <3>1, <4>1 DEF Lists
      <4>3. K[j] \in S /\ K[k] \in S
          BY <1>2, <4>1
      <4> QED
          BY <4>2, <4>3 DEF IsOrder
    <3> QED
        BY <3>1
  <2>3. ASSUME NEW k \in Below(S, K[i]) PROVE \E j \in 1 .. i - 1 : K[j] = k
    <3>1. k \in S /\ Sooner(k, K[i])
        BY DEF Below
    <3>2. PICK j \in 1 .. n : K[j] = k
        BY <3>1 DEF Lists
    <3>3. j # i
        BY <3>1, <3>2, <1>2 DEF IsOrder
    <3>4. ~(i < j)
      <4>1. i < j => Sooner(K[i], K[j])
          BY <3>2 DEF Lists
      <4> QED
          BY <1>2, <3>1, <3>2, <4>1 DEF IsOrder
    <3>5. j \in 1 .. i - 1
        BY <1>1, <3>3, <3>4
    <3> QED
        BY <3>2, <3>5
  <2>4. g \in Bijection(1 .. i - 1, Below(S, K[i]))
      BY <2>1, <2>2, <2>3 DEF Bijection, Injection, Surjection, IsInjective
  <2>5. IsFiniteSet(1 .. i - 1) /\ Cardinality(1 .. i - 1) = i - 1
    <3>1. 1 \in Int /\ i - 1 \in Int
        BY <1>1
    <3>2. /\ IsFiniteSet(1 .. i - 1)
          /\ Cardinality(1 .. i - 1) = IF 1 > i - 1 THEN 0 ELSE i - 1 - 1 + 1
        BY <3>1, FS_Interval
    <3> QED
        BY <1>1, <3>2
  <2>6. ExistsBijection(1 .. i - 1, Below(S, K[i]))
      BY <2>4 DEF ExistsBijection
  <2> QED
      BY <2>5, <2>6, FS_Bijection
<1>4. \A j, k \in S : before(j) = before(k) => j = k
    BY BelowGrows
<1> HIDE DEF before
<1>5. \A i \in 1 .. n : K[i] = CHOOSE k \in S : before(k) = i - 1
  <2>1. ASSUME NEW i \in 1 .. n PROVE K[i] = CHOOSE k \in S : before(k) = i - 1
    <3>1. K[i] \in S /\ before(K[i]) = i - 1
        BY <1>2, <1>3
    <3>2. \A k \in S : before(k) = i - 1 => k = K[i]
        BY <1>4, <3>1
    <3> QED
        BY <3>1, <3>2
  <2> QED
      BY <2>1
<1>6. InOrder(S) = [i \in 1 .. n |-> CHOOSE k \in S : before(k) = i - 1]
    BY DEF InOrder, before
<1> QED
    BY <1>2, <1>5, <1>6

\* The keys of disks and images that are written, or that the parser knows without a number.
IsDiskKey(k) == k \in {Bootdisk, BareDisk} \/ \E n \in Nat : k = <<"disk", n>>
IsCdromKey(k) == k = BareCdrom \/ \E n \in Nat : k = <<"cdrom", n>>
IsKey(k) ==
    /\ k[1] \in DiskKinds => IsDiskKey(k)
    /\ k[1] \in CdromKinds => IsCdromKey(k)

Kinds == {DiskKinds, CdromKinds}
KeysIn(c, kinds) == {k \in DOMAIN c.attr : k[1] \in kinds}

\* The keys of a kind are read in their order.
LEMMA KeysInOrder ==
    ASSUME NEW c, NEW kinds
    PROVE  KeysOf(c, kinds) = InOrder(KeysIn(c, kinds))
BY Zenon DEF KeysOf, KeysIn, InOrder, Below

\* Keys of one sort have no slot and rank in common.
LEMMA KeyTold ==
    /\ \A k : IsDiskKey(k) \/ IsCdromKey(k) => Slot(k) \in Nat /\ KeyRank(k) \in 0 .. 2
    /\ \A j, k : IsDiskKey(j) /\ IsDiskKey(k) /\ Slot(j) = Slot(k) /\ KeyRank(j) = KeyRank(k)
                    => j = k
    /\ \A j, k : IsCdromKey(j) /\ IsCdromKey(k) /\ Slot(j) = Slot(k) /\ KeyRank(j) = KeyRank(k)
                    => j = k
<1>1. Bootdisk[1] = "bootdisk" /\ BareDisk[1] = "bare disk" /\ Bootdisk[2] = 0
    BY DEF Bootdisk, BareDisk
<1>2. Slot(Bootdisk) = 0 /\ KeyRank(Bootdisk) = 0
    BY DEF Bootdisk, BareDisk, Slot, KeyRank
<1>3. Slot(BareDisk) = 1 /\ KeyRank(BareDisk) = 1
    BY DEF Bootdisk, BareDisk, Slot, KeyRank
<1>4. Slot(BareCdrom) = 0 /\ KeyRank(BareCdrom) = 1
    BY DEF Bootdisk, BareDisk, BareCdrom, Slot, KeyRank
<1>5. ASSUME NEW n \in Nat, NEW word \in {"disk", "cdrom"}
      PROVE  Slot(<<word, n>>) = n /\ KeyRank(<<word, n>>) = 2
    BY DEF Bootdisk, BareDisk, Slot, KeyRank
<1>6. ASSUME NEW k, IsDiskKey(k)
      PROVE  \/ k = Bootdisk /\ Slot(k) = 0 /\ KeyRank(k) = 0
             \/ k = BareDisk /\ Slot(k) = 1 /\ KeyRank(k) = 1
             \/ \E n \in Nat : k = <<"disk", n>> /\ Slot(k) = n /\ KeyRank(k) = 2
    BY <1>2, <1>3, <1>5, <1>6 DEF IsDiskKey
<1>7. ASSUME NEW k, IsCdromKey(k)
      PROVE  \/ k = BareCdrom /\ Slot(k) = 0 /\ KeyRank(k) = 1
             \/ \E n \in Nat : k = <<"cdrom", n>> /\ Slot(k) = n /\ KeyRank(k) = 2
    BY <1>4, <1>5, <1>7 DEF IsCdromKey
<1>8. \A k : IsDiskKey(k) \/ IsCdromKey(k) => Slot(k) \in Nat /\ KeyRank(k) \in 0 .. 2
  <2>1. ASSUME NEW k, IsDiskKey(k) PROVE Slot(k) \in Nat /\ KeyRank(k) \in 0 .. 2
      BY <1>6, <2>1
  <2>2. ASSUME NEW k, IsCdromKey(k) PROVE Slot(k) \in Nat /\ KeyRank(k) \in 0 .. 2
      BY <1>7, <2>2
  <2> QED
      BY <2>1, <2>2
<1>9. \A j, k : IsDiskKey(j) /\ IsDiskKey(k) /\ Slot(j) = Slot(k) /\ KeyRank(j) = KeyRank(k)
                   => j = k
    BY <1>6
<1>10. \A j, k : IsCdromKey(j) /\ IsCdromKey(k) /\ Slot(j) = Slot(k) /\ KeyRank(j) = KeyRank(k)
                    => j = k
    BY <1>7
<1> QED
    BY <1>8, <1>9, <1>10

\* Slots order the keys of disks, and those of images.
LEMMA SlotsOrder ==
    ASSUME NEW S, (\A k \in S : IsDiskKey(k)) \/ (\A k \in S : IsCdromKey(k))
    PROVE  IsOrder(S)
<1>1. \A k \in S : Slot(k) \in Nat /\ KeyRank(k) \in Nat
    BY KeyTold
<1>2. \A j, k \in S : Slot(j) = Slot(k) /\ KeyRank(j) = KeyRank(k) => j = k
    BY KeyTold
<1>3. ASSUME NEW j \in S, NEW k \in S PROVE ~(Sooner(j, k) /\ Sooner(k, j))
  <2>1. Slot(j) \in Nat /\ Slot(k) \in Nat /\ KeyRank(j) \in Nat /\ KeyRank(k) \in Nat
      BY <1>1
  <2> QED
      BY <2>1 DEF Sooner
<1>4. ASSUME NEW j \in S, NEW k \in S, j # k PROVE Sooner(j, k) \/ Sooner(k, j)
  <2>1. Slot(j) \in Nat /\ Slot(k) \in Nat /\ KeyRank(j) \in Nat /\ KeyRank(k) \in Nat
      BY <1>1
  <2>2. Slot(j) # Slot(k) \/ KeyRank(j) # KeyRank(k)
      BY <1>2, <1>4
  <2> QED
      BY <2>1, <2>2 DEF Sooner
<1>5. ASSUME NEW i \in S, NEW j \in S, NEW k \in S, Sooner(i, j), Sooner(j, k)
      PROVE  Sooner(i, k)
  <2>1. /\ Slot(i) \in Nat /\ Slot(j) \in Nat /\ Slot(k) \in Nat
        /\ KeyRank(i) \in Nat /\ KeyRank(j) \in Nat /\ KeyRank(k) \in Nat
      BY <1>1
  <2> QED
      BY <1>5, <2>1 DEF Sooner
<1> QED
    BY <1>3, <1>4, <1>5 DEF IsOrder

\* What is said of the attributes of any configuration.
AttrOK(c) == IsFiniteSet(DOMAIN c.attr) /\ \A k \in DOMAIN c.attr : IsKey(k)

\* So the keys read are all there are of the kind, once each and in order.
LEMMA KeysAreListed ==
    ASSUME NEW c, AttrOK(c), NEW kinds \in Kinds
    PROVE  /\ IsFiniteSet(KeysIn(c, kinds))
           /\ IsOrder(KeysIn(c, kinds))
           /\ Lists(KeysOf(c, kinds), KeysIn(c, kinds))
<1>1. IsFiniteSet(KeysIn(c, kinds))
    BY FS_Subset DEF AttrOK, KeysIn
<1>2. \/ \A k \in KeysIn(c, kinds) : IsDiskKey(k)
      \/ \A k \in KeysIn(c, kinds) : IsCdromKey(k)
    BY DEF AttrOK, IsKey, KeysIn, Kinds
<1>3. IsOrder(KeysIn(c, kinds))
    BY <1>2, SlotsOrder
<1> QED
    BY <1>1, <1>3, OrderLists, KeysInOrder

-----------------------------------------------------------------------------
(* A VM, as the configuration it is written to and found in.               *)

\* A VM as a handler has it: its disks, one of them to boot from.
IsVmSpec(vm) ==
    /\ vm = [f \in {"vcpus", "disks", "nics", "cdroms", "attrs"} |-> vm[f]]
    /\ IsSeq(vm.disks) /\ IsSeq(vm.cdroms) /\ IsSeq(vm.nics)
    /\ \A i \in DOMAIN vm.disks : vm.disks[i].boot \in BOOLEAN
    /\ \A i, j \in DOMAIN vm.disks : vm.disks[i].boot /\ vm.disks[j].boot => i = j
    /\ vm.attrs = [k \in DOMAIN vm.attrs |-> vm.attrs[k]]
    /\ IsFiniteSet(DOMAIN vm.attrs) /\ \A k \in DOMAIN vm.attrs : ~IsManaged(k)

DiskKey(vm, i) == DiskAttr(i - 1, vm.disks[i].boot)
DiskAttrs(vm) == {DiskKey(vm, i) : i \in DOMAIN vm.disks}
CdromAttrs(vm) == {CdromAttr(i - 1) : i \in DOMAIN vm.cdroms}

\* What to_zone_spec makes of a VM.
LEMMA SpecMade ==
    ASSUME NEW vm
    PROVE  LET s == ToZoneSpec(vm)
           IN  /\ s = [f \in Fields |-> s[f]] /\ s.brand = "bhyve"
               /\ s.anet = vm.nics /\ s.fs = vm.cdroms
               /\ s.device = [i \in DOMAIN vm.disks |-> vm.disks[i].zvol]
               /\ s["capped-cpu"] = << >> /\ s["capped-memory"] = << >>
               /\ s.attr = CdromEntries(vm.cdroms) ++ DiskEntries(vm.disks)
                              ++ Only(Vcpus, vm.vcpus) ++ vm.attrs
BY DEF ToZoneSpec, Empty, Fields, Rewritten, Caps

\* Where both have one, the first has its value.
LEMMA OverDomain == ASSUME NEW f, NEW g PROVE DOMAIN (f ++ g) = DOMAIN f \cup DOMAIN g
BY DEF ++

\* In f ++ g it is f that counts where both have a value.
LEMMA OverFirst == ASSUME NEW f, NEW g, NEW k \in DOMAIN f PROVE (f ++ g)[k] = f[k]
BY DEF ++

\* Where f has none, g's is the value.
LEMMA OverSecond == ASSUME NEW f, NEW g, NEW k \in DOMAIN g \ DOMAIN f PROVE (f ++ g)[k] = g[k]
BY DEF ++

\* f ++ g is a function.
LEMMA OverIs == ASSUME NEW f, NEW g PROVE f ++ g = [k \in DOMAIN (f ++ g) |-> (f ++ g)[k]]
BY DEF ++

\* The keys written for a position.
LEMMA CdromAttrIs ==
    ASSUME NEW i \in Nat
    PROVE  /\ CdromAttr(i)[1] \in CdromKinds /\ CdromAttr(i)[2] = i
           /\ IsCdromKey(CdromAttr(i)) /\ Slot(CdromAttr(i)) = i
<1>1. CASE i = 0
  <2>1. CdromAttr(i) = BareCdrom
      BY <1>1 DEF CdromAttr
  <2>2. BareCdrom[1] \in CdromKinds /\ BareCdrom[2] = 0 /\ Slot(BareCdrom) = 0
      BY DEF BareCdrom, BareDisk, CdromKinds, Slot
  <2> QED
      BY <1>1, <2>1, <2>2 DEF IsCdromKey
<1>2. CASE i # 0
  <2>1. CdromAttr(i) = <<"cdrom", i>>
      BY <1>2 DEF CdromAttr
  <2>2. <<"cdrom", i>>[1] \in CdromKinds /\ <<"cdrom", i>>[2] = i
      BY DEF CdromKinds
  <2>3. Slot(<<"cdrom", i>>) = i
      BY DEF Slot, BareDisk
  <2> QED
      BY <2>1, <2>2, <2>3 DEF IsCdromKey
<1> QED
    BY <1>1, <1>2

\* The name of a disk is that of the boot disk, or has its slot in it.
LEMMA DiskAttrIs ==
    ASSUME NEW i \in Nat
    PROVE  /\ DiskAttr(i, TRUE) = Bootdisk
           /\ DiskAttr(i, FALSE)[1] = "disk" /\ DiskAttr(i, FALSE)[2] = i
           /\ DiskAttr(i, FALSE) = <<"disk", i>>
           /\ IsDiskKey(DiskAttr(i, FALSE)) /\ Slot(DiskAttr(i, FALSE)) = i
           /\ Bootdisk[1] = "bootdisk" /\ Bootdisk # DiskAttr(i, FALSE)
           /\ IsDiskKey(Bootdisk) /\ Slot(Bootdisk) = 0
<1>1. DiskAttr(i, TRUE) = Bootdisk /\ DiskAttr(i, FALSE) = <<"disk", i>>
    BY DEF DiskAttr
<1>2. <<"disk", i>>[1] = "disk" /\ <<"disk", i>>[2] = i
    OBVIOUS
<1>3. Slot(<<"disk", i>>) = i
    BY DEF Slot, BareDisk
<1>4. Bootdisk[1] = "bootdisk" /\ Slot(Bootdisk) = 0
    BY DEF Bootdisk, BareDisk, Slot
<1>5. IsDiskKey(Bootdisk) /\ IsDiskKey(<<"disk", i>>)
    BY DEF IsDiskKey
<1>6. Bootdisk # <<"disk", i>>
    BY <1>2, <1>4
<1> QED
    BY <1>1, <1>2, <1>3, <1>4, <1>5, <1>6

\* The attributes of a VM as it is written: settings, disks, images, and those it kept.
LEMMA SpecAttrs ==
    ASSUME NEW vm, IsVmSpec(vm)
    PROVE  LET a == ToZoneSpec(vm).attr
           IN  /\ DOMAIN a = CdromAttrs(vm) \cup DiskAttrs(vm) \cup {Vcpus} \cup DOMAIN vm.attrs
               /\ a = [k \in DOMAIN a |-> a[k]]
               /\ a[Vcpus] = vm.vcpus
               /\ \A i \in DOMAIN vm.disks : a[DiskKey(vm, i)] = vm.disks[i].zvol
               /\ \A i \in DOMAIN vm.cdroms : a[CdromAttr(i - 1)] = vm.cdroms[i]
               /\ \A k \in DOMAIN vm.attrs : a[k] = vm.attrs[k]
<1> DEFINE d == DiskEntries(vm.disks)
           c == CdromEntries(vm.cdroms)
           v == Only(Vcpus, vm.vcpus)
<1>1. DOMAIN d = DiskAttrs(vm) /\ DOMAIN c = CdromAttrs(vm)
    BY DEF DiskEntries, CdromEntries, DiskAttrs, CdromAttrs, DiskKey
<1>2. DOMAIN v = {Vcpus} /\ v[Vcpus] = vm.vcpus
    BY DEF Only
<1>3. ASSUME NEW i \in DOMAIN vm.disks PROVE d[DiskKey(vm, i)] = vm.disks[i].zvol
  <2>1. \A j \in DOMAIN vm.disks : DiskKey(vm, j) = DiskKey(vm, i) => j = i
    <3>1. i \in Nat /\ \A j \in DOMAIN vm.disks : j \in Nat
        BY DEF IsVmSpec, IsSeq
    <3> QED
        BY <3>1 DEF IsVmSpec, DiskKey, DiskAttr, Bootdisk
  <2>2. d[DiskKey(vm, i)] = vm.disks[CHOOSE j \in DOMAIN vm.disks : DiskKey(vm, j) = DiskKey(vm, i)].zvol
      BY DEF DiskEntries, DiskKey
  <2> QED
      BY <2>1, <2>2
<1>4. ASSUME NEW i \in DOMAIN vm.cdroms PROVE c[CdromAttr(i - 1)] = vm.cdroms[i]
  <2>1. \A j \in DOMAIN vm.cdroms : CdromAttr(j - 1) = CdromAttr(i - 1) => j = i
    <3>1. i \in Nat /\ \A j \in DOMAIN vm.cdroms : j \in Nat
        BY DEF IsVmSpec, IsSeq
    <3>2. i - 1 \in Nat /\ \A j \in DOMAIN vm.cdroms : j - 1 \in Nat
        BY DEF IsVmSpec, IsSeq
    <3> QED
        BY <3>1, <3>2, CdromAttrIs
  <2>2. c[CdromAttr(i - 1)] = vm.cdroms[CHOOSE j \in DOMAIN vm.cdroms : CdromAttr(j - 1) = CdromAttr(i - 1)]
      BY DEF CdromEntries
  <2> QED
      BY <2>1, <2>2
<1>5. ASSUME NEW k \in CdromAttrs(vm) PROVE k[1] \in {"bare cdrom", "cdrom"} /\ IsManaged(k)
  <2>1. PICK i \in DOMAIN vm.cdroms : k = CdromAttr(i - 1)
      BY DEF CdromAttrs
  <2>2. i - 1 \in Nat
      BY DEF IsVmSpec, IsSeq
  <2> QED
      BY <2>1, <2>2, CdromAttrIs DEF CdromKinds, IsManaged
<1>6. ASSUME NEW k \in DiskAttrs(vm) PROVE k[1] \in {"bootdisk", "disk"} /\ IsManaged(k)
  <2>1. PICK i \in DOMAIN vm.disks : k = DiskAttr(i - 1, vm.disks[i].boot)
      BY DEF DiskAttrs, DiskKey
  <2>2. i - 1 \in Nat /\ vm.disks[i].boot \in BOOLEAN
      BY DEF IsVmSpec, IsSeq
  <2>3. k = DiskAttr(i - 1, TRUE) \/ k = DiskAttr(i - 1, FALSE)
      BY <2>1, <2>2
  <2>4. k[1] \in {"bootdisk", "disk"}
      BY <2>2, <2>3, DiskAttrIs
  <2> QED
      BY <2>4 DEF DiskKinds, IsManaged
<1>7. Vcpus[1] = "vcpus" /\ IsManaged(Vcpus)
    BY DEF Vcpus, IsManaged
<1>8. \A k \in DOMAIN vm.attrs : ~IsManaged(k)
    BY DEF IsVmSpec
<1>9. ToZoneSpec(vm).attr = ((c ++ d) ++ v) ++ vm.attrs
    BY SpecMade
<1>10. \A i \in DOMAIN vm.disks : DiskKey(vm, i) \in DiskAttrs(vm)
    BY DEF DiskAttrs
<1>11. \A i \in DOMAIN vm.cdroms : CdromAttr(i - 1) \in CdromAttrs(vm)
    BY DEF CdromAttrs
<1> HIDE DEF c, d, v
<1> DEFINE u == c ++ d
           w == u ++ v
           a == w ++ vm.attrs
<1>12. DOMAIN u = DOMAIN c \cup DOMAIN d
    BY OverDomain
<1>13. DOMAIN w = DOMAIN u \cup DOMAIN v
    BY OverDomain
<1>14. ASSUME NEW k \in DOMAIN c PROVE a[k] = c[k]
  <2>1. u[k] = c[k]
      BY OverFirst
  <2>2. w[k] = u[k]
      BY <1>12, OverFirst
  <2>3. a[k] = w[k]
      BY <1>12, <1>13, OverFirst
  <2> QED
      BY <2>1, <2>2, <2>3
<1>15. ASSUME NEW k \in DOMAIN d PROVE a[k] = d[k]
  <2>1. u[k] = d[k]
    <3>1. k \notin DOMAIN c
        BY <1>1, <1>5, <1>6
    <3> QED
        BY <3>1, OverSecond
  <2>2. w[k] = u[k]
      BY <1>12, OverFirst
  <2>3. a[k] = w[k]
      BY <1>12, <1>13, OverFirst
  <2> QED
      BY <2>1, <2>2, <2>3
<1>16. a[Vcpus] = v[Vcpus]
  <2>1. w[Vcpus] = v[Vcpus]
    <3>1. Vcpus \notin DOMAIN u /\ Vcpus \in DOMAIN v
        BY <1>1, <1>2, <1>5, <1>6, <1>7, <1>12
    <3> QED
        BY <3>1, OverSecond
  <2>2. a[Vcpus] = w[Vcpus]
    <3>1. Vcpus \in DOMAIN w
        BY <1>2, <1>13
    <3> QED
        BY <3>1, OverFirst
  <2> QED
      BY <2>1, <2>2
<1>17. ASSUME NEW k \in DOMAIN vm.attrs PROVE a[k] = vm.attrs[k]
  <2>1. k \notin DOMAIN w
      BY <1>1, <1>2, <1>5, <1>6, <1>7, <1>8, <1>12, <1>13
  <2> QED
      BY <2>1, OverSecond
<1>18. DOMAIN a = DOMAIN c \cup DOMAIN d \cup {Vcpus} \cup DOMAIN vm.attrs
  <2>1. DOMAIN a = DOMAIN w \cup DOMAIN vm.attrs
      BY OverDomain
  <2> QED
      BY <1>2, <1>12, <1>13, <2>1
<1>19. a = [k \in DOMAIN a |-> a[k]]
    BY OverIs
<1>20. ToZoneSpec(vm).attr = a
    BY <1>9
<1> HIDE DEF a, w, u
<1> QED
    BY <1>1, <1>2, <1>3, <1>4, <1>10, <1>11, <1>14, <1>15, <1>16, <1>17, <1>18, <1>19, <1>20

IsConfig(c) ==
    /\ c = [f \in Fields |-> c[f]]
    /\ c.attr = [k \in DOMAIN c.attr |-> c.attr[k]]
    /\ \A kind \in Rewritten : IsSeq(c[kind])

\* The reading changes the order of what it reads, and nothing else.
LEMMA ReadIs ==
    ASSUME NEW c
    PROVE  /\ Read(c) = [f \in Fields |-> Read(c)[f]]
           /\ Read(c).attr = c.attr /\ Read(c).brand = c.brand /\ Read(c).dataset = c.dataset
           /\ Read(c).anet = c.anet /\ Read(c).device = c.device /\ Read(c).fs = c.fs
           /\ \A kind \in Rewritten : Read(c)[kind] = << >> <=> c[kind] = << >>
           /\ \A kind \in Rewritten : IsSeq(c[kind]) => IsSeq(Read(c)[kind])
<1>1. ASSUME NEW f \in Fields PROVE Read(c)[f] = FinishResource(c, f)
    BY DEF Read
<1>2. \A f \in {"anet", "device", "fs", "attr", "brand", "dataset"} :
         f \in Fields /\ f \notin Caps /\ f # "rctl" /\ f # "other"
    BY DEF Fields, Rewritten, Caps
<1>3. \A f \in {"anet", "device", "fs", "attr", "brand", "dataset"} : Read(c)[f] = c[f]
    BY <1>1, <1>2 DEF FinishResource
<1>4. ASSUME NEW kind \in Caps
      PROVE  Read(c)[kind] = IF c[kind] = << >> THEN c[kind] ELSE <<Last(c[kind])>>
  <2>1. kind \in Fields /\ kind # "rctl" /\ kind # "other"
      BY DEF Fields, Rewritten, Caps
  <2> QED
      BY <1>1, <2>1 DEF FinishResource
<1>5. \A x : IsSeq(<<x>>) /\ <<x>> # << >>
    BY DEF IsSeq
<1>6. ASSUME NEW kind \in Rewritten
      PROVE  /\ Read(c)[kind] = << >> <=> c[kind] = << >>
             /\ IsSeq(c[kind]) => IsSeq(Read(c)[kind])
  <2>1. CASE kind \in Caps
      BY <1>4, <1>5, <2>1
  <2>2. CASE kind \notin Caps
      BY <1>3, <2>2 DEF Rewritten
  <2> QED
      BY <2>1, <2>2
<1>7. Read(c) = [f \in Fields |-> Read(c)[f]]
    BY DEF Read
<1> QED
    BY <1>3, <1>6, <1>7

\* What a script makes of a configuration c.
MadeOf(c, script, d) ==
    /\ d = [f \in Fields |-> d[f]]
    /\ \A kind \in Rewritten : d[kind] = After(c, script, kind)
    /\ d.brand = c.brand /\ d.dataset = c.dataset /\ d.rctl = c.rctl
    /\ d.attr = [k \in DOMAIN d.attr |-> d.attr[k]]
    /\ DOMAIN d.attr = (DOMAIN c.attr \ script.removed) \cup DOMAIN script.new
                          \cup DOMAIN script.set
    /\ \A k \in DOMAIN script.new : d.attr[k] = script.new[k]
    /\ \A k \in DOMAIN script.set \ DOMAIN script.new : d.attr[k] = script.set[k]
    /\ \A k \in DOMAIN c.attr \ (script.removed \cup DOMAIN script.set \cup DOMAIN script.new) :
          d.attr[k] = c.attr[k]

\* A script that runs through leaves what it says.
LEMMA ScriptRuns ==
    ASSUME NEW c, NEW script, Zonecfg(c, script).ok
    PROVE  MadeOf(c, script, Zonecfg(c, script).config)
<1> DEFINE d == Done(c, script)
           kept == Restrict(c.attr, DOMAIN c.attr \ script.removed)
           u == script.new ++ script.set
<1>1. Zonecfg(c, script).config = d
    BY DEF Zonecfg
<1>2. \A kind \in Rewritten : kind \in Fields
    BY DEF Fields
<1>3. ASSUME NEW kind \in Rewritten PROVE d[kind] = After(c, script, kind)
  <2>1. kind \in Fields /\ kind \in Rewritten /\ kind # "attr"
      BY <1>2 DEF Rewritten, Caps
  <2> HIDE DEF kept, u
  <2> DEFINE g(field) ==
            CASE field \in Rewritten -> After(c, script, field)
              [] field = "attr" -> script.new ++ script.set ++ Restrict(c.attr, DOMAIN c.attr \ script.removed)
              [] OTHER -> c[field]
  <2>2. g(kind) = After(c, script, kind)
      BY <2>1
  <2>3. d = [field \in Fields |-> g(field)]
      BY Zenon DEF Done
  <2> HIDE DEF g, d
  <2> QED
      BY <2>1, <2>2, <2>3
<1>4. "attr" \in Fields /\ "attr" \notin Rewritten
    BY DEF Fields, Rewritten, Caps
<1>5. d.attr = u ++ kept
    BY <1>4 DEF Done
<1>6. \A f \in {"brand", "dataset", "rctl"} : f \in Fields /\ f \notin Rewritten /\ f # "attr"
    BY DEF Fields, Rewritten, Caps
<1>7. \A f \in {"brand", "dataset", "rctl"} : d[f] = c[f]
    BY <1>6 DEF Done
<1>8. d = [f \in Fields |-> d[f]]
    BY DEF Done
<1> HIDE DEF d
<1>9. DOMAIN kept = DOMAIN c.attr \ script.removed /\ \A k \in DOMAIN kept : kept[k] = c.attr[k]
    BY DEF Restrict
<1> HIDE DEF kept
<1>10. DOMAIN u = DOMAIN script.new \cup DOMAIN script.set
    BY OverDomain
<1>11. ASSUME NEW k \in DOMAIN script.new PROVE d.attr[k] = script.new[k]
  <2>1. u[k] = script.new[k]
      BY OverFirst
  <2>2. (u ++ kept)[k] = u[k]
      BY <1>10, OverFirst
  <2> QED
      BY <1>5, <2>1, <2>2
<1>12. ASSUME NEW k \in DOMAIN script.set \ DOMAIN script.new PROVE d.attr[k] = script.set[k]
  <2>1. u[k] = script.set[k]
      BY OverSecond
  <2>2. (u ++ kept)[k] = u[k]
      BY <1>10, OverFirst
  <2> QED
      BY <1>5, <2>1, <2>2
<1>13. ASSUME NEW k \in DOMAIN c.attr \ (script.removed \cup DOMAIN script.set \cup DOMAIN script.new)
       PROVE  d.attr[k] = c.attr[k]
  <2>1. k \in DOMAIN kept \ DOMAIN u
      BY <1>9, <1>10
  <2>2. (u ++ kept)[k] = kept[k]
      BY <2>1, OverSecond
  <2> QED
      BY <1>5, <1>9, <2>1, <2>2
<1>14. DOMAIN d.attr = DOMAIN u \cup DOMAIN kept
    BY <1>5, OverDomain
<1>15. d.attr = [k \in DOMAIN d.attr |-> d.attr[k]]
    BY <1>5, OverIs
<1> QED
    BY <1>1, <1>3, <1>7, <1>8, <1>9, <1>10, <1>11, <1>12, <1>13, <1>14, <1>15 DEF MadeOf

\* What an update to s, written for the configuration c0, makes of a configuration c.
UpdatedTo(s, c0, c, d) ==
    /\ d = [f \in Fields |-> d[f]]
    /\ d.brand = c.brand /\ d.dataset = c.dataset /\ d.rctl = c.rctl
    /\ d.attr = [k \in DOMAIN d.attr |-> d.attr[k]]
    /\ DOMAIN d.attr = DOMAIN s.attr \cup (DOMAIN c.attr \ {k \in DOMAIN c0.attr : IsManaged(k)})
    /\ \A k \in DOMAIN s.attr : d.attr[k] = s.attr[k]
    /\ \A k \in DOMAIN d.attr \ DOMAIN s.attr : d.attr[k] = c.attr[k]
    /\ \A kind \in Rewritten : d[kind] = (IF c0[kind] = << >> THEN c[kind] ELSE << >>) \o s[kind]
    /\ IsInjective(d.device) /\ IsInjective(d.fs)

\* An update that runs through removes what was read, adds what is wanted, and
\* leaves the rest.
LEMMA UpdateRuns ==
    ASSUME NEW c, NEW c0, NEW s, Zonecfg(c, RenderUpdate(Read(c0), s)).ok
    PROVE  UpdatedTo(s, c0, c, Zonecfg(c, RenderUpdate(Read(c0), s)).config)
<1> DEFINE script == RenderUpdate(Read(c0), s)
           d == Zonecfg(c, script).config
<1>1. Read(c0).attr = c0.attr /\ \A kind \in Rewritten : Read(c0)[kind] = << >> <=> c0[kind] = << >>
    BY ReadIs
<1>2. /\ script.cleared = {kind \in Rewritten : Read(c0)[kind] # << >>}
      /\ script.added = Adds(s)
      /\ script.set = Restrict(s.attr, DOMAIN s.attr \cap DOMAIN c0.attr)
      /\ script.new = Restrict(s.attr, DOMAIN s.attr \ DOMAIN c0.attr)
      /\ script.removed = {k \in DOMAIN c0.attr : IsManaged(k) /\ k \notin DOMAIN s.attr}
    <2>1. DOMAIN s.attr \ (DOMAIN s.attr \cap DOMAIN c0.attr) = DOMAIN s.attr \ DOMAIN c0.attr
        OBVIOUS
    <2> QED
        BY <1>1, <2>1 DEF RenderUpdate, Unwanted
<1>3. Zonecfg(c, script).ok
    OBVIOUS
<1> HIDE DEF script
<1>4. MadeOf(c, script, d)
    BY <1>3, ScriptRuns
<1>5. IsInjective(After(c, script, "device")) /\ IsInjective(After(c, script, "fs"))
  <2>1. "device" \in Rewritten \ Caps /\ "fs" \in Rewritten \ Caps
      BY DEF Rewritten, Caps
  <2> QED
      BY <1>3, <2>1 DEF Zonecfg, Fits
<1> HIDE DEF d
<1>6. /\ DOMAIN script.set = DOMAIN s.attr \cap DOMAIN c0.attr
      /\ \A k \in DOMAIN script.set : script.set[k] = s.attr[k]
      /\ DOMAIN script.new = DOMAIN s.attr \ DOMAIN c0.attr
      /\ \A k \in DOMAIN script.new : script.new[k] = s.attr[k]
    BY <1>2 DEF Restrict
<1>7. IsInjective(d.device) /\ IsInjective(d.fs)
  <2>1. "device" \in Rewritten /\ "fs" \in Rewritten
      BY DEF Rewritten
  <2> QED
      BY <1>4, <1>5, <2>1 DEF MadeOf
<1>8. DOMAIN d.attr = (DOMAIN c.attr \ script.removed) \cup DOMAIN script.new \cup DOMAIN script.set
    BY <1>4 DEF MadeOf
<1>9. DOMAIN d.attr = DOMAIN s.attr \cup (DOMAIN c.attr \ {k \in DOMAIN c0.attr : IsManaged(k)})
    BY <1>2, <1>6, <1>8
<1>10. ASSUME NEW k \in DOMAIN s.attr PROVE d.attr[k] = s.attr[k]
  <2>1. CASE k \in DOMAIN script.new
      BY <1>4, <1>6, <2>1 DEF MadeOf
  <2>2. CASE k \in DOMAIN script.set \ DOMAIN script.new
      BY <1>4, <1>6, <2>2 DEF MadeOf
  <2> QED
      BY <1>6, <2>1, <2>2
<1>11. ASSUME NEW k \in DOMAIN d.attr \ DOMAIN s.attr PROVE d.attr[k] = c.attr[k]
  <2>1. k \in DOMAIN c.attr \ (script.removed \cup DOMAIN script.set \cup DOMAIN script.new)
      BY <1>2, <1>6, <1>8
  <2> QED
      BY <1>4, <2>1 DEF MadeOf
<1>12. ASSUME NEW kind \in Rewritten
       PROVE  d[kind] = (IF c0[kind] = << >> THEN c[kind] ELSE << >>) \o s[kind]
  <2>1. d[kind] = (IF kind \in script.cleared THEN << >> ELSE c[kind]) \o script.added[kind]
      BY <1>4 DEF MadeOf, After
  <2>2. kind \in script.cleared <=> c0[kind] # << >>
      BY <1>1, <1>2
  <2>3. script.added[kind] = s[kind]
      BY <1>2 DEF Adds
  <2> QED
      BY <2>1, <2>2, <2>3
<1>13. /\ d = [f \in Fields |-> d[f]] /\ d.brand = c.brand /\ d.dataset = c.dataset /\ d.rctl = c.rctl
       /\ d.attr = [k \in DOMAIN d.attr |-> d.attr[k]]
    BY <1>4 DEF MadeOf
<1>14. UpdatedTo(s, c0, c, d)
    BY <1>7, <1>9, <1>10, <1>11, <1>12, <1>13 DEF UpdatedTo
<1> QED
    BY <1>14 DEF d, script

Unmanaged(c) == {k \in DOMAIN c.attr : ~IsManaged(k)}

\* The disks and images of a configuration, b the disk to boot from.
HasDisks(c, b) ==
    /\ Bootdisk \in DOMAIN c.attr /\ c.attr[Bootdisk] = b /\ b \in Disks
    /\ \A k \in KeysIn(c, DiskKinds) \ {Bootdisk} : c.attr[k] \in Disks \ {b}
    /\ \A k \in KeysIn(c, CdromKinds) : c.attr[k] \in Isos

\* What any listing, and what is made of it to be written, has in common with the
\* configuration there is.
Alike(c, now) ==
    /\ IsConfig(c) /\ AttrOK(c) /\ c.brand = now.brand
    /\ Unmanaged(c) = Unmanaged(now)
    /\ \A k \in Unmanaged(c) : c.attr[k] = now.attr[k]
    /\ c.brand = "bhyve" => HasDisks(c, now.attr[Bootdisk])

\* What is like a configuration is like what becomes of it, if that is.
LEMMA AlikeOn ==
    ASSUME NEW c, NEW old, NEW now, Alike(c, old), Alike(now, old)
    PROVE  Alike(c, now)
BY DEF Alike, HasDisks

\* Two sequences make one.
LEMMA Joined ==
    ASSUME NEW s, NEW t, IsSeq(s), IsSeq(t)
    PROVE  IsSeq(s \o t)
<1>1. s \in Seq(ToSet(s) \cup ToSet(t)) /\ t \in Seq(ToSet(s) \cup ToSet(t))
  <2>1. s \in Seq(ToSet(s)) /\ t \in Seq(ToSet(t))
      BY SeqOfParts
  <2> QED
      BY <2>1
<1>2. s \o t \in Seq(ToSet(s) \cup ToSet(t))
    BY <1>1
<1> QED
    BY <1>2, IsSeqOf

\* What is read is like what is there.
LEMMA ReadAlike ==
    ASSUME NEW c, NEW now, Alike(c, now)
    PROVE  Alike(Read(c), now)
<1>1. /\ Read(c) = [f \in Fields |-> Read(c)[f]]
      /\ Read(c).attr = c.attr /\ Read(c).brand = c.brand
      /\ \A kind \in Rewritten : IsSeq(c[kind]) => IsSeq(Read(c)[kind])
    BY ReadIs
<1>2. IsConfig(Read(c))
    BY <1>1 DEF Alike, IsConfig
<1>3. AttrOK(Read(c)) /\ Unmanaged(Read(c)) = Unmanaged(c)
    BY <1>1 DEF Alike, AttrOK, Unmanaged
<1>4. KeysIn(Read(c), DiskKinds) = KeysIn(c, DiskKinds) /\ KeysIn(Read(c), CdromKinds) = KeysIn(c, CdromKinds)
    BY <1>1 DEF KeysIn
<1> QED
    BY <1>1, <1>2, <1>3, <1>4 DEF Alike, HasDisks

\* An update, whatever configuration it was written for.
LEMMA UpdateAlike ==
    ASSUME NEW c, NEW c0, NEW s, NEW d, Alike(c, c), Alike(c0, c), Alike(s, c), UpdatedTo(s, c0, c, d)
    PROVE  Alike(d, c)
<1>1. IsConfig(d)
  <2>1. ASSUME NEW kind \in Rewritten PROVE IsSeq(d[kind])
    <3>1. IsSeq(c[kind]) /\ IsSeq(s[kind]) /\ IsSeq(<< >>)
      <4>1. IsSeq(<< >>)
          BY DEF IsSeq
      <4> QED
          BY <4>1 DEF Alike, IsConfig
    <3>2. IsSeq(IF c0[kind] = << >> THEN c[kind] ELSE << >>)
        BY <3>1
    <3>3. IsSeq((IF c0[kind] = << >> THEN c[kind] ELSE << >>) \o s[kind])
        BY <3>1, <3>2, Joined
    <3> QED
        BY <3>3 DEF UpdatedTo
  <2> QED
      BY <2>1 DEF IsConfig, UpdatedTo
<1>2. DOMAIN d.attr = DOMAIN s.attr \cup (DOMAIN c.attr \ {k \in DOMAIN c0.attr : IsManaged(k)})
    BY DEF UpdatedTo
<1>3. AttrOK(d)
  <2>1. IsFiniteSet(DOMAIN c.attr) /\ IsFiniteSet(DOMAIN s.attr)
      BY DEF Alike, AttrOK
  <2>2. IsFiniteSet(DOMAIN c.attr \ {k \in DOMAIN c0.attr : IsManaged(k)})
      BY <2>1, FS_Subset
  <2>3. IsFiniteSet(DOMAIN d.attr)
      BY <1>2, <2>1, <2>2, FS_Union
  <2>4. \A k \in DOMAIN d.attr : k \in DOMAIN s.attr \/ k \in DOMAIN c.attr
      BY <1>2
  <2> QED
      BY <2>3, <2>4 DEF Alike, AttrOK
<1>4. Unmanaged(d) = Unmanaged(c)
    BY <1>2 DEF Unmanaged, Alike
<1>5. ASSUME NEW k \in Unmanaged(d) PROVE d.attr[k] = c.attr[k]
    BY <1>4 DEF Unmanaged, Alike, UpdatedTo
<1>6. ASSUME c.brand = "bhyve" PROVE HasDisks(d, c.attr[Bootdisk])
  <2> DEFINE b == c.attr[Bootdisk]
  <2>1. HasDisks(c, b) /\ HasDisks(s, b)
      BY <1>6 DEF Alike
  <2>2. \A k \in DOMAIN s.attr : d.attr[k] = s.attr[k]
      BY DEF UpdatedTo
  <2>3. \A k \in DOMAIN d.attr \ DOMAIN s.attr : k \in DOMAIN c.attr /\ d.attr[k] = c.attr[k]
      BY <1>2 DEF UpdatedTo
  <2> HIDE DEF b
  <2>4. Bootdisk \in DOMAIN d.attr /\ d.attr[Bootdisk] = b /\ b \in Disks
      BY <1>2, <2>1, <2>2 DEF HasDisks
  <2>5. ASSUME NEW k \in KeysIn(d, DiskKinds) \ {Bootdisk} PROVE d.attr[k] \in Disks \ {b}
    <3>1. CASE k \in DOMAIN s.attr
        BY <2>1, <2>2, <3>1 DEF HasDisks, KeysIn
    <3>2. CASE k \notin DOMAIN s.attr
        BY <2>1, <2>3, <3>2 DEF HasDisks, KeysIn
    <3> QED
        BY <3>1, <3>2
  <2>6. ASSUME NEW k \in KeysIn(d, CdromKinds) PROVE d.attr[k] \in Isos
    <3>1. CASE k \in DOMAIN s.attr
        BY <2>1, <2>2, <3>1 DEF HasDisks, KeysIn
    <3>2. CASE k \notin DOMAIN s.attr
        BY <2>1, <2>3, <3>2 DEF HasDisks, KeysIn
    <3> QED
        BY <3>1, <3>2
  <2>7. HasDisks(d, b)
      BY <2>4, <2>5, <2>6 DEF HasDisks
  <2> QED
      BY <2>7 DEF b
<1>7. d.brand = c.brand
    BY DEF UpdatedTo
<1> QED
    BY <1>1, <1>3, <1>4, <1>5, <1>6, <1>7 DEF Alike

\* A VM as a handler has it, from a listing of the configuration now: its boot disk first.
Mine(vm, now) ==
    /\ IsVmSpec(vm)
    /\ 1 \in DOMAIN vm.disks /\ vm.disks[1].zvol = now.attr[Bootdisk] /\ now.attr[Bootdisk] \in Disks
    /\ \A i \in DOMAIN vm.disks : vm.disks[i].boot <=> i = 1
    /\ \A i \in DOMAIN vm.disks \ {1} : vm.disks[i].zvol \in Disks \ {now.attr[Bootdisk]}
    /\ \A i \in DOMAIN vm.cdroms : vm.cdroms[i] \in Isos
    /\ DOMAIN vm.attrs = Unmanaged(now) /\ \A k \in Unmanaged(now) : vm.attrs[k] = now.attr[k]

\* The disk to boot from is listed first.
LEMMA BootIsFirst ==
    ASSUME NEW c, AttrOK(c), Bootdisk \in DOMAIN c.attr
    PROVE  /\ 1 \in DOMAIN KeysOf(c, DiskKinds) /\ KeysOf(c, DiskKinds)[1] = Bootdisk
           /\ \A i \in DOMAIN KeysOf(c, DiskKinds) : KeysOf(c, DiskKinds)[i] = Bootdisk => i = 1
<1> DEFINE K == KeysOf(c, DiskKinds)
           S == KeysIn(c, DiskKinds)
<1>1. DiskKinds \in Kinds
    BY DEF Kinds
<1>2. Lists(K, S) /\ IsOrder(S)
    BY <1>1, KeysAreListed
<1>3. Bootdisk \in S
    BY DEF KeysIn, DiskKinds, Bootdisk
<1>4. ASSUME NEW k \in S PROVE ~(Sooner(k, Bootdisk))
  <2>1. IsDiskKey(k) /\ IsDiskKey(Bootdisk)
      BY DEF AttrOK, IsKey, KeysIn, IsDiskKey
  <2>2. Slot(k) \in Nat /\ KeyRank(k) \in 0 .. 2
      BY <2>1, KeyTold
  <2>3. Slot(Bootdisk) = 0 /\ KeyRank(Bootdisk) = 0
      BY DEF Bootdisk, BareDisk, Slot, KeyRank
  <2> QED
      BY <2>2, <2>3 DEF Sooner
<1> HIDE DEF K, S
<1>5. DOMAIN K = 1 .. Len(K) /\ Len(K) \in Nat
    BY <1>2 DEF Lists, IsSeq
<1>6. PICK i \in 1 .. Len(K) : K[i] = Bootdisk
    BY <1>2, <1>3 DEF Lists
<1>7. 1 \in 1 .. Len(K)
    BY <1>5
<1>8. \A j \in 1 .. Len(K) : K[j] = Bootdisk => j = 1
  <2>1. ASSUME NEW j \in 1 .. Len(K), K[j] = Bootdisk, j # 1 PROVE FALSE
    <3>1. Sooner(K[1], K[j])
        BY <1>2, <1>5, <1>7, <2>1 DEF Lists
    <3>2. K[1] \in S
        BY <1>2, <1>7 DEF Lists
    <3> QED
        BY <1>4, <2>1, <3>1, <3>2
  <2> QED
      BY <2>1
<1> QED
    BY <1>5, <1>6, <1>7, <1>8 DEF K

\* What a handler finds.
SpecOf(c, vm) ==
    LET K == KeysOf(c, DiskKinds)
        L == KeysOf(c, CdromKinds)
    IN  /\ Lists(K, KeysIn(c, DiskKinds)) /\ Lists(L, KeysIn(c, CdromKinds))
        /\ IsSeq(vm.disks) /\ Len(vm.disks) = Len(K)
        /\ \A i \in 1 .. Len(K) : /\ vm.disks[i].zvol = c.attr[K[i]]
                                  /\ vm.disks[i].boot \in BOOLEAN
                                  /\ vm.disks[i].boot <=> K[i] = Bootdisk
        /\ IsSeq(vm.cdroms) /\ Len(vm.cdroms) = Len(L)
        /\ \A i \in 1 .. Len(L) : vm.cdroms[i] = c.attr[L[i]]
        /\ vm.nics = c.anet
        /\ vm.vcpus = IF Vcpus \in DOMAIN c.attr THEN c.attr[Vcpus] ELSE 1
        /\ vm.attrs = [k \in Unmanaged(c) |-> c.attr[k]]

\* What a handler finds is a VM with the configuration's disks and images.
LEMMA SpecFound ==
    ASSUME NEW c, AttrOK(c)
    PROVE  /\ SpecOf(c, SpecFrom(c))
           /\ SpecFrom(c) = [f \in {"vcpus", "disks", "nics", "cdroms", "attrs"} |-> SpecFrom(c)[f]]
<1> DEFINE K == KeysOf(c, DiskKinds)
           L == KeysOf(c, CdromKinds)
           vm == FromZoneConfig(c)
           spec == SpecFrom(c)
<1>1. Lists(K, KeysIn(c, DiskKinds)) /\ Lists(L, KeysIn(c, CdromKinds))
  <2>1. DiskKinds \in Kinds /\ CdromKinds \in Kinds
      BY DEF Kinds
  <2> QED
      BY <2>1, KeysAreListed
<1>2. /\ DOMAIN K = 1 .. Len(K) /\ Len(K) \in Nat
      /\ DOMAIN L = 1 .. Len(L) /\ Len(L) \in Nat
    BY <1>1 DEF Lists, IsSeq
<1>3. /\ vm.disks = [i \in DOMAIN K |-> [index |-> Slot(K[i]), zvol |-> c.attr[K[i]],
                                        boot |-> K[i] = Bootdisk]]
      /\ vm.cdroms = [i \in DOMAIN L |-> [index |-> Slot(L[i]), iso |-> c.attr[L[i]]]]
      /\ vm.nics = c.anet
      /\ vm.vcpus = IF Vcpus \in DOMAIN c.attr THEN c.attr[Vcpus] ELSE 1
      /\ vm.attrs = [k \in Unmanaged(c) |-> c.attr[k]]
      /\ vm = [f \in {"vcpus", "disks", "nics", "cdroms", "attrs"} |-> vm[f]]
    BY DEF FromZoneConfig, Unmanaged
<1> HIDE DEF K, L, vm
<1>4. /\ spec = [f \in {"vcpus", "disks", "nics", "cdroms", "attrs"} |-> spec[f]]
      /\ spec.disks = [i \in DOMAIN vm.disks |-> [zvol |-> vm.disks[i].zvol, boot |-> vm.disks[i].boot]]
      /\ spec.cdroms = [i \in DOMAIN vm.cdroms |-> vm.cdroms[i].iso]
      /\ spec.nics = vm.nics /\ spec.vcpus = vm.vcpus /\ spec.attrs = vm.attrs
    BY <1>3 DEF SpecFrom, vm
<1> HIDE DEF spec
<1>5. /\ spec.disks = [i \in 1 .. Len(K) |-> [zvol |-> c.attr[K[i]], boot |-> K[i] = Bootdisk]]
      /\ spec.cdroms = [i \in 1 .. Len(L) |-> c.attr[L[i]]]
    BY <1>2, <1>3, <1>4
<1>6. IsSeq(spec.disks) /\ Len(spec.disks) = Len(K)
    BY <1>2, <1>5 DEF IsSeq
<1>7. IsSeq(spec.cdroms) /\ Len(spec.cdroms) = Len(L)
    BY <1>2, <1>5 DEF IsSeq
<1>8. ASSUME NEW i \in 1 .. Len(K)
      PROVE  /\ spec.disks[i].zvol = c.attr[K[i]]
             /\ spec.disks[i].boot \in BOOLEAN /\ (spec.disks[i].boot <=> K[i] = Bootdisk)
  <2> DEFINE flag == K[i] = Bootdisk
             z == c.attr[K[i]]
  <2>1. spec.disks[i] = [zvol |-> z, boot |-> flag]
      BY <1>5
  <2>2. flag \in BOOLEAN /\ (flag <=> K[i] = Bootdisk) /\ z = c.attr[K[i]]
      OBVIOUS
  <2> HIDE DEF flag, z
  <2>3. spec.disks[i].zvol = z /\ spec.disks[i].boot = flag
      BY <2>1, <2>2
  <2> QED
      BY <2>2, <2>3
<1>9. SpecOf(c, spec)
    BY <1>1, <1>3, <1>4, <1>5, <1>6, <1>7, <1>8 DEF SpecOf, K, L
<1> QED
    BY <1>4, <1>9 DEF spec

\* A VM found in what is like the configuration is like the VM.
LEMMA SpecIsMine ==
    ASSUME NEW c, NEW now, Alike(c, now), c.brand = "bhyve"
    PROVE  Mine(SpecFrom(c), now)
<1> DEFINE K == KeysOf(c, DiskKinds)
           L == KeysOf(c, CdromKinds)
           vm == SpecFrom(c)
           b == now.attr[Bootdisk]
<1>1. AttrOK(c) /\ IsConfig(c) /\ HasDisks(c, b)
    BY DEF Alike
<1>2. SpecOf(c, vm) /\ vm = [f \in {"vcpus", "disks", "nics", "cdroms", "attrs"} |-> vm[f]]
    BY <1>1, SpecFound
<1>3. 1 \in DOMAIN K /\ K[1] = Bootdisk /\ \A i \in DOMAIN K : K[i] = Bootdisk => i = 1
    BY <1>1, BootIsFirst DEF HasDisks
<1> HIDE DEF vm, b
<1>4. /\ DOMAIN K = 1 .. Len(K) /\ DOMAIN vm.disks = DOMAIN K
      /\ DOMAIN L = 1 .. Len(L) /\ DOMAIN vm.cdroms = DOMAIN L
    BY <1>2 DEF SpecOf, Lists, IsSeq
<1>5. /\ \A i \in DOMAIN K : K[i] \in KeysIn(c, DiskKinds)
      /\ \A i \in DOMAIN L : L[i] \in KeysIn(c, CdromKinds)
    BY <1>2, <1>4 DEF SpecOf, Lists
<1>6. /\ \A i \in DOMAIN K : /\ vm.disks[i].zvol = c.attr[K[i]] /\ vm.disks[i].boot \in BOOLEAN
                             /\ vm.disks[i].boot <=> K[i] = Bootdisk
      /\ \A i \in DOMAIN L : vm.cdroms[i] = c.attr[L[i]]
    BY <1>2, <1>4 DEF SpecOf
<1> HIDE DEF K, L
<1>7. \A i \in DOMAIN vm.disks : vm.disks[i].boot \in BOOLEAN /\ (vm.disks[i].boot <=> i = 1)
    BY <1>3, <1>4, <1>6
<1>8. 1 \in DOMAIN vm.disks /\ vm.disks[1].zvol = b /\ b \in Disks
    BY <1>1, <1>3, <1>4, <1>6 DEF HasDisks
<1>9. \A i \in DOMAIN vm.disks \ {1} : vm.disks[i].zvol \in Disks \ {b}
    BY <1>1, <1>3, <1>4, <1>5, <1>6 DEF HasDisks
<1>10. \A i \in DOMAIN vm.cdroms : vm.cdroms[i] \in Isos
    BY <1>1, <1>4, <1>5, <1>6 DEF HasDisks
<1>11. /\ vm.attrs = [k \in Unmanaged(c) |-> c.attr[k]] /\ Unmanaged(c) = Unmanaged(now)
       /\ \A k \in Unmanaged(c) : c.attr[k] = now.attr[k]
    BY <1>2 DEF SpecOf, Alike
<1>12. IsFiniteSet(DOMAIN vm.attrs)
  <2>1. IsFiniteSet(DOMAIN c.attr)
      BY <1>1 DEF AttrOK
  <2>2. Unmanaged(c) \subseteq DOMAIN c.attr
      BY DEF Unmanaged
  <2> QED
      BY <1>11, <2>1, <2>2, FS_Subset
<1>13. IsSeq(vm.nics)
  <2>1. "anet" \in Rewritten
      BY DEF Rewritten
  <2> QED
      BY <1>1, <1>2, <2>1 DEF SpecOf, IsConfig
<1>14. IsVmSpec(vm)
    BY <1>2, <1>7, <1>11, <1>12, <1>13 DEF IsVmSpec, SpecOf, Unmanaged
<1>15. Mine(vm, now)
    BY <1>7, <1>8, <1>9, <1>10, <1>11, <1>14 DEF Mine, b
<1> QED
    BY <1>15 DEF vm

\* The keys that a VM is written under, by kind.
LEMMA SpecKeys ==
    ASSUME NEW vm, IsVmSpec(vm)
    PROVE  LET s == ToZoneSpec(vm)
           IN  /\ KeysIn(s, DiskKinds) = DiskAttrs(vm)
               /\ KeysIn(s, CdromKinds) = CdromAttrs(vm)
               /\ Unmanaged(s) = DOMAIN vm.attrs
               /\ AttrOK(s)
<1> DEFINE s == ToZoneSpec(vm)
<1>1. DOMAIN s.attr = CdromAttrs(vm) \cup DiskAttrs(vm) \cup {Vcpus} \cup DOMAIN vm.attrs
    BY SpecAttrs
<1> HIDE DEF s
<1>2. DOMAIN vm.disks = 1 .. Len(vm.disks) /\ DOMAIN vm.cdroms = 1 .. Len(vm.cdroms)
      /\ Len(vm.disks) \in Nat /\ Len(vm.cdroms) \in Nat
    BY DEF IsVmSpec, IsSeq
<1>3. ASSUME NEW k \in CdromAttrs(vm)
      PROVE  k[1] \in CdromKinds /\ k[1] \notin DiskKinds /\ IsManaged(k) /\ IsCdromKey(k)
  <2>1. PICK i \in DOMAIN vm.cdroms : k = CdromAttr(i - 1)
      BY DEF CdromAttrs
  <2>2. i - 1 \in Nat
      BY <1>2
  <2>3. k[1] \in CdromKinds /\ IsCdromKey(k)
      BY <2>1, <2>2, CdromAttrIs
  <2> QED
      BY <2>3 DEF CdromKinds, DiskKinds, IsManaged
<1>4. ASSUME NEW k \in DiskAttrs(vm)
      PROVE  k[1] \in DiskKinds /\ k[1] \notin CdromKinds /\ IsManaged(k) /\ IsDiskKey(k)
  <2>1. PICK i \in DOMAIN vm.disks : k = DiskAttr(i - 1, vm.disks[i].boot)
      BY DEF DiskAttrs, DiskKey
  <2>2. i - 1 \in Nat /\ vm.disks[i].boot \in BOOLEAN
      BY <1>2 DEF IsVmSpec
  <2>3. k = DiskAttr(i - 1, TRUE) \/ k = DiskAttr(i - 1, FALSE)
      BY <2>1, <2>2
  <2>4. k[1] \in {"bootdisk", "disk"} /\ IsDiskKey(k)
      BY <2>2, <2>3, DiskAttrIs
  <2> QED
      BY <2>4 DEF CdromKinds, DiskKinds, IsManaged
<1>5. Vcpus[1] \notin DiskKinds /\ Vcpus[1] \notin CdromKinds /\ IsManaged(Vcpus)
    BY DEF Vcpus, IsManaged, DiskKinds, CdromKinds
<1>6. ASSUME NEW k \in DOMAIN vm.attrs
      PROVE  k[1] \notin DiskKinds /\ k[1] \notin CdromKinds /\ ~IsManaged(k)
  <2>1. ~IsManaged(k)
      BY DEF IsVmSpec
  <2> QED
      BY <2>1 DEF IsManaged
<1>7. KeysIn(s, DiskKinds) = DiskAttrs(vm)
    BY <1>1, <1>3, <1>4, <1>5, <1>6 DEF KeysIn
<1>8. KeysIn(s, CdromKinds) = CdromAttrs(vm)
    BY <1>1, <1>3, <1>4, <1>5, <1>6 DEF KeysIn
<1>9. Unmanaged(s) = DOMAIN vm.attrs
    BY <1>1, <1>3, <1>4, <1>5, <1>6 DEF Unmanaged
<1>10. IsFiniteSet(DOMAIN s.attr)
  <2>1. IsFiniteSet(1 .. Len(vm.disks)) /\ IsFiniteSet(1 .. Len(vm.cdroms))
    <3>1. Len(vm.disks) \in Int /\ Len(vm.cdroms) \in Int /\ 1 \in Int
        BY <1>2
    <3> QED
        BY <3>1, FS_Interval
  <2> DEFINE f == [i \in 1 .. Len(vm.disks) |-> DiskKey(vm, i)]
             g == [i \in 1 .. Len(vm.cdroms) |-> CdromAttr(i - 1)]
  <2>2. f \in Surjection(1 .. Len(vm.disks), DiskAttrs(vm))
      BY <1>2 DEF DiskAttrs, Surjection
  <2>3. g \in Surjection(1 .. Len(vm.cdroms), CdromAttrs(vm))
      BY <1>2 DEF CdromAttrs, Surjection
  <2>4. IsFiniteSet(DiskAttrs(vm)) /\ IsFiniteSet(CdromAttrs(vm))
      BY <2>1, <2>2, <2>3, FS_Surjection
  <2>5. IsFiniteSet({Vcpus}) /\ IsFiniteSet(DOMAIN vm.attrs)
      BY FS_Singleton DEF IsVmSpec
  <2>6. IsFiniteSet(CdromAttrs(vm) \cup DiskAttrs(vm))
      BY <2>4, FS_Union
  <2>7. IsFiniteSet(CdromAttrs(vm) \cup DiskAttrs(vm) \cup {Vcpus})
      BY <2>5, <2>6, FS_Union
  <2>8. IsFiniteSet(CdromAttrs(vm) \cup DiskAttrs(vm) \cup {Vcpus} \cup DOMAIN vm.attrs)
      BY <2>5, <2>7, FS_Union
  <2> QED
      BY <1>1, <2>8
<1>11. \A k \in DOMAIN s.attr : IsKey(k)
    BY <1>1, <1>3, <1>4, <1>5, <1>6 DEF IsKey
<1>12. AttrOK(s)
    BY <1>10, <1>11 DEF AttrOK
<1> QED
    BY <1>7, <1>8, <1>9, <1>12 DEF s

\* Written, such a VM is like the configuration.
LEMMA MineAlike ==
    ASSUME NEW vm, NEW now, Mine(vm, now), now.brand = "bhyve"
    PROVE  Alike(ToZoneSpec(vm), now)
<1> DEFINE s == ToZoneSpec(vm)
           b == now.attr[Bootdisk]
<1>1. IsVmSpec(vm)
    BY DEF Mine
<1>2. /\ s = [f \in Fields |-> s[f]] /\ s.brand = "bhyve"
      /\ s.anet = vm.nics /\ s.fs = vm.cdroms
      /\ s.device = [i \in DOMAIN vm.disks |-> vm.disks[i].zvol]
      /\ s["capped-cpu"] = << >> /\ s["capped-memory"] = << >>
    BY SpecMade
<1>3. /\ s.attr = [k \in DOMAIN s.attr |-> s.attr[k]]
      /\ DOMAIN s.attr = CdromAttrs(vm) \cup DiskAttrs(vm) \cup {Vcpus} \cup DOMAIN vm.attrs
      /\ \A i \in DOMAIN vm.disks : s.attr[DiskKey(vm, i)] = vm.disks[i].zvol
      /\ \A i \in DOMAIN vm.cdroms : s.attr[CdromAttr(i - 1)] = vm.cdroms[i]
      /\ \A k \in DOMAIN vm.attrs : s.attr[k] = vm.attrs[k]
    BY <1>1, SpecAttrs
<1>4. /\ KeysIn(s, DiskKinds) = DiskAttrs(vm)
      /\ KeysIn(s, CdromKinds) = CdromAttrs(vm)
      /\ Unmanaged(s) = DOMAIN vm.attrs
      /\ AttrOK(s)
    BY <1>1, SpecKeys
<1> HIDE DEF s, b
<1>5. IsConfig(s)
  <2>1. IsSeq(<< >>)
      BY DEF IsSeq
  <2>2. IsSeq(s.anet) /\ IsSeq(s.fs)
      BY <1>1, <1>2 DEF IsVmSpec
  <2>3. IsSeq(s.device)
    <3>1. DOMAIN vm.disks = 1 .. Len(vm.disks) /\ Len(vm.disks) \in Nat
        BY <1>1 DEF IsVmSpec, IsSeq
    <3> DEFINE z == [i \in 1 .. Len(vm.disks) |-> vm.disks[i].zvol]
    <3>2. s.device = z
        BY <1>2, <3>1
    <3>3. Len(z) = Len(vm.disks)
        BY <3>1
    <3>4. IsSeq(z)
        BY <3>1, <3>3 DEF IsSeq
    <3> QED
        BY <3>2, <3>4
  <2>4. ASSUME NEW kind \in Rewritten PROVE IsSeq(s[kind])
      BY <1>2, <2>1, <2>2, <2>3 DEF Rewritten, Caps
  <2> QED
      BY <1>2, <1>3, <2>4 DEF IsConfig
<1>6. Unmanaged(s) = Unmanaged(now) /\ \A k \in Unmanaged(s) : s.attr[k] = now.attr[k]
    BY <1>3, <1>4 DEF Mine
<1>7. HasDisks(s, b)
  <2>1. 1 \in DOMAIN vm.disks /\ vm.disks[1].boot = TRUE /\ vm.disks[1].zvol = b /\ b \in Disks
      BY DEF Mine, IsVmSpec, b
  <2>2. DiskKey(vm, 1) = Bootdisk
      BY <2>1 DEF DiskKey, DiskAttr
  <2>3. Bootdisk \in DOMAIN s.attr /\ s.attr[Bootdisk] = b
      BY <1>3, <2>1, <2>2 DEF DiskAttrs
  <2>4. ASSUME NEW k \in DiskAttrs(vm) \ {Bootdisk} PROVE s.attr[k] \in Disks \ {b}
    <3>1. PICK i \in DOMAIN vm.disks : k = DiskKey(vm, i)
        BY DEF DiskAttrs
    <3>2. i # 1
        BY <2>2, <3>1
    <3> QED
        BY <1>3, <3>1, <3>2 DEF Mine, b
  <2>5. ASSUME NEW k \in CdromAttrs(vm) PROVE s.attr[k] \in Isos
    <3>1. PICK i \in DOMAIN vm.cdroms : k = CdromAttr(i - 1)
        BY DEF CdromAttrs
    <3> QED
        BY <1>3, <3>1 DEF Mine
  <2> QED
      BY <1>4, <2>1, <2>3, <2>4, <2>5 DEF HasDisks
<1>8. Alike(s, now)
    BY <1>2, <1>4, <1>5, <1>6, <1>7 DEF Alike, b
<1> QED
    BY <1>8 DEF s

\* A part put at the end.
LEMMA Appended ==
    ASSUME NEW s, IsSeq(s), NEW x
    PROVE  /\ IsSeq(Append(s, x)) /\ Len(Append(s, x)) = Len(s) + 1
           /\ DOMAIN s = 1 .. Len(s) /\ DOMAIN Append(s, x) = 1 .. Len(s) + 1
           /\ \A i \in 1 .. Len(s) : Append(s, x)[i] = s[i]
           /\ Append(s, x)[Len(s) + 1] = x
<1> DEFINE S == ToSet(s) \cup {x}
<1>1. s \in Seq(ToSet(s))
    BY SeqOfParts
<1>2. s \in Seq(S) /\ x \in S
    BY <1>1
<1> HIDE DEF S
<1>3. /\ Append(s, x) \in Seq(S) /\ Len(Append(s, x)) = Len(s) + 1
      /\ \A i \in 1 .. Len(s) : Append(s, x)[i] = s[i]
      /\ Append(s, x)[Len(s) + 1] = x
    BY <1>2, AppendProperties
<1>4. IsSeq(Append(s, x))
    BY <1>3, IsSeqOf
<1> QED
    BY <1>3, <1>4 DEF IsSeq

\* What the handlers make of a VM.
LEMMA VcpusAreMine ==
    ASSUME NEW vm, NEW now, Mine(vm, now), NEW n
    PROVE  Mine([vm EXCEPT !.vcpus = n], now)
<1> DEFINE new == [vm EXCEPT !.vcpus = n]
<1>1. /\ new = [f \in {"vcpus", "disks", "nics", "cdroms", "attrs"} |-> new[f]]
      /\ new.disks = vm.disks /\ new.nics = vm.nics /\ new.cdroms = vm.cdroms /\ new.attrs = vm.attrs
    BY DEF Mine, IsVmSpec
<1> HIDE DEF new
<1>2. IsVmSpec(new)
    BY <1>1 DEF Mine, IsVmSpec
<1>3. Mine(new, now)
    BY <1>1, <1>2 DEF Mine
<1> QED
    BY <1>3 DEF new

\* It stays so with other NICs.
LEMMA NicsAreMine ==
    ASSUME NEW vm, NEW now, Mine(vm, now), NEW n
    PROVE  Mine([vm EXCEPT !.nics = <<n>>], now)
<1> DEFINE new == [vm EXCEPT !.nics = <<n>>]
<1>1. /\ new = [f \in {"vcpus", "disks", "nics", "cdroms", "attrs"} |-> new[f]]
      /\ new.disks = vm.disks /\ new.nics = <<n>> /\ new.cdroms = vm.cdroms /\ new.attrs = vm.attrs
    BY DEF Mine, IsVmSpec
<1>2. IsSeq(<<n>>)
    BY DEF IsSeq
<1> HIDE DEF new
<1>3. IsVmSpec(new)
    BY <1>1, <1>2 DEF Mine, IsVmSpec
<1>4. Mine(new, now)
    BY <1>1, <1>3 DEF Mine
<1> QED
    BY <1>4 DEF new

\* It stays so with other disks behind the same boot disk.
LEMMA DisksAreMine ==
    ASSUME NEW vm, NEW now, Mine(vm, now), NEW disks, IsSeq(disks),
           1 \in DOMAIN disks, disks[1] = vm.disks[1],
           \A i \in DOMAIN disks \ {1} :
              disks[i].boot = FALSE /\ disks[i].zvol \in Disks \ {now.attr[Bootdisk]}
    PROVE  Mine([vm EXCEPT !.disks = disks], now)
<1> DEFINE new == [vm EXCEPT !.disks = disks]
<1>1. /\ new = [f \in {"vcpus", "disks", "nics", "cdroms", "attrs"} |-> new[f]]
      /\ new.disks = disks /\ new.nics = vm.nics /\ new.cdroms = vm.cdroms /\ new.attrs = vm.attrs
    BY DEF Mine, IsVmSpec
<1> HIDE DEF new
<1>2. disks[1].boot = TRUE
    BY DEF Mine, IsVmSpec
<1>3. /\ \A i \in DOMAIN disks : disks[i].boot \in BOOLEAN
      /\ \A i \in DOMAIN disks : disks[i].boot <=> i = 1
    BY <1>2
<1>4. IsVmSpec(new)
    BY <1>1, <1>3 DEF Mine, IsVmSpec
<1>5. Mine(new, now)
    BY <1>1, <1>3, <1>4 DEF Mine
<1> QED
    BY <1>5 DEF new

\* It stays so with other images.
LEMMA CdromsAreMine ==
    ASSUME NEW vm, NEW now, Mine(vm, now), NEW cdroms, IsSeq(cdroms),
           \A i \in DOMAIN cdroms : cdroms[i] \in Isos
    PROVE  Mine([vm EXCEPT !.cdroms = cdroms], now)
<1> DEFINE new == [vm EXCEPT !.cdroms = cdroms]
<1>1. /\ new = [f \in {"vcpus", "disks", "nics", "cdroms", "attrs"} |-> new[f]]
      /\ new.disks = vm.disks /\ new.nics = vm.nics /\ new.cdroms = cdroms /\ new.attrs = vm.attrs
    BY DEF Mine, IsVmSpec
<1> HIDE DEF new
<1>2. IsVmSpec(new)
    BY <1>1 DEF Mine, IsVmSpec
<1>3. Mine(new, now)
    BY <1>1, <1>2 DEF Mine
<1> QED
    BY <1>3 DEF new

-----------------------------------------------------------------------------
(* What a request carries on the way is of a configuration like the one    *)
(* there is.                                                               *)

\* A request, as it was asked and as it goes on.
Posed(q, now) ==
    /\ q.stage \in Working \cup {"idle", "over"}
    /\ q.index \in Nat /\ q.new \in Nat /\ q.purge \in BOOLEAN
    /\ q.name \in Names \cup Settings \cup {"", "vcpus", "nics"}
    /\ q.meant \in Disks \cup Isos \cup {NoDisk}
    /\ q.disk \in Disks \cup {NoDisk}
    /\ q.todo \in Seq(Disks \cup {Dataset})
    /\ q.purge => q.op = "remove_disk"
    /\ q.op \in {"add_disk", "resize_disk"} => q.new \in Sizes
    /\ q.op = "attach_cdrom" => q.new \in Isos
    /\ q.op = "update_zone" => q.name \in Settings
    /\ q.op = "update_vm" => q.name \in {"vcpus", "nics"}
    /\ q.stage \in Working => q.op \in IF now.brand = "bhyve" THEN VmOps ELSE ZoneOps

\* What it has found, and the commands made of that.
Holds(q, now) ==
    /\ q.stage \in {"act", "write"} /\ q.op \in ConfigOps => Mine(q.spec, now)
    /\ q.stage = "write" =>
          q.op = "add_disk" /\ Len(q.spec.disks) \in Disks \ {now.attr[Bootdisk]}
    /\ q.stage = "act" /\ q.op = "remove_disk" =>
          /\ q.index + 1 \in DOMAIN q.spec.disks \ {1}
          /\ q.disk = q.spec.disks[q.index + 1].zvol
    /\ q.stage = "act" /\ q.op = "detach_cdrom" => q.index + 1 \in DOMAIN q.spec.cdroms
    /\ q.stage = "act" /\ q.op = "update_zone" => Alike(q.spec, now)
    /\ q.stage = "zonecfg" =>
          \E found, wanted : /\ Alike(found, now) /\ Alike(wanted, now)
                             /\ q.spec = RenderUpdate(Read(found), wanted)
    /\ q.stage \in {"zonecfg", "purge"} /\ q.op = "remove_disk" =>
          q.disk \in Disks \ {now.attr[Bootdisk]}
    /\ q.stage = "purge" => q.op = "remove_disk" /\ q.purge
    /\ q.stage = "look" => q.op \in SnapshotOps

Carries(q, now) == Posed(q, now) /\ Holds(q, now)

\* And when the configuration changes to one like it.
LEMMA MineOn ==
    ASSUME NEW vm, NEW old, NEW now, Mine(vm, old), Alike(now, old), now.brand = "bhyve"
    PROVE  Mine(vm, now)
BY DEF Mine, Alike, HasDisks

\* What a request carries is good for what the configuration becomes.
LEMMA CarriesOn ==
    ASSUME NEW q, NEW old, NEW now, Carries(q, old), Alike(now, old), q.op \in Ops
    PROVE  Carries(q, now)
<1>1. now.brand = old.brand
    BY DEF Alike
<1>2. Posed(q, now)
    BY <1>1 DEF Carries, Posed
<1>3. ASSUME q.stage \in Working, q.op \in ConfigOps PROVE now.brand = "bhyve"
    BY <1>2, <1>3 DEF Posed, ConfigOps, ZoneOps
<1>4. q.stage \in {"act", "write", "zonecfg", "purge"} => q.stage \in Working
    BY DEF Working
<1>5. {"add_disk", "remove_disk", "detach_cdrom"} \subseteq ConfigOps
    BY DEF ConfigOps
<1>6. now.brand = "bhyve" => now.attr[Bootdisk] = old.attr[Bootdisk]
    BY <1>1 DEF Alike, HasDisks
<1>7. q.stage \in {"act", "write"} /\ q.op \in ConfigOps => Mine(q.spec, now)
    BY <1>3, <1>4, MineOn DEF Carries, Holds
<1>8. q.stage = "write" => q.op = "add_disk" /\ Len(q.spec.disks) \in Disks \ {now.attr[Bootdisk]}
    BY <1>3, <1>4, <1>5, <1>6 DEF Carries, Holds
<1>9. q.stage \in {"zonecfg", "purge"} /\ q.op = "remove_disk" => q.disk \in Disks \ {now.attr[Bootdisk]}
    BY <1>3, <1>4, <1>5, <1>6 DEF Carries, Holds
<1>10. q.stage = "act" /\ q.op = "update_zone" => Alike(q.spec, now)
    BY AlikeOn DEF Carries, Holds
<1>11. ASSUME q.stage = "zonecfg"
       PROVE  \E found, wanted : /\ Alike(found, now) /\ Alike(wanted, now)
                                 /\ q.spec = RenderUpdate(Read(found), wanted)
  <2>1. \E found : \E wanted : /\ Alike(found, old) /\ Alike(wanted, old)
                               /\ q.spec = RenderUpdate(Read(found), wanted)
      BY <1>11 DEF Carries, Holds
  <2>2. PICK found : \E wanted : /\ Alike(found, old) /\ Alike(wanted, old)
                                 /\ q.spec = RenderUpdate(Read(found), wanted)
      BY <2>1
  <2>3. PICK wanted : /\ Alike(found, old) /\ Alike(wanted, old)
                      /\ q.spec = RenderUpdate(Read(found), wanted)
      BY <2>2
  <2>4. Alike(found, now) /\ Alike(wanted, now)
      BY <2>3, AlikeOn
  <2> QED
      BY <2>3, <2>4
<1> QED
    BY <1>2, <1>7, <1>8, <1>9, <1>10, <1>11 DEF Carries, Holds

\* A request that rests carries nothing.
LEMMA RestCarries ==
    ASSUME NEW now
    PROVE  Carries(NewRequest, now) /\ Carries(OverVm, now)
<1>1. IsVmRequest(NewRequest)
    BY OverIsRequest
<1>2. << >> \in Seq(Disks \cup {Dataset})
    OBVIOUS
<1>3. Posed(NewRequest, now)
    BY <1>2 DEF NewRequest, Posed, Working
<1>4. Holds(NewRequest, now)
    BY DEF NewRequest, Holds
<1>5. /\ OverVm.stage = "over" /\ OverVm.op = NewRequest.op /\ OverVm.index = NewRequest.index
      /\ OverVm.new = NewRequest.new /\ OverVm.purge = NewRequest.purge
      /\ OverVm.name = NewRequest.name /\ OverVm.meant = NewRequest.meant
      /\ OverVm.disk = NewRequest.disk /\ OverVm.todo = NewRequest.todo
    BY DEF NewRequest, OverVm
<1>6. Posed(OverVm, now)
    BY <1>3, <1>5 DEF Posed, Working
<1>7. Holds(OverVm, now)
    BY <1>5 DEF Holds
<1> QED
    BY <1>3, <1>4, <1>6, <1>7 DEF Carries

\* A member, its size and what was written on it, n the number of writes.
MemberTyped(m, n) ==
    /\ IsMember(m) /\ m.size \in Sizes /\ m.data \in 0 .. n
    /\ IsSeq(m.snaps) /\ \A i \in 1 .. Len(m.snaps) : m.snaps[i].data \in 0 .. n

MembersTyped ==
    /\ members = [d \in DOMAIN members |-> members[d]]
    /\ DOMAIN members \subseteq Disks \cup {Dataset} /\ Dataset \in DOMAIN members
    /\ \A d \in DOMAIN members : MemberTyped(members[d], writes)
    /\ IsVm => config.attr[Bootdisk] \in DOMAIN members

BoundsOK ==
    /\ attached \subseteq Disks /\ (attached # {} => running)
    /\ cuts \in 0 .. MaxCuts /\ writes \in 0 .. MaxWrites

\* What handlers have found, and have made of it, agrees with the configuration in what they
\* do not change: its boot disk and what is not mandraked's.
HandledInv ==
    /\ VmTyped /\ MembersTyped /\ BoundsOK
    /\ Alike(config, config) /\ (cache # << >> => Alike(cache[1].config, config))
    /\ \A r \in Requests : Carries(req[r], config)

\* What a step of one request must see to.
HandledStep(r) ==
    /\ req' = [q \in Requests |-> IF q = r THEN req'[r] ELSE req[q]] /\ IsVmRequest(req'[r])
    /\ Carries(req'[r], config')
    /\ Alike(config', config)
    /\ overlapped' \in BOOLEAN /\ cuts' \in 0 .. MaxCuts
    /\ cache' \in {cache, << >>, <<Listing>>}

\* A listing, cached or not, is like the configuration.
LEMMA ListingAlike ==
    ASSUME HandledInv
    PROVE  Alike(Listing.config, config)
<1>1. Alike(Read(config), config)
    BY ReadAlike DEF HandledInv
<1>2. CASE cache # << >>
    BY <1>2 DEF HandledInv, Listing
<1>3. CASE cache = << >>
    BY <1>1, <1>3 DEF Listing, Host
<1> QED
    BY <1>2, <1>3

\* What a step of one request must see to.
LEMMA HandledOn ==
    ASSUME HandledInv, NEW r \in Requests, HandledStep(r), MembersTyped', BoundsOK'
    PROVE  HandledInv'
<1>1. Alike(config', config')
    BY AlikeOn DEF HandledStep, HandledInv
<1>2. cache' # << >> => Alike(cache'[1].config, config')
  <2>1. cache' # << >> => Alike(cache'[1].config, config)
    <3>1. CASE cache' = cache
        BY <3>1 DEF HandledInv
    <3>2. CASE cache' = <<Listing>>
        BY <3>2, ListingAlike
    <3> QED
        BY <3>1, <3>2 DEF HandledStep
  <2> QED
      BY <2>1, AlikeOn DEF HandledStep, HandledInv
<1>3. ASSUME NEW q \in Requests PROVE Carries(req'[q], config')
  <2>1. CASE q = r
      BY <2>1 DEF HandledStep
  <2>2. CASE q # r
    <3>1. req'[q] = req[q] /\ req[q].op \in Ops
        BY <2>2 DEF HandledStep, HandledInv, VmTyped, IsVmRequest
    <3> QED
        BY <3>1, CarriesOn DEF HandledStep, HandledInv
  <2> QED
      BY <2>1, <2>2
<1>4. VmTyped'
  <2>1. req' = [q \in Requests |-> req'[q]]
      BY DEF HandledStep
  <2>2. \A q \in Requests : IsVmRequest(req'[q])
      BY DEF HandledStep, HandledInv, VmTyped
  <2>3. overlapped' \in BOOLEAN /\ cuts' \in Nat
      BY VmsAssumption DEF HandledStep
  <2> QED
      BY <2>1, <2>2, <2>3 DEF VmTyped, MembersTyped, MemberTyped
<1> QED
    BY <1>1, <1>2, <1>3, <1>4 DEF HandledInv

\* A step that leaves configuration and members as they are.
LEMMA QuietHandled ==
    ASSUME HandledInv, NEW r \in Requests, NEW new, IsVmRequest(new), Becomes(r, new),
           Carries(new, config), UNCHANGED <<config, members, writes>>,
           overlapped' \in BOOLEAN, cuts' \in 0 .. MaxCuts,
           cache' \in {cache, << >>, <<Listing>>},
           attached' \subseteq Disks, attached' # {} => running'
    PROVE  HandledInv'
<1>1. VmTyped
    BY DEF HandledInv
<1>2. /\ req' = [q \in Requests |-> IF q = r THEN req'[r] ELSE req[q]]
      /\ IsVmRequest(req'[r])
      /\ req'[r] = IF new.stage = "over" THEN OverVm ELSE new
    BY <1>1, BecomesStep
<1>3. Carries(req'[r], config') /\ Alike(config', config)
  <2>1. Carries(OverVm, config)
      BY RestCarries
  <2> QED
      BY <1>2, <2>1 DEF HandledInv
<1>4. HandledStep(r)
    BY <1>2, <1>3 DEF HandledStep
<1>5. MembersTyped' /\ BoundsOK'
    BY DEF HandledInv, MembersTyped, BoundsOK, IsVm
<1> QED
    BY <1>4, <1>5, HandledOn

\* A request at another stage.
LEMMA StageIs ==
    ASSUME NEW q, IsVmRequest(q), NEW stage
    PROVE  LET new == [q EXCEPT !.stage = stage]
           IN  /\ IsVmRequest(new) /\ new.stage = stage
               /\ new.op = q.op /\ new.index = q.index /\ new.new = q.new /\ new.name = q.name
               /\ new.purge = q.purge /\ new.spec = q.spec /\ new.disk = q.disk
               /\ new.todo = q.todo /\ new.meant = q.meant
BY DEF IsVmRequest, VmFields

\* A request that goes on is as well posed as it was.
LEMMA StagePosed ==
    ASSUME NEW q, IsVmRequest(q), NEW now, Posed(q, now), q.stage \in Working,
           NEW stage \in Working \cup {"over"}
    PROVE  Posed([q EXCEPT !.stage = stage], now)
<1> DEFINE new == [q EXCEPT !.stage = stage]
<1>1. /\ new.stage = stage
      /\ new.op = q.op /\ new.index = q.index /\ new.new = q.new /\ new.name = q.name
      /\ new.purge = q.purge /\ new.disk = q.disk /\ new.todo = q.todo /\ new.meant = q.meant
    BY StageIs
<1> HIDE DEF new
<1>2. Posed(new, now)
    BY <1>1 DEF Posed
<1> QED
    BY <1>2 DEF new

\* A request that carries nothing of a configuration.
LEMMA FreeHolds ==
    ASSUME NEW q, NEW now, q.stage \notin {"write", "zonecfg", "purge"},
           q.stage = "act" => q.op \notin ConfigOps \cup {"update_zone"},
           q.stage = "look" => q.op \in SnapshotOps
    PROVE  Holds(q, now)
<1>1. {"add_disk", "remove_disk", "detach_cdrom"} \subseteq ConfigOps
    BY DEF ConfigOps
<1> QED
    BY <1>1 DEF Holds

\* A request that goes on and carries nothing, or ends.
LEMMA GoesHandled ==
    ASSUME HandledInv, NEW r \in Requests, NEW stage \in Working \cup {"over"}, Goes(r, stage),
           req[r].stage \in Working, stage \notin {"write", "zonecfg", "purge"},
           stage = "act" => req[r].op \notin ConfigOps \cup {"update_zone"},
           stage = "look" => req[r].op \in SnapshotOps,
           UNCHANGED <<config, members, writes>>,
           overlapped' = overlapped, cuts' \in 0 .. MaxCuts,
           cache' \in {cache, << >>, <<Listing>>},
           attached' \subseteq Disks, attached' # {} => running'
    PROVE  HandledInv'
<1> DEFINE new == [req[r] EXCEPT !.stage = stage]
<1>1. IsVmRequest(req[r]) /\ Posed(req[r], config) /\ overlapped \in BOOLEAN
    BY DEF HandledInv, VmTyped, Carries
<1>2. IsVmRequest(new) /\ new.stage = stage /\ new.op = req[r].op
    BY <1>1, StageIs
<1>3. Posed(new, config)
    BY <1>1, StagePosed
<1>4. Becomes(r, new)
    BY DEF Goes
<1> HIDE DEF new
<1>5. Carries(new, config)
    BY <1>2, <1>3, FreeHolds DEF Carries
<1> QED
    BY <1>1, <1>2, <1>4, <1>5, QuietHandled

\* What the API shows of disks and images.
LEMMA Shown ==
    ASSUME NEW c, NEW now, Alike(c, now), c.brand = "bhyve"
    PROVE  LET vm == FromZoneConfig(c)
           IN  /\ \A d \in ToSet(vm.disks) : d.index \in Nat /\ d.zvol \in Disks
               /\ \A i \in ToSet(vm.cdroms) : i.index \in Nat /\ i.iso \in Isos
               /\ ToSet(Zvols(vm)) = {c.attr[k] : k \in KeysIn(c, DiskKinds)}
               /\ ToSet(Zvols(vm)) \subseteq Disks
<1> DEFINE K == KeysOf(c, DiskKinds)
           L == KeysOf(c, CdromKinds)
           vm == FromZoneConfig(c)
           b == now.attr[Bootdisk]
<1>1. AttrOK(c) /\ HasDisks(c, b)
    BY DEF Alike
<1>2. Lists(K, KeysIn(c, DiskKinds)) /\ Lists(L, KeysIn(c, CdromKinds))
  <2>1. DiskKinds \in Kinds /\ CdromKinds \in Kinds
      BY DEF Kinds
  <2> QED
      BY <1>1, <2>1, KeysAreListed
<1>3. /\ vm.disks = [i \in DOMAIN K |-> [index |-> Slot(K[i]), zvol |-> c.attr[K[i]],
                                        boot |-> K[i] = Bootdisk]]
      /\ vm.cdroms = [i \in DOMAIN L |-> [index |-> Slot(L[i]), iso |-> c.attr[L[i]]]]
    BY DEF FromZoneConfig
<1> HIDE DEF K, L, vm, b
<1>4. DOMAIN K = 1 .. Len(K) /\ DOMAIN L = 1 .. Len(L)
    BY <1>2 DEF Lists, IsSeq
<1>5. /\ \A i \in DOMAIN K : K[i] \in KeysIn(c, DiskKinds)
      /\ \A k \in KeysIn(c, DiskKinds) : \E i \in DOMAIN K : K[i] = k
      /\ \A i \in DOMAIN L : L[i] \in KeysIn(c, CdromKinds)
    BY <1>2, <1>4 DEF Lists
<1>6. \A k \in KeysIn(c, DiskKinds) : Slot(k) \in Nat /\ c.attr[k] \in Disks
    BY <1>1, KeyTold DEF AttrOK, IsKey, KeysIn, HasDisks
<1>7. \A k \in KeysIn(c, CdromKinds) : Slot(k) \in Nat /\ c.attr[k] \in Isos
    BY <1>1, KeyTold DEF AttrOK, IsKey, KeysIn, HasDisks
<1>8. ASSUME NEW d \in ToSet(vm.disks) PROVE d.index \in Nat /\ d.zvol \in Disks
  <2>1. PICK i \in DOMAIN K : d = vm.disks[i]
      BY <1>3 DEF ToSet
  <2>2. d.index = Slot(K[i]) /\ d.zvol = c.attr[K[i]]
      BY <1>3, <2>1
  <2> QED
      BY <1>5, <1>6, <2>2
<1>9. ASSUME NEW d \in ToSet(vm.cdroms) PROVE d.index \in Nat /\ d.iso \in Isos
  <2>1. PICK i \in DOMAIN L : d = vm.cdroms[i]
      BY <1>3 DEF ToSet
  <2>2. d.index = Slot(L[i]) /\ d.iso = c.attr[L[i]]
      BY <1>3, <2>1
  <2> QED
      BY <1>5, <1>7, <2>2
<1>10. ToSet(Zvols(vm)) = {c.attr[k] : k \in KeysIn(c, DiskKinds)}
  <2>1. DOMAIN Zvols(vm) = DOMAIN K /\ \A i \in DOMAIN K : Zvols(vm)[i] = c.attr[K[i]]
      BY <1>3 DEF Zvols
  <2>2. ToSet(Zvols(vm)) = {c.attr[K[i]] : i \in DOMAIN K}
      BY <2>1 DEF ToSet
  <2> QED
      BY <1>5, <2>2
<1>11. ToSet(Zvols(vm)) \subseteq Disks
    BY <1>6, <1>10
<1> QED
    BY <1>8, <1>9, <1>10, <1>11 DEF vm

\* What is asked.
LEMMA AskIs ==
    ASSUME NEW r \in Requests, Ask(r)
    PROVE  \E q : /\ IsVmRequest(q) /\ Becomes(r, q) /\ q.stage = "find"
                  /\ q.op \in IF IsVm THEN VmOps ELSE ZoneOps
                  /\ \E at \in Targets(q.op) : q.index = at.index /\ q.meant = at.meant
                  /\ q.new \in Values(q.op) /\ q.name \in NamesFor(q.op, q.new)
                  /\ q.purge \in IF q.op = "remove_disk" THEN BOOLEAN ELSE {FALSE}
                  /\ q.disk = NewRequest.disk /\ q.todo = NewRequest.todo
<1>1. PICK op \in Asks[r] \cap (IF IsVm THEN VmOps ELSE ZoneOps) :
        \E at \in Targets(op), new \in Values(op) :
        \E name \in NamesFor(op, new), purge \in IF op = "remove_disk" THEN BOOLEAN ELSE {FALSE} :
           Becomes(r, [NewRequest EXCEPT !.op = op, !.stage = "find", !.index = at.index,
                                         !.meant = at.meant, !.new = new, !.name = name,
                                         !.purge = purge])
    BY DEF Ask
<1>2. PICK at \in Targets(op) : \E new \in Values(op) :
        \E name \in NamesFor(op, new), purge \in IF op = "remove_disk" THEN BOOLEAN ELSE {FALSE} :
           Becomes(r, [NewRequest EXCEPT !.op = op, !.stage = "find", !.index = at.index,
                                         !.meant = at.meant, !.new = new, !.name = name,
                                         !.purge = purge])
    BY <1>1
<1>3. PICK value \in Values(op) :
        \E name \in NamesFor(op, value) : \E purge \in IF op = "remove_disk" THEN BOOLEAN ELSE {FALSE} :
           Becomes(r, [NewRequest EXCEPT !.op = op, !.stage = "find", !.index = at.index,
                                         !.meant = at.meant, !.new = value, !.name = name,
                                         !.purge = purge])
    BY <1>2
<1>4. PICK name \in NamesFor(op, value) :
        \E purge \in IF op = "remove_disk" THEN BOOLEAN ELSE {FALSE} :
           Becomes(r, [NewRequest EXCEPT !.op = op, !.stage = "find", !.index = at.index,
                                         !.meant = at.meant, !.new = value, !.name = name,
                                         !.purge = purge])
    BY <1>3
<1>5. PICK purge \in IF op = "remove_disk" THEN BOOLEAN ELSE {FALSE} :
           Becomes(r, [NewRequest EXCEPT !.op = op, !.stage = "find", !.index = at.index,
                                         !.meant = at.meant, !.new = value, !.name = name,
                                         !.purge = purge])
    BY <1>4
<1> DEFINE q == [NewRequest EXCEPT !.op = op, !.stage = "find", !.index = at.index,
                                         !.meant = at.meant, !.new = value, !.name = name,
                                         !.purge = purge]
<1>6. /\ IsVmRequest(q) /\ q.op = op /\ q.stage = "find" /\ q.index = at.index /\ q.meant = at.meant
      /\ q.new = value /\ q.name = name /\ q.purge = purge
      /\ q.disk = NewRequest.disk /\ q.todo = NewRequest.todo
  <2>1. op \in Ops /\ IsVmRequest(NewRequest)
      BY <1>1, OverIsRequest DEF Ops
  <2> QED
      BY <2>1 DEF IsVmRequest, VmFields
<1>7. Becomes(r, q)
    BY <1>5 DEF q
<1> HIDE DEF q
<1>8. q.purge \in IF q.op = "remove_disk" THEN BOOLEAN ELSE {FALSE}
    BY <1>5, <1>6
<1>9. \E at0 \in Targets(q.op) : q.index = at0.index /\ q.meant = at0.meant
    BY <1>2, <1>6
<1> QED
    BY <1>1, <1>3, <1>4, <1>6, <1>7, <1>8, <1>9

\* A request is asked for.
LEMMA AskHandled ==
    ASSUME HandledInv, NEW r \in Requests, Ask(r)
    PROVE  HandledInv'
<1>1. PICK q : /\ IsVmRequest(q) /\ Becomes(r, q) /\ q.stage = "find"
               /\ q.op \in IF IsVm THEN VmOps ELSE ZoneOps
               /\ \E at \in Targets(q.op) : q.index = at.index /\ q.meant = at.meant
               /\ q.new \in Values(q.op) /\ q.name \in NamesFor(q.op, q.new)
               /\ q.purge \in IF q.op = "remove_disk" THEN BOOLEAN ELSE {FALSE}
               /\ q.disk = NewRequest.disk /\ q.todo = NewRequest.todo
    BY AskIs
<1> DEFINE op == q.op
           value == q.new
           name == q.name
           purge == q.purge
<1>2. PICK at \in Targets(q.op) : q.index = at.index /\ q.meant = at.meant
    BY <1>1
<1>6. op \in IF IsVm THEN VmOps ELSE ZoneOps
    BY <1>1
<1>7. op \in IF config.brand = "bhyve" THEN VmOps ELSE ZoneOps
    BY <1>6 DEF IsVm
<1>8. at.index \in Nat /\ at.meant \in Disks \cup Isos \cup {NoDisk}
  <2>1. CASE op \in {"resize_disk", "remove_disk", "detach_cdrom"}
    <3>1. IsVm
        BY <1>6, <2>1 DEF ZoneOps
    <3>2. Alike(Read(config), config) /\ Read(config).brand = "bhyve"
        BY <3>1, ReadAlike, ReadIs DEF HandledInv, IsVm
    <3>3. /\ \A d \in ToSet(Vm.disks) : d.index \in Nat /\ d.zvol \in Disks
          /\ \A i \in ToSet(Vm.cdroms) : i.index \in Nat /\ i.iso \in Isos
        BY <3>2, Shown DEF Vm
    <3>4. at \in DiskInputs \/ at \in CdromInputs
        BY <1>2, <2>1 DEF Targets
    <3>5. CASE at \in DiskInputs
      <4>1. PICK d \in ToSet(Vm.disks) :
               at = [index |-> d.index, meant |-> IF BootFirst THEN d.zvol ELSE NoDisk]
          BY <3>5 DEF DiskInputs
      <4> QED
          BY <3>3, <4>1
    <3>6. CASE at \in CdromInputs
      <4>1. PICK d \in ToSet(Vm.cdroms) : at = [index |-> d.index, meant |-> d.iso]
          BY <3>6 DEF CdromInputs
      <4> QED
          BY <3>3, <4>1
    <3> QED
        BY <3>4, <3>5, <3>6
  <2>2. CASE op \notin {"resize_disk", "remove_disk", "detach_cdrom"}
    <3>1. at = [index |-> 0, meant |-> NoDisk]
        BY <1>2, <2>2 DEF Targets, NoInput
    <3> QED
        BY <3>1
  <2> QED
      BY <2>1, <2>2
<1>9. /\ value \in Nat
      /\ op \in {"add_disk", "resize_disk"} => value \in Sizes
      /\ op = "attach_cdrom" => value \in Isos
    BY <1>1, VmsAssumption DEF Values
<1>10. /\ name \in Names \cup Settings \cup {"", "vcpus", "nics"}
       /\ op = "update_zone" => name \in Settings
       /\ op = "update_vm" => name \in {"vcpus", "nics"}
  <2>1. CASE op \in SnapshotOps
      BY <1>1, <2>1 DEF NamesFor, SnapshotOps
  <2>2. CASE op \notin SnapshotOps /\ op = "update_vm"
      BY <1>1, <2>2 DEF NamesFor
  <2>3. CASE op \notin SnapshotOps /\ op = "update_zone"
      BY <1>1, <2>3 DEF NamesFor
  <2>4. CASE op \notin SnapshotOps /\ op \notin {"update_vm", "update_zone"}
      BY <1>1, <2>4 DEF NamesFor
  <2> QED
      BY <2>1, <2>2, <2>3, <2>4
<1>11. NewRequest.disk = NoDisk /\ NewRequest.todo = << >> /\ << >> \in Seq(Disks \cup {Dataset})
    BY DEF NewRequest
<1>12. purge \in BOOLEAN /\ (purge => op = "remove_disk")
    BY <1>1
<1>13. Posed(q, config)
    BY <1>1, <1>2, <1>7, <1>8, <1>9, <1>10, <1>11, <1>12 DEF Posed, Working
<1>14. Carries(q, config)
    BY <1>1, <1>13, FreeHolds DEF Carries
<1>15. /\ overlapped' = (overlapped \/ Busy # {})
       /\ UNCHANGED <<config, running, attached, members, cache, sizes, cuts, writes>>
    BY DEF Ask
<1>16. overlapped' \in BOOLEAN /\ cuts' \in 0 .. MaxCuts
       /\ attached' \subseteq Disks /\ (attached' # {} => running')
    BY <1>15 DEF HandledInv, VmTyped, BoundsOK
<1> QED
    BY <1>1, <1>14, <1>15, <1>16, QuietHandled

\* What PATCH /zones/{id} makes of a zone.
LEMMA PatchedAlike ==
    ASSUME NEW c, NEW now, Alike(c, now), c.brand # "bhyve", NEW setting \in Settings, NEW value
    PROVE  Alike(ZonePatched(c, setting, value), now)
<1> DEFINE d == ZonePatched(c, setting, value)
           key == AttrOf(setting)
<1>1. IsConfig(c) /\ AttrOK(c)
    BY DEF Alike
<1>2. {"anet", "capped-memory"} \subseteq Rewritten /\ {"attr", "brand"} \subseteq Fields \ Rewritten
      /\ Rewritten \subseteq Fields
    BY DEF Fields, Rewritten, Caps
<1>3. IsSeq(<<value>>) /\ IsSeq(<< >>)
    BY DEF IsSeq
<1>4. CASE setting \in {"anet", "capped-memory"}
  <2> DEFINE s == IF value = 0 THEN << >> ELSE <<value>>
  <2>1. d = [c EXCEPT ![setting] = s]
      BY <1>4 DEF ZonePatched
  <2>2. IsSeq(s)
      BY <1>3
  <2> HIDE DEF d, s
  <2>3. /\ d = [f \in Fields |-> d[f]] /\ d.attr = c.attr /\ d.brand = c.brand
        /\ \A kind \in Rewritten : d[kind] = IF kind = setting THEN s ELSE c[kind]
      BY <1>1, <1>2, <1>4, <2>1 DEF IsConfig
  <2>4. IsConfig(d)
      BY <1>1, <2>2, <2>3 DEF IsConfig
  <2>5. AttrOK(d) /\ Unmanaged(d) = Unmanaged(c)
      BY <1>1, <2>3 DEF AttrOK, Unmanaged
  <2>6. Alike(d, now)
      BY <2>3, <2>4, <2>5 DEF Alike
  <2> QED
      BY <2>6 DEF d
<1>5. CASE setting \in {"hostname", "resolvers"}
  <2> DEFINE a == IF value = 0 THEN [k \in DOMAIN c.attr \ {key} |-> c.attr[k]]
                  ELSE Only(key, value) ++ c.attr
  <2>1. d = [c EXCEPT !.attr = a]
      BY <1>5 DEF ZonePatched
  <2>2. key[1] = setting
      BY DEF AttrOf
  <2>3. key[1] \notin DiskKinds /\ key[1] \notin CdromKinds /\ IsManaged(key)
      BY <1>5, <2>2 DEF IsManaged, DiskKinds, CdromKinds
  <2>4. /\ a = [k \in DOMAIN a |-> a[k]] /\ DOMAIN a \subseteq DOMAIN c.attr \cup {key}
        /\ DOMAIN c.attr \subseteq DOMAIN a \cup {key}
        /\ \A k \in DOMAIN a \ {key} : k \in DOMAIN c.attr /\ a[k] = c.attr[k]
    <3>1. CASE value = 0
        BY <3>1
    <3>2. CASE value # 0
      <4> DEFINE o == Only(key, value)
      <4>1. DOMAIN o = {key}
          BY DEF Only
      <4> HIDE DEF o
      <4>2. a = o ++ c.attr
          BY <3>2 DEF o
      <4>3. DOMAIN a = {key} \cup DOMAIN c.attr
          BY <4>1, <4>2, OverDomain
      <4>4. a = [k \in DOMAIN a |-> a[k]]
          BY <4>2, OverIs
      <4>5. ASSUME NEW k \in DOMAIN a \ {key} PROVE k \in DOMAIN c.attr /\ a[k] = c.attr[k]
          BY <4>1, <4>2, <4>3, OverSecond
      <4> QED
          BY <4>3, <4>4, <4>5
    <3> QED
        BY <3>1, <3>2
  <2> HIDE DEF d, a, key
  <2>5. /\ d = [f \in Fields |-> d[f]] /\ d.attr = a /\ d.brand = c.brand
        /\ \A kind \in Rewritten : d[kind] = c[kind]
      BY <1>1, <1>2, <2>1 DEF IsConfig
  <2>6. IsConfig(d)
      BY <1>1, <2>4, <2>5 DEF IsConfig
  <2>7. AttrOK(d)
    <3>1. IsFiniteSet(DOMAIN c.attr \cup {key})
        BY <1>1, FS_Singleton, FS_Union DEF AttrOK
    <3>2. IsFiniteSet(DOMAIN a)
        BY <2>4, <3>1, FS_Subset
    <3>3. IsKey(key)
        BY <2>3 DEF IsKey
    <3>4. \A k \in DOMAIN a : IsKey(k)
        BY <1>1, <2>4, <3>3 DEF AttrOK
    <3> QED
        BY <2>5, <3>2, <3>4 DEF AttrOK
  <2>8. Unmanaged(d) = Unmanaged(c)
      BY <2>3, <2>4, <2>5 DEF Unmanaged
  <2>9. \A k \in Unmanaged(d) : d.attr[k] = c.attr[k]
      BY <2>3, <2>4, <2>5 DEF Unmanaged
  <2>10. Alike(d, now)
      BY <2>5, <2>6, <2>7, <2>8, <2>9 DEF Alike
  <2> QED
      BY <2>10 DEF d
<1> QED
    BY <1>4, <1>5 DEF Settings

\* A request with what it has found.
Found(q, stage, spec, disk, todo) ==
    [q EXCEPT !.stage = stage, !.spec = spec, !.disk = disk, !.todo = todo]

\* It is so with what it has found.
LEMMA FoundPosed ==
    ASSUME NEW q, IsVmRequest(q), NEW now, Posed(q, now), q.stage \in Working,
           NEW stage \in {"act", "size", "look"}, NEW spec, NEW disk \in Disks \cup {NoDisk},
           NEW todo \in Seq(Disks \cup {Dataset})
    PROVE  LET new == Found(q, stage, spec, disk, todo)
           IN  /\ IsVmRequest(new) /\ new.stage = stage /\ new.spec = spec /\ new.disk = disk
               /\ new.op = q.op /\ new.index = q.index
               /\ Posed(new, now)
<1> DEFINE new == Found(q, stage, spec, disk, todo)
<1>1. /\ IsVmRequest(new) /\ new.stage = stage /\ new.spec = spec /\ new.disk = disk
      /\ new.op = q.op /\ new.index = q.index /\ new.new = q.new /\ new.name = q.name
      /\ new.purge = q.purge /\ new.todo = todo /\ new.meant = q.meant
    BY DEF Found, IsVmRequest, VmFields
<1> HIDE DEF new
<1>2. Posed(new, now)
    BY <1>1 DEF Posed, Working
<1> QED
    BY <1>1, <1>2 DEF new

\* It finds the VM or the zone.
LEMMA FindHandled ==
    ASSUME HandledInv, NEW r \in Requests, FindVm(r)
    PROVE  HandledInv'
<1> DEFINE q == req[r]
           spec == SpecFrom(Listing.config)
<1>1. /\ At(r, "find") /\ cache' = <<Listing>>
      /\ UNCHANGED <<config, running, attached, members, sizes, overlapped, cuts, writes>>
    BY DEF FindVm
<1>2. /\ IsVmRequest(q) /\ Posed(q, config) /\ q.stage = "find" /\ q.stage \in Working
      /\ overlapped' \in BOOLEAN /\ cuts' \in 0 .. MaxCuts
      /\ attached' \subseteq Disks /\ (attached' # {} => running')
      /\ overlapped' = overlapped
    BY <1>1 DEF HandledInv, VmTyped, Carries, At, BoundsOK, Working
<1>3. Alike(Listing.config, config)
    BY ListingAlike
<1>4. q.op \in VmOps \ ZoneOps => config.brand = "bhyve"
    BY <1>2 DEF Posed
<1>5. q.op = "update_zone" => config.brand # "bhyve"
    BY <1>2 DEF Posed, VmOps, ConfigOps, SnapshotOps
<1>6. Listing.config.brand = config.brand
    BY <1>3 DEF Alike
<1>7. config.brand = "bhyve" => Mine(spec, config)
    BY <1>3, <1>6, SpecIsMine
<1>8. \* it goes on, or ends, with nothing found
      ASSUME NEW stage \in {"show", "act", "look", "over"}, Goes(r, stage),
             stage = "act" => q.op \notin ConfigOps \cup {"update_zone"},
             stage = "look" => q.op \in SnapshotOps
      PROVE  HandledInv'
    BY <1>1, <1>2, <1>8, GoesHandled DEF Working
<1>9. ASSUME NEW new, IsVmRequest(new), Carries(new, config), Becomes(r, new)
      PROVE  HandledInv'
    BY <1>1, <1>2, <1>9, QuietHandled
<1>11. /\ q.todo \in Seq(Disks \cup {Dataset}) /\ q.disk \in Disks \cup {NoDisk} /\ q.index \in Nat
       /\ IsVmRequest(q)
    BY <1>2 DEF Posed
<1>12. ASSUME NEW stage, NEW spec0, NEW disk
       PROVE  /\ [q EXCEPT !.stage = stage, !.spec = spec0]
                    = Found(q, stage, spec0, q.disk, q.todo)
              /\ [[q EXCEPT !.spec = spec0] EXCEPT !.stage = stage]
                    = Found(q, stage, spec0, q.disk, q.todo)
              /\ [q EXCEPT !.stage = stage, !.disk = disk]
                    = Found(q, stage, q.spec, disk, q.todo)
              /\ [[q EXCEPT !.spec = spec0] EXCEPT !.stage = stage, !.disk = disk]
                    = Found(q, stage, spec0, disk, q.todo)
    BY <1>11 DEF IsVmRequest, VmFields, Found
<1>13. ASSUME NEW todo
       PROVE  [q EXCEPT !.stage = "look", !.todo = todo]
                 = Found(q, "look", q.spec, q.disk, todo)
    BY <1>11 DEF IsVmRequest, VmFields, Found
<1>14. CASE q.op \in {"get_vm", "get_zone"}
  <2>1. Goes(r, "show")
      BY <1>14 DEF FindVm
  <2> QED
      BY <1>8, <2>1
<1>15. CASE q.op = "update_zone"
  <2> DEFINE z == ZonePatched(Listing.config, q.name, q.new)
             new == Found(q, "act", z, q.disk, q.todo)
  <2>1. Becomes(r, [q EXCEPT !.stage = "act", !.spec = z])
      BY <1>15 DEF FindVm
  <2>2. Becomes(r, new)
      BY <1>12, <2>1
  <2>3. q.name \in Settings
      BY <1>2, <1>15 DEF Posed
  <2>4. Alike(z, config)
      BY <1>3, <1>5, <1>6, <1>15, <2>3, PatchedAlike
  <2> HIDE DEF z
  <2>5. /\ IsVmRequest(new) /\ new.stage = "act" /\ new.spec = z /\ new.op = q.op
        /\ Posed(new, config)
      BY <1>2, <1>11, FoundPosed
  <2> HIDE DEF new
  <2>6. Holds(new, config)
      BY <1>15, <2>4, <2>5 DEF Holds, ConfigOps
  <2> QED
      BY <1>9, <2>2, <2>5, <2>6 DEF Carries
<1>16. CASE q.op \in {"update_vm", "add_disk"}
  <2> DEFINE new == Found(q, "act", spec, q.disk, q.todo)
  <2>1. Becomes(r, [[q EXCEPT !.spec = spec] EXCEPT !.stage = "act"])
      BY <1>16 DEF FindVm
  <2>2. Becomes(r, new)
      BY <1>12, <2>1
  <2>3. Mine(spec, config)
      BY <1>4, <1>7, <1>16 DEF VmOps, ConfigOps, ZoneOps
  <2> HIDE DEF spec
  <2>4. /\ IsVmRequest(new) /\ new.stage = "act" /\ new.spec = spec /\ new.op = q.op
        /\ Posed(new, config)
      BY <1>2, <1>11, FoundPosed
  <2> HIDE DEF new
  <2>5. Holds(new, config)
      BY <1>16, <2>3, <2>4 DEF Holds, ConfigOps
  <2> QED
      BY <1>9, <2>2, <2>4, <2>5 DEF Carries
<1>17. CASE q.op = "attach_cdrom"
  <2> DEFINE new == Found(q, "act", spec, q.disk, q.todo)
  <2>1. Goes(r, "over") \/ Becomes(r, [[q EXCEPT !.spec = spec] EXCEPT !.stage = "act"])
      BY <1>17 DEF FindVm
  <2>2. Goes(r, "over") \/ Becomes(r, new)
      BY <1>12, <2>1
  <2>3. Mine(spec, config)
      BY <1>4, <1>7, <1>17 DEF VmOps, ConfigOps, ZoneOps
  <2> HIDE DEF spec
  <2>4. /\ IsVmRequest(new) /\ new.stage = "act" /\ new.spec = spec /\ new.op = q.op
        /\ Posed(new, config)
      BY <1>2, <1>11, FoundPosed
  <2> HIDE DEF new
  <2>5. Holds(new, config)
      BY <1>17, <2>3, <2>4 DEF Holds, ConfigOps
  <2> QED
      BY <1>8, <1>9, <2>2, <2>4, <2>5 DEF Carries
<1>18. CASE q.op = "detach_cdrom"
  <2> DEFINE new == Found(q, "act", spec, q.disk, q.todo)
  <2>1. \/ Goes(r, "over")
        \/ /\ Becomes(r, [[q EXCEPT !.spec = spec] EXCEPT !.stage = "act"])
           /\ q.index < Len(spec.cdroms)
      BY <1>18 DEF FindVm
  <2>2. Goes(r, "over") \/ (Becomes(r, new) /\ q.index < Len(spec.cdroms))
      BY <1>12, <2>1
  <2>3. Mine(spec, config)
      BY <1>4, <1>7, <1>18 DEF VmOps, ConfigOps, ZoneOps
  <2> HIDE DEF spec
  <2>4. /\ IsVmRequest(new) /\ new.stage = "act" /\ new.spec = spec /\ new.op = q.op
        /\ new.index = q.index
        /\ Posed(new, config)
      BY <1>2, <1>11, FoundPosed
  <2> HIDE DEF new
  <2>5. DOMAIN spec.cdroms = 1 .. Len(spec.cdroms) /\ Len(spec.cdroms) \in Nat
      BY <2>3 DEF Mine, IsVmSpec, IsSeq
  <2>6. ASSUME q.index < Len(spec.cdroms) PROVE Holds(new, config)
    <3>1. q.index + 1 \in DOMAIN spec.cdroms
        BY <1>11, <2>5, <2>6
    <3> QED
        BY <1>18, <2>3, <2>4, <3>1 DEF Holds, ConfigOps
  <2> QED
      BY <1>8, <1>9, <2>2, <2>4, <2>6 DEF Carries
<1>19. CASE q.op = "remove_disk"
  <2> DEFINE disk == spec.disks[q.index + 1]
             new == Found(q, "act", spec, disk.zvol, q.todo)
  <2>1. \/ Goes(r, "over")
        \/ /\ Becomes(r, [[q EXCEPT !.spec = spec] EXCEPT !.stage = "act", !.disk = disk.zvol])
           /\ q.index < Len(spec.disks) /\ ~disk.boot
      BY <1>19 DEF FindVm
  <2>2. Goes(r, "over") \/ (Becomes(r, new) /\ q.index < Len(spec.disks) /\ ~disk.boot)
      BY <1>12, <2>1
  <2>3. Mine(spec, config)
      BY <1>4, <1>7, <1>19 DEF VmOps, ConfigOps, ZoneOps
  <2> HIDE DEF spec
  <2>4. DOMAIN spec.disks = 1 .. Len(spec.disks) /\ Len(spec.disks) \in Nat
      BY <2>3 DEF Mine, IsVmSpec, IsSeq
  <2>5. ASSUME q.index < Len(spec.disks), ~disk.boot, Becomes(r, new) PROVE HandledInv'
    <3>1. q.index + 1 \in DOMAIN spec.disks
        BY <1>11, <2>4, <2>5
    <3>2. q.index + 1 # 1 /\ disk.zvol \in Disks \ {config.attr[Bootdisk]}
        BY <2>3, <2>5, <3>1 DEF Mine
    <3> HIDE DEF disk
    <3>3. /\ IsVmRequest(new) /\ new.stage = "act" /\ new.spec = spec /\ new.op = q.op
          /\ new.index = q.index /\ new.disk = disk.zvol
          /\ Posed(new, config)
        BY <1>2, <1>11, FoundPosed, <3>2
    <3> HIDE DEF new
    <3>4. Holds(new, config)
        BY <1>19, <2>3, <3>1, <3>2, <3>3 DEF Holds, ConfigOps, disk
    <3> QED
        BY <1>9, <2>5, <3>3, <3>4 DEF Carries
  <2> QED
      BY <1>8, <2>2, <2>5
<1>20. CASE q.op = "resize_disk"
  <2> DEFINE disk == spec.disks[q.index + 1]
             new == Found(q, "size", q.spec, disk.zvol, q.todo)
  <2>1. \/ Goes(r, "over")
        \/ /\ Becomes(r, [q EXCEPT !.stage = "size", !.disk = disk.zvol])
           /\ q.index < Len(spec.disks)
      BY <1>20 DEF FindVm
  <2>2. Goes(r, "over") \/ (Becomes(r, new) /\ q.index < Len(spec.disks))
      BY <1>12, <2>1
  <2>3. Mine(spec, config)
      BY <1>4, <1>7, <1>20 DEF VmOps, ConfigOps, ZoneOps
  <2> HIDE DEF spec
  <2>4. DOMAIN spec.disks = 1 .. Len(spec.disks) /\ Len(spec.disks) \in Nat
      BY <2>3 DEF Mine, IsVmSpec, IsSeq
  <2>5. ASSUME q.index < Len(spec.disks), Becomes(r, new) PROVE HandledInv'
    <3>1. q.index + 1 \in DOMAIN spec.disks
        BY <1>11, <2>4, <2>5
    <3>2. disk.zvol \in Disks
        BY <2>3, <2>5, <3>1 DEF Mine
    <3> HIDE DEF disk
    <3>3. IsVmRequest(new) /\ new.stage = "size" /\ Posed(new, config)
        BY <1>2, <1>11, FoundPosed, <3>2
    <3> HIDE DEF new
    <3>4. Holds(new, config)
        BY <3>3, FreeHolds
    <3> QED
        BY <1>9, <2>5, <3>3, <3>4 DEF Carries
  <2> QED
      BY <1>8, <2>2, <2>5
<1>21. CASE q.op \in {"create_snapshot", "delete_snapshot"}
  <2>1. \E stage \in {"act", "look"} : Goes(r, stage)
      BY <1>21 DEF FindVm
  <2> QED
      BY <1>8, <1>21, <2>1 DEF ConfigOps, SnapshotOps, SnapshotOps
<1>22. CASE q.op = "rollback_snapshot"
  <2> DEFINE todo == <<Dataset>> \o [i \in DOMAIN spec.disks |-> spec.disks[i].zvol]
             new == Found(q, "look", q.spec, q.disk, todo)
  <2>1. Goes(r, "over") \/ Becomes(r, [q EXCEPT !.stage = "look", !.todo = todo])
      BY <1>22 DEF FindVm
  <2>2. Goes(r, "over") \/ Becomes(r, new)
      BY <1>13, <2>1
  <2>3. Mine(spec, config)
      BY <1>4, <1>7, <1>22 DEF VmOps, SnapshotOps, ZoneOps
  <2> HIDE DEF spec
  <2>4. todo \in Seq(Disks \cup {Dataset})
    <3>1. DOMAIN spec.disks = 1 .. Len(spec.disks) /\ Len(spec.disks) \in Nat
        BY <2>3 DEF Mine, IsVmSpec, IsSeq
    <3>2. \A i \in DOMAIN spec.disks : spec.disks[i].zvol \in Disks
        BY <2>3 DEF Mine
    <3>3. [i \in DOMAIN spec.disks |-> spec.disks[i].zvol] \in Seq(Disks \cup {Dataset})
        BY <3>1, <3>2
    <3> QED
        BY <3>3
  <2> HIDE DEF todo
  <2>5. IsVmRequest(new) /\ new.stage = "look" /\ Posed(new, config) /\ new.op = q.op
      BY <1>2, <1>11, FoundPosed, <2>4
  <2> HIDE DEF new
  <2>6. Holds(new, config)
      BY <1>22, <2>5, FreeHolds DEF SnapshotOps
  <2> QED
      BY <1>8, <1>9, <2>2, <2>5, <2>6 DEF Carries
<1>23. CASE q.op \in {"start_vm", "stop_vm"}
  <2>1. \E stage \in {"act", "over"} : Goes(r, stage)
      BY <1>23 DEF FindVm
  <2> QED
      BY <1>8, <1>23, <2>1 DEF ConfigOps
<1> QED
  <2>1. q.op \in Ops
      BY <1>2 DEF IsVmRequest
  <2> QED
      BY <1>14, <1>15, <1>16, <1>17, <1>18, <1>19, <1>20, <1>21, <1>22, <1>23, <2>1
         DEF Ops, VmOps, ZoneOps, ConfigOps, SnapshotOps

\* Looking and showing, what ends and what waits, jobs.
LEMMA LooksHandled ==
    ASSUME HandledInv, NEW r \in Requests,
           Size(r) \/ Show(r) \/ Look(r) \/ StartVm(r) \/ StopVm(r) \/ Note(r) \/ Fail(r)
    PROVE  HandledInv'
<1>1. /\ IsVmRequest(req[r]) /\ Posed(req[r], config) /\ Holds(req[r], config)
      /\ BoundsOK /\ overlapped \in BOOLEAN
    BY DEF HandledInv, VmTyped, Carries
<1>2. CASE Size(r)
  <2>1. \E stage \in {"act", "over"} : Goes(r, stage)
      BY <1>2 DEF Size
  <2>2. /\ req[r].stage = "size" /\ req[r].op = "resize_disk" /\ cache' = <<Listing>>
        /\ UNCHANGED <<config, running, attached, members, overlapped, cuts, writes>>
      BY <1>2 DEF Size, View, Doing, At
  <2> QED
      BY <1>1, <2>1, <2>2, GoesHandled DEF BoundsOK, Working, ConfigOps
<1>3. CASE Show(r)
  <2>1. /\ req[r].stage = "show" /\ Goes(r, "over") /\ cache' = <<Listing>>
        /\ UNCHANGED <<config, running, attached, members, overlapped, cuts, writes>>
      BY <1>3 DEF Show, View, At
  <2> QED
      BY <1>1, <2>1, GoesHandled DEF BoundsOK, Working
<1>4. CASE Look(r)
  <2>1. \E stage \in {"act", "over"} : Goes(r, stage)
      BY <1>4 DEF Look
  <2>2. /\ req[r].stage = "look"
        /\ UNCHANGED <<config, running, attached, members, cache, overlapped, cuts, writes>>
      BY <1>4 DEF Look, At
  <2>3. req[r].op \notin ConfigOps \cup {"update_zone"}
      BY <1>1, <2>2 DEF Holds, SnapshotOps, ConfigOps
  <2> QED
      BY <1>1, <2>1, <2>2, <2>3, GoesHandled DEF BoundsOK, Working
<1>5. CASE StartVm(r) \/ StopVm(r)
  <2>1. /\ req[r].stage = "act" /\ Goes(r, "note") /\ req[r].op \in {"start_vm", "stop_vm"}
        /\ UNCHANGED <<config, members, cache, sizes, overlapped, cuts, writes>>
      BY <1>5 DEF StartVm, StopVm, Doing, At
  <2>2. attached' \subseteq Disks /\ (attached' # {} => running')
    <3>1. CASE StopVm(r)
        BY <3>1 DEF StopVm
    <3>2. CASE StartVm(r)
      <4>1. config.brand = "bhyve"
          BY <1>1, <2>1 DEF Posed, Working, ZoneOps
      <4>2. Alike(Read(config), config) /\ Read(config).brand = "bhyve"
          BY <4>1, ReadAlike, ReadIs DEF HandledInv
      <4>3. ToSet(Zvols(Vm)) \subseteq Disks
          BY <4>2, Shown DEF Vm
      <4> QED
          BY <3>2, <4>3 DEF StartVm
    <3> QED
        BY <1>5, <3>1, <3>2
  <2> QED
      BY <1>1, <2>1, <2>2, GoesHandled DEF BoundsOK, Working
<1>6. CASE Note(r)
  <2>1. /\ req[r].stage = "note" /\ Goes(r, "over") /\ cache' = << >>
        /\ UNCHANGED <<config, running, attached, members, sizes, overlapped, cuts, writes>>
      BY <1>6 DEF Note, At
  <2> QED
      BY <1>1, <2>1, GoesHandled DEF BoundsOK, Working
<1>7. CASE Fail(r)
  <2>1. /\ req[r].stage \in Working /\ Goes(r, "over")
        /\ UNCHANGED <<config, running, attached, members, cache, sizes, overlapped, cuts, writes>>
      BY <1>7 DEF Fail, Working
  <2> QED
      BY <1>1, <2>1, GoesHandled DEF BoundsOK, Working
<1> QED
    BY <1>2, <1>3, <1>4, <1>5, <1>6, <1>7

\* The commands of an update are made of what the handler wants.
LEMMA SpecHandled ==
    ASSUME HandledInv, NEW r \in Requests, NEW wanted, WriteSpec(r, wanted),
           req[r].stage \in {"act", "write"}, Alike(wanted, config),
           req[r].op = "remove_disk" => req[r].disk \in Disks \ {config.attr[Bootdisk]}
    PROVE  HandledInv'
<1> DEFINE script == RenderUpdate(Read(config), wanted)
           new == [req[r] EXCEPT !.stage = "zonecfg", !.spec = script]
<1>1. /\ IsVmRequest(req[r]) /\ Posed(req[r], config)
      /\ BoundsOK /\ overlapped \in BOOLEAN /\ Alike(config, config)
    BY DEF HandledInv, VmTyped, Carries
<1>2. /\ Becomes(r, new)
      /\ UNCHANGED <<config, running, attached, members, cache, sizes, overlapped, cuts, writes>>
    BY DEF WriteSpec
<1>3. script = RenderUpdate(Read(config), wanted)
    OBVIOUS
<1> HIDE DEF script
<1>4. /\ IsVmRequest(new) /\ new.stage = "zonecfg" /\ new.spec = script
      /\ new.op = req[r].op /\ new.index = req[r].index /\ new.new = req[r].new
      /\ new.name = req[r].name /\ new.purge = req[r].purge /\ new.disk = req[r].disk
      /\ new.todo = req[r].todo /\ new.meant = req[r].meant
    BY <1>1 DEF IsVmRequest, VmFields
<1> HIDE DEF new
<1>5. Posed(new, config)
    BY <1>1, <1>4 DEF Posed, Working
<1>6. Holds(new, config)
    BY <1>1, <1>3, <1>4 DEF Holds
<1> QED
    BY <1>1, <1>2, <1>4, <1>5, <1>6, QuietHandled DEF BoundsOK, Carries

\* What a request that changes the VM is to make of it.
WantedOf(q, vm) ==
    CASE q.op = "update_vm" /\ q.name = "nics" -> [vm EXCEPT !.nics = <<q.new>>]
      [] q.op = "update_vm" /\ q.name # "nics" -> [vm EXCEPT !.vcpus = q.new]
      [] q.op = "add_disk" ->
            [vm EXCEPT !.disks = Append(@, [zvol |-> Len(vm.disks), boot |-> FALSE])]
      [] q.op = "remove_disk" -> [vm EXCEPT !.disks = RemoveAt(@, q.index + 1)]
      [] q.op = "attach_cdrom" -> [vm EXCEPT !.cdroms = Append(@, q.new)]
      [] q.op = "detach_cdrom" -> [vm EXCEPT !.cdroms = RemoveAt(@, q.index + 1)]

\* That is what its handler wants, and its boot disk stays.
LEMMA WantsMine ==
    ASSUME HandledInv, NEW r \in Requests,
           UpdateVm(r) \/ AddDisk(r) \/ RemoveDisk(r) \/ AttachCdrom(r) \/ DetachCdrom(r)
    PROVE  LET q == req[r]
               vm == WantedOf(q, q.spec)
           IN  /\ Mine(vm, config) /\ WriteVm(r, vm) /\ q.op \in ConfigOps
               /\ q.stage = IF q.op = "add_disk" THEN "write" ELSE "act"
               /\ q.op = "remove_disk" => q.disk \in Disks \ {config.attr[Bootdisk]}
<1> DEFINE spec == req[r].spec
           b == config.attr[Bootdisk]
<1>1. /\ IsVmRequest(req[r]) /\ Posed(req[r], config) /\ Holds(req[r], config)
    BY DEF HandledInv, VmTyped, Carries
<1> DEFINE vm == WantedOf(req[r], spec)
<1>4. CASE UpdateVm(r)
  <2>1. /\ req[r].stage = "act" /\ req[r].op = "update_vm"
        /\ WriteVm(r, IF req[r].name = "nics" THEN [spec EXCEPT !.nics = <<req[r].new>>]
                       ELSE [spec EXCEPT !.vcpus = req[r].new])
      BY <1>4 DEF UpdateVm, Doing, At
  <2>2. req[r].op \in ConfigOps /\ Mine(spec, config)
      BY <1>1, <2>1 DEF Holds, ConfigOps
  <2>3. /\ Mine([spec EXCEPT !.nics = <<req[r].new>>], config)
        /\ Mine([spec EXCEPT !.vcpus = req[r].new], config)
      BY <2>2, NicsAreMine, VcpusAreMine
  <2>4. vm = IF req[r].name = "nics" THEN [spec EXCEPT !.nics = <<req[r].new>>]
             ELSE [spec EXCEPT !.vcpus = req[r].new]
      BY <2>1 DEF WantedOf
  <2> HIDE DEF vm
  <2>5. Mine(vm, config) /\ WriteVm(r, vm)
      BY <2>1, <2>2, <2>3, <2>4
  <2> QED
      BY <2>1, <2>2, <2>5 DEF vm
<1>5. CASE AddDisk(r)
  <2> DEFINE new == [zvol |-> NewDisk(r), boot |-> FALSE]
             disks == Append(spec.disks, new)
  <2>1. /\ req[r].stage = "write" /\ req[r].op = "add_disk"
        /\ WriteVm(r, [spec EXCEPT !.disks = disks])
      BY <1>5 DEF AddDisk, Doing, At
  <2>2. req[r].op \in ConfigOps /\ Mine(spec, config) /\ NewDisk(r) \in Disks \ {b}
      BY <1>1, <2>1 DEF Holds, ConfigOps, NewDisk
  <2>3. new.boot = FALSE /\ new.zvol = NewDisk(r)
      OBVIOUS
  <2> HIDE DEF new
  <2>4. IsSeq(spec.disks) /\ 1 \in DOMAIN spec.disks
      BY <2>2 DEF Mine, IsVmSpec
  <2>5. /\ IsSeq(disks) /\ Len(disks) = Len(spec.disks) + 1
        /\ DOMAIN spec.disks = 1 .. Len(spec.disks) /\ DOMAIN disks = 1 .. Len(spec.disks) + 1
        /\ \A i \in 1 .. Len(spec.disks) : disks[i] = spec.disks[i]
        /\ disks[Len(spec.disks) + 1] = new
      BY <2>4, Appended
  <2> HIDE DEF disks
  <2>6. Len(spec.disks) \in Nat
      BY <2>4 DEF IsSeq
  <2>7. 1 \in DOMAIN disks /\ disks[1] = spec.disks[1]
      BY <2>4, <2>5, <2>6
  <2>8. ASSUME NEW i \in DOMAIN disks \ {1} PROVE disks[i].boot = FALSE /\ disks[i].zvol \in Disks \ {b}
    <3>1. CASE i \in 1 .. Len(spec.disks)
      <4>1. PICK j \in DOMAIN spec.disks \ {1} : disks[i] = spec.disks[j]
          BY <2>5, <3>1
      <4> QED
          BY <2>2, <4>1 DEF Mine, IsVmSpec
    <3>2. CASE i = Len(spec.disks) + 1
      <4>1. disks[i] = new
          BY <2>5, <3>2
      <4> QED
          BY <2>2, <2>3, <4>1, Zenon
    <3>3. i \in 1 .. Len(spec.disks) \/ i = Len(spec.disks) + 1
        BY <2>5, <2>6
    <3> QED
        BY <3>1, <3>2, <3>3, Zenon
  <2>9. Mine([spec EXCEPT !.disks = disks], config)
      BY <2>2, <2>5, <2>7, <2>8, DisksAreMine
  <2>10. vm = [spec EXCEPT !.disks = disks]
      BY <2>1 DEF WantedOf, disks, new, NewDisk
  <2> HIDE DEF vm
  <2>11. Mine(vm, config) /\ WriteVm(r, vm)
      BY <2>1, <2>2, <2>9, <2>10
  <2> QED
      BY <2>1, <2>2, <2>11 DEF vm
<1>6. CASE RemoveDisk(r)
  <2> DEFINE n == req[r].index + 1
             disks == RemoveAt(spec.disks, n)
  <2>1. /\ req[r].stage = "act" /\ req[r].op = "remove_disk"
        /\ WriteVm(r, [spec EXCEPT !.disks = disks])
      BY <1>6 DEF RemoveDisk, Doing, At
  <2>2. /\ req[r].op \in ConfigOps /\ Mine(spec, config)
        /\ n \in DOMAIN spec.disks \ {1} /\ req[r].disk = spec.disks[n].zvol
      BY <1>1, <2>1 DEF Holds, ConfigOps
  <2> HIDE DEF n
  <2>3. IsSeq(spec.disks) /\ 1 \in DOMAIN spec.disks
      BY <2>2 DEF Mine, IsVmSpec
  <2>4. DOMAIN spec.disks = 1 .. Len(spec.disks) /\ Len(spec.disks) \in Nat
      BY <2>3 DEF IsSeq
  <2>5. /\ IsSeq(disks) /\ Len(disks) = Len(spec.disks) - 1
        /\ \A i \in 1 .. Len(spec.disks) - 1 : disks[i] = spec.disks[IF i < n THEN i ELSE i + 1]
      BY <2>2, <2>3, <2>4, RemovedFrom
  <2> HIDE DEF disks
  <2>6. DOMAIN disks = 1 .. Len(spec.disks) - 1
      BY <2>5 DEF IsSeq
  <2>7. n \in 2 .. Len(spec.disks)
      BY <2>2, <2>4
  <2>8. 1 \in DOMAIN disks /\ disks[1] = spec.disks[1]
      BY <2>4, <2>5, <2>6, <2>7
  <2>9. ASSUME NEW i \in DOMAIN disks \ {1} PROVE disks[i].boot = FALSE /\ disks[i].zvol \in Disks \ {b}
    <3>1. PICK j \in DOMAIN spec.disks \ {1} : disks[i] = spec.disks[j]
      <4> DEFINE j == IF i < n THEN i ELSE i + 1
      <4>1. n \in 2 .. Len(spec.disks) /\ i \in 2 .. Len(spec.disks) - 1
          BY <2>4, <2>6, <2>7
      <4>2. j \in 2 .. Len(spec.disks)
          BY <2>4, <4>1
      <4>3. j \in DOMAIN spec.disks \ {1}
          BY <2>4, <4>2
      <4>4. disks[i] = spec.disks[j]
          BY <2>5, <4>1
      <4> QED
          BY <4>3, <4>4
    <3> QED
        BY <2>2, <3>1 DEF Mine, IsVmSpec
  <2>10. Mine([spec EXCEPT !.disks = disks], config)
      BY <2>2, <2>5, <2>8, <2>9, DisksAreMine
  <2>11. req[r].disk \in Disks \ {b}
      BY <2>2 DEF Mine
  <2>12. vm = [spec EXCEPT !.disks = disks]
      BY <2>1 DEF WantedOf, disks, n
  <2> HIDE DEF vm
  <2>13. Mine(vm, config) /\ WriteVm(r, vm)
      BY <2>1, <2>2, <2>10, <2>11, <2>12
  <2> QED
      BY <2>1, <2>11, <2>2, <2>13 DEF vm
<1>7. CASE AttachCdrom(r)
  <2> DEFINE cdroms == Append(spec.cdroms, req[r].new)
  <2>1. /\ req[r].stage = "act" /\ req[r].op = "attach_cdrom"
        /\ WriteVm(r, [spec EXCEPT !.cdroms = cdroms])
      BY <1>7 DEF AttachCdrom, Doing, At
  <2>2. req[r].op \in ConfigOps /\ Mine(spec, config) /\ req[r].new \in Isos
      BY <1>1, <2>1 DEF Holds, Posed, ConfigOps
  <2>3. IsSeq(spec.cdroms)
      BY <2>2 DEF Mine, IsVmSpec
  <2>4. /\ IsSeq(cdroms) /\ DOMAIN spec.cdroms = 1 .. Len(spec.cdroms)
        /\ DOMAIN cdroms = 1 .. Len(spec.cdroms) + 1
        /\ \A i \in 1 .. Len(spec.cdroms) : cdroms[i] = spec.cdroms[i]
        /\ cdroms[Len(spec.cdroms) + 1] = req[r].new
      BY <2>3, Appended
  <2> HIDE DEF cdroms
  <2>5. Len(spec.cdroms) \in Nat
      BY <2>3 DEF IsSeq
  <2>6. \A i \in 1 .. Len(spec.cdroms) : spec.cdroms[i] \in Isos
      BY <2>2, <2>4 DEF Mine
  <2>7. ASSUME NEW i \in DOMAIN cdroms PROVE cdroms[i] \in Isos
    <3>1. i \in 1 .. Len(spec.cdroms) \/ i = Len(spec.cdroms) + 1
        BY <2>4, <2>5
    <3>2. cdroms[Len(spec.cdroms) + 1] \in Isos
        BY <2>2, <2>4
    <3>3. \A k \in 1 .. Len(spec.cdroms) : cdroms[k] \in Isos
        BY <2>4, <2>6
    <3> QED
        BY <3>1, <3>2, <3>3
  <2>8. Mine([spec EXCEPT !.cdroms = cdroms], config)
      BY <2>2, <2>4, <2>7, CdromsAreMine
  <2>9. vm = [spec EXCEPT !.cdroms = cdroms]
      BY <2>1 DEF WantedOf, cdroms
  <2> HIDE DEF vm
  <2>10. Mine(vm, config) /\ WriteVm(r, vm)
      BY <2>1, <2>2, <2>8, <2>9
  <2> QED
      BY <2>1, <2>2, <2>10 DEF vm
<1>8. CASE DetachCdrom(r)
  <2> DEFINE n == req[r].index + 1
             cdroms == RemoveAt(spec.cdroms, n)
  <2>1. /\ req[r].stage = "act" /\ req[r].op = "detach_cdrom"
        /\ WriteVm(r, [spec EXCEPT !.cdroms = cdroms])
      BY <1>8 DEF DetachCdrom, Doing, At
  <2>2. req[r].op \in ConfigOps /\ Mine(spec, config) /\ n \in DOMAIN spec.cdroms
      BY <1>1, <2>1 DEF Holds, ConfigOps
  <2> HIDE DEF n
  <2>3. IsSeq(spec.cdroms)
      BY <2>2 DEF Mine, IsVmSpec
  <2>4. DOMAIN spec.cdroms = 1 .. Len(spec.cdroms) /\ Len(spec.cdroms) \in Nat
      BY <2>3 DEF IsSeq
  <2>5. /\ IsSeq(cdroms) /\ Len(cdroms) = Len(spec.cdroms) - 1
        /\ \A i \in 1 .. Len(spec.cdroms) - 1 : cdroms[i] = spec.cdroms[IF i < n THEN i ELSE i + 1]
      BY <2>2, <2>3, <2>4, RemovedFrom
  <2> HIDE DEF cdroms
  <2>6. DOMAIN cdroms = 1 .. Len(spec.cdroms) - 1
      BY <2>5 DEF IsSeq
  <2>7. ASSUME NEW i \in DOMAIN cdroms PROVE cdroms[i] \in Isos
    <3>1. PICK j \in DOMAIN spec.cdroms : cdroms[i] = spec.cdroms[j]
      <4> DEFINE j == IF i < n THEN i ELSE i + 1
      <4>1. n \in 1 .. Len(spec.cdroms) /\ i \in 1 .. Len(spec.cdroms) - 1
          BY <2>2, <2>4, <2>6
      <4>2. j \in DOMAIN spec.cdroms
          BY <2>4, <4>1
      <4>3. cdroms[i] = spec.cdroms[j]
          BY <2>5, <4>1
      <4> QED
          BY <4>2, <4>3
    <3> QED
        BY <2>2, <3>1 DEF Mine
  <2>8. Mine([spec EXCEPT !.cdroms = cdroms], config)
      BY <2>2, <2>5, <2>7, CdromsAreMine
  <2>9. vm = [spec EXCEPT !.cdroms = cdroms]
      BY <2>1 DEF WantedOf, cdroms, n
  <2> HIDE DEF vm
  <2>10. Mine(vm, config) /\ WriteVm(r, vm)
      BY <2>1, <2>2, <2>8, <2>9
  <2> QED
      BY <2>1, <2>2, <2>10 DEF vm
<1> QED
    BY <1>4, <1>5, <1>6, <1>7, <1>8

\* The handlers that write a configuration.
LEMMA WriteHandled ==
    ASSUME HandledInv, NEW r \in Requests,
           \/ UpdateZone(r) \/ UpdateVm(r) \/ AddDisk(r) \/ RemoveDisk(r)
           \/ AttachCdrom(r) \/ DetachCdrom(r)
    PROVE  HandledInv'
<1> DEFINE q == req[r]
           vm == WantedOf(q, q.spec)
<1>1. Posed(q, config) /\ Holds(q, config)
    BY DEF HandledInv, Carries
<1>2. CASE UpdateZone(r)
  <2>1. WriteSpec(r, q.spec) /\ q.stage = "act" /\ q.op = "update_zone"
      BY <1>2 DEF UpdateZone, Doing, At
  <2>2. Alike(q.spec, config)
      BY <1>1, <2>1 DEF Holds
  <2> QED
      BY <2>1, <2>2, SpecHandled
<1>3. CASE UpdateVm(r) \/ AddDisk(r) \/ RemoveDisk(r) \/ AttachCdrom(r) \/ DetachCdrom(r)
  <2>1. /\ Mine(vm, config) /\ WriteVm(r, vm) /\ q.op \in ConfigOps
        /\ q.stage \in {"act", "write"}
        /\ q.op = "remove_disk" => q.disk \in Disks \ {config.attr[Bootdisk]}
      BY <1>3, WantsMine
  <2> HIDE DEF vm
  <2>2. config.brand = "bhyve"
      BY <1>1, <2>1 DEF Posed, Working, ZoneOps, ConfigOps
  <2>3. Alike(ToZoneSpec(vm), config)
      BY <2>1, <2>2, MineAlike
  <2>4. WriteSpec(r, ToZoneSpec(vm))
      BY <2>1 DEF WriteVm
  <2> QED
      BY <2>1, <2>3, <2>4, SpecHandled
<1> QED
    BY <1>2, <1>3

\* A command that ends, well or dropped.
LEMMA ThenHandled ==
    ASSUME HandledInv, NEW r \in Requests, NEW stage \in Working \cup {"over"},
           NEW cache0 \in {cache, << >>}, NEW sizes0, Then(r, stage, cache0, sizes0),
           req[r].stage \in Working, Alike(config', config),
           stage # "over" => Carries([req[r] EXCEPT !.stage = stage], config'),
           UNCHANGED <<running, attached, overlapped, writes>>, MembersTyped'
    PROVE  HandledInv'
<1>1. VmTyped /\ BoundsOK
    BY DEF HandledInv
<1>2. PICK next \in {stage, "over"} : Goes(r, next)
    BY DEF Then
<1>3. cuts' \in 0 .. MaxCuts /\ cache' \in {cache, << >>, <<Listing>>}
    BY <1>1, VmsAssumption DEF Then, BoundsOK
<1>4. /\ req' = [q \in Requests |-> IF q = r THEN req'[r] ELSE req[q]] /\ IsVmRequest(req'[r])
      /\ req'[r] = IF next = "over" THEN OverVm ELSE [req[r] EXCEPT !.stage = next]
    BY <1>1, <1>2, GoesStep
<1>5. Carries(req'[r], config')
  <2>1. Carries(OverVm, config')
      BY RestCarries
  <2> QED
      BY <1>4, <2>1
<1>6. HandledStep(r)
    BY <1>1, <1>3, <1>4, <1>5 DEF HandledStep, VmTyped
<1>7. BoundsOK'
    BY <1>1, <1>3 DEF BoundsOK
<1> QED
    BY <1>6, <1>7, HandledOn

\* A script runs: what it leaves is like what was there, however stale the reading it was
\* made from.
LEMMA RunHandled ==
    ASSUME HandledInv, NEW r \in Requests, RunZonecfg(r)
    PROVE  HandledInv'
<1> DEFINE q == req[r]
           stage == IF q.purge THEN "purge" ELSE "show"
           new == [q EXCEPT !.stage = stage]
<1>1. /\ IsVmRequest(q) /\ q.op \in Ops /\ Carries(q, config) /\ MembersTyped /\ Alike(config, config)
    BY DEF HandledInv, VmTyped, IsVmRequest
<1>2. /\ q.stage = "zonecfg" /\ Zonecfg(config, q.spec).ok /\ config' = Zonecfg(config, q.spec).config
      /\ Then(r, stage, << >>, sizes)
      /\ UNCHANGED <<running, attached, members, overlapped, writes>>
    BY DEF RunZonecfg, At
<1>3. Alike(config', config)
  <2>1. \E found : \E wanted : /\ Alike(found, config) /\ Alike(wanted, config)
                               /\ q.spec = RenderUpdate(Read(found), wanted)
      BY <1>1, <1>2 DEF Carries, Holds
  <2>2. PICK found : \E wanted : /\ Alike(found, config) /\ Alike(wanted, config)
                                 /\ q.spec = RenderUpdate(Read(found), wanted)
      BY <2>1
  <2>3. PICK wanted : /\ Alike(found, config) /\ Alike(wanted, config)
                      /\ q.spec = RenderUpdate(Read(found), wanted)
      BY <2>2
  <2>4. UpdatedTo(wanted, found, config, config')
      BY <1>2, <2>3, UpdateRuns
  <2> QED
      BY <1>1, <2>3, <2>4, UpdateAlike
<1>4. Carries(q, config') /\ q.stage \in Working /\ stage \in Working
    BY <1>1, <1>2, <1>3, CarriesOn DEF Working
<1>5. /\ IsVmRequest(new) /\ new.stage = stage /\ new.op = q.op /\ new.purge = q.purge
      /\ new.disk = q.disk
    BY <1>1, StageIs
<1>6. Posed(new, config')
    BY <1>1, <1>4, StagePosed DEF Carries
<1>7. q.purge => q.op = "remove_disk" /\ q.disk \in Disks \ {config'.attr[Bootdisk]}
    BY <1>2, <1>4 DEF Carries, Posed, Holds
<1> HIDE DEF new
<1>8. Holds(new, config')
  <2>1. CASE q.purge
    <3>1. new.stage = "purge" /\ new.op = "remove_disk" /\ new.purge /\ new.disk \in Disks \ {config'.attr[Bootdisk]}
        BY <1>5, <1>7, <2>1
    <3> QED
        BY <3>1 DEF Holds
  <2>2. CASE ~q.purge
      BY <1>5, <2>2, FreeHolds
  <2> QED
      BY <2>1, <2>2
<1>9. Carries(new, config')
    BY <1>6, <1>8 DEF Carries
<1>10. MembersTyped'
  <2>1. IsVm' => IsVm /\ config'.attr[Bootdisk] = config.attr[Bootdisk]
      BY <1>1, <1>3 DEF IsVm, Alike, HasDisks
  <2> QED
      BY <1>1, <1>2, <2>1 DEF MembersTyped
<1> QED
    BY <1>2, <1>3, <1>4, <1>9, <1>10, ThenHandled DEF new

\* What a command has made of the members, one of them or all.
LEMMA MembersStep ==
    ASSUME MembersTyped, UNCHANGED <<config, writes>>,
           members' = [d \in DOMAIN members' |-> members'[d]],
           DOMAIN members' \subseteq Disks \cup {Dataset}, Dataset \in DOMAIN members',
           IsVm => config.attr[Bootdisk] \in DOMAIN members',
           \A d \in DOMAIN members' : MemberTyped(members'[d], writes)
    PROVE  MembersTyped'
BY DEF MembersTyped, IsVm

\* A zvol is made, under a name no disk has.
LEMMA MakeHandled ==
    ASSUME HandledInv, NEW r \in Requests, MakeDisk(r)
    PROVE  HandledInv'
<1> DEFINE q == req[r]
           d == NewDisk(r)
           m == [size |-> q.new, data |-> 0, snaps |-> << >>]
           new == [q EXCEPT !.stage = "write"]
<1>1. /\ IsVmRequest(q) /\ Posed(q, config) /\ Holds(q, config) /\ MembersTyped /\ Alike(config, config)
      /\ BoundsOK
    BY DEF HandledInv, VmTyped, Carries
<1>2. /\ q.stage = "act" /\ q.op = "add_disk" /\ d \in Disks \ DOMAIN members
      /\ members' = [e \in DOMAIN members \cup {d} |-> IF e = d THEN m ELSE members[e]]
      /\ Then(r, "write", cache, << >>)
      /\ UNCHANGED <<config, running, attached, overlapped, writes>>
    BY DEF MakeDisk, Doing, At
<1>3. config.brand = "bhyve"
    BY <1>1, <1>2 DEF Posed, Working, ZoneOps
<1>4. config.attr[Bootdisk] \in DOMAIN members
    BY <1>1, <1>3 DEF MembersTyped, IsVm
<1>5. /\ IsVmRequest(new) /\ new.stage = "write" /\ new.op = q.op /\ new.spec = q.spec
    BY <1>1, StageIs
<1>6. Posed(new, config)
    BY <1>1, <1>2, StagePosed DEF Working
<1>7. Mine(q.spec, config)
    BY <1>1, <1>2 DEF Holds, ConfigOps
<1> HIDE DEF new
<1>8. Holds(new, config)
    BY <1>2, <1>4, <1>5, <1>7 DEF Holds, NewDisk
<1>9. MembersTyped'
  <2>1. q.new \in Sizes
      BY <1>1, <1>2 DEF Posed
  <2>2. MemberTyped(m, writes)
    <3>1. m = [f \in {"size", "data", "snaps"} |-> m[f]] /\ m.size = q.new /\ m.data = 0 /\ m.snaps = << >>
        OBVIOUS
    <3> HIDE DEF m
    <3>2. IsSeq(<< >>) /\ Len(<< >>) = 0
        BY DEF IsSeq
    <3>3. 0 \in 0 .. writes
        BY <1>1, VmsAssumption DEF BoundsOK
    <3> QED
        BY <2>1, <3>1, <3>2, <3>3 DEF MemberTyped, IsMember
  <2> HIDE DEF m, d
  <2>3. DOMAIN members' = DOMAIN members \cup {d} /\ members' = [e \in DOMAIN members' |-> members'[e]]
      BY <1>2
  <2>4. \A e \in DOMAIN members' : MemberTyped(members'[e], writes)
      BY <1>1, <1>2, <2>2 DEF MembersTyped
  <2> QED
      BY <1>1, <1>2, <1>4, <2>3, <2>4, MembersStep DEF MembersTyped
<1> QED
    BY <1>1, <1>2, <1>6, <1>8, <1>9, ThenHandled DEF Carries, Working, new

\* A disk grows.
LEMMA ResizeHandled ==
    ASSUME HandledInv, NEW r \in Requests, ResizeDisk(r)
    PROVE  HandledInv'
<1> DEFINE q == req[r]
           d == q.disk
           new == [q EXCEPT !.stage = "show"]
           m == [members[d] EXCEPT !.size = q.new]
<1>1. /\ IsVmRequest(q) /\ Posed(q, config) /\ MembersTyped /\ Alike(config, config)
    BY DEF HandledInv, VmTyped, Carries
<1>2. /\ q.stage = "act" /\ q.op = "resize_disk" /\ d \in DOMAIN members
      /\ members' = [members EXCEPT ![d] = m]
      /\ Then(r, "show", cache, << >>)
      /\ UNCHANGED <<config, running, attached, overlapped, writes>>
    BY DEF ResizeDisk, Doing, At
<1>3. IsVmRequest(new) /\ new.stage = "show" /\ Posed(new, config)
    BY <1>1, <1>2, StageIs, StagePosed DEF Working
<1>4. Carries(new, config)
    BY <1>3, FreeHolds DEF Carries
<1>5. MembersTyped'
  <2>1. q.new \in Sizes /\ MemberTyped(members[d], writes)
      BY <1>1, <1>2 DEF Posed, MembersTyped
  <2>2. /\ m = [f \in {"size", "data", "snaps"} |-> m[f]]
        /\ m.size = q.new /\ m.data = members[d].data /\ m.snaps = members[d].snaps
      BY <2>1 DEF MemberTyped, IsMember
  <2> HIDE DEF m
  <2>3. MemberTyped(m, writes)
      BY <2>1, <2>2 DEF MemberTyped, IsMember
  <2> HIDE DEF d
  <2>4. /\ DOMAIN members' = DOMAIN members /\ members' = [e \in DOMAIN members' |-> members'[e]]
        /\ \A e \in DOMAIN members : members'[e] = IF e = d THEN m ELSE members[e]
      BY <1>1, <1>2 DEF MembersTyped
  <2>5. \A e \in DOMAIN members' : MemberTyped(members'[e], writes)
      BY <1>1, <2>3, <2>4 DEF MembersTyped
  <2> QED
      BY <1>1, <1>2, <2>4, <2>5, MembersStep DEF MembersTyped
<1> HIDE DEF new
<1> QED
    BY <1>1, <1>2, <1>4, <1>5, ThenHandled DEF Working, new

\* The disk that was removed goes, and it was never the boot disk.
LEMMA PurgeHandled ==
    ASSUME HandledInv, NEW r \in Requests, Purge(r)
    PROVE  HandledInv'
<1> DEFINE q == req[r]
           d == q.disk
           new == [q EXCEPT !.stage = "show"]
<1>1. /\ IsVmRequest(q) /\ Posed(q, config) /\ Holds(q, config) /\ MembersTyped /\ Alike(config, config)
    BY DEF HandledInv, VmTyped, Carries
<1>2. /\ q.stage = "purge" /\ d \in DOMAIN members
      /\ members' = [e \in DOMAIN members \ {d} |-> members[e]]
      /\ Then(r, "show", cache, << >>)
      /\ UNCHANGED <<config, running, attached, overlapped, writes>>
    BY DEF Purge, At
<1>3. IsVmRequest(new) /\ new.stage = "show" /\ Posed(new, config)
  <2>1. q.stage \in Working /\ "show" \in Working
      BY <1>2 DEF Working
  <2>2. Posed(new, config)
      BY <1>1, <2>1, StagePosed
  <2> QED
      BY <1>1, <2>2, StageIs
<1>4. Carries(new, config)
    BY <1>3, FreeHolds DEF Carries
<1>5. d \in Disks \ {config.attr[Bootdisk]}
    BY <1>1, <1>2 DEF Holds
<1>6. MembersTyped'
  <2>1. Dataset \notin Disks
      BY VmsAssumption DEF Dataset, Disks
  <2> HIDE DEF d
  <2>2. DOMAIN members' = DOMAIN members \ {d} /\ members' = [e \in DOMAIN members' |-> members'[e]]
      BY <1>2
  <2>3. \A e \in DOMAIN members' : MemberTyped(members'[e], writes)
      BY <1>1, <1>2 DEF MembersTyped
  <2> QED
      BY <1>1, <1>2, <1>5, <2>1, <2>2, <2>3, MembersStep DEF MembersTyped
<1> HIDE DEF new
<1> QED
    BY <1>1, <1>2, <1>4, <1>6, ThenHandled DEF Working, new

\* Snapshots taken, destroyed and gone back to.
LEMMA SnappedTyped ==
    ASSUME NEW m, NEW n, MemberTyped(m, n), NEW x, x.data = m.data
    PROVE  MemberTyped([m EXCEPT !.snaps = Append(@, x)], n)
<1> DEFINE new == [m EXCEPT !.snaps = Append(@, x)]
           snaps == Append(m.snaps, x)
<1>1. /\ new = [f \in {"size", "data", "snaps"} |-> new[f]]
      /\ new.size = m.size /\ new.data = m.data /\ new.snaps = snaps
    BY DEF MemberTyped, IsMember
<1>2. IsSeq(m.snaps)
    BY DEF MemberTyped
<1>3. /\ IsSeq(snaps) /\ Len(snaps) = Len(m.snaps) + 1
      /\ \A i \in 1 .. Len(m.snaps) : snaps[i] = m.snaps[i]
      /\ snaps[Len(m.snaps) + 1] = x
    BY <1>2, Appended
<1>4. Len(m.snaps) \in Nat
    BY <1>2 DEF IsSeq
<1> HIDE DEF new, snaps
<1>5. \A i \in 1 .. Len(snaps) : snaps[i].data \in 0 .. n
  <2>1. ASSUME NEW i \in 1 .. Len(snaps) PROVE snaps[i].data \in 0 .. n
    <3>1. i \in 1 .. Len(m.snaps) \/ i = Len(m.snaps) + 1
        BY <1>3, <1>4
    <3>2. CASE i \in 1 .. Len(m.snaps)
        BY <1>3, <3>2 DEF MemberTyped
    <3>3. CASE i = Len(m.snaps) + 1
        BY <1>3, <3>3 DEF MemberTyped
    <3> QED
        BY <3>1, <3>2, <3>3
  <2> QED
      BY <2>1
<1>6. MemberTyped(new, n)
    BY <1>1, <1>3, <1>5 DEF MemberTyped, IsMember
<1> QED
    BY <1>6 DEF new

\* A snapshot that there is has a position.
LEMMA PositionIn ==
    ASSUME NEW m, NEW n, MemberTyped(m, n), NEW name,
           name \in {m.snaps[i].name : i \in DOMAIN m.snaps}
    PROVE  Position(m, name) \in 1 .. Len(m.snaps)
<1>1. DOMAIN m.snaps = 1 .. Len(m.snaps)
    BY DEF MemberTyped, IsSeq
<1>2. \E i \in DOMAIN m.snaps : m.snaps[i].name = name
    OBVIOUS
<1> QED
    BY <1>1, <1>2 DEF Position

\* A member that loses a snapshot is still a member of its type.
LEMMA UnsnappedTyped ==
    ASSUME NEW m, NEW n, MemberTyped(m, n), NEW p \in 1 .. Len(m.snaps)
    PROVE  MemberTyped([m EXCEPT !.snaps = RemoveAt(@, p)], n)
<1> DEFINE new == [m EXCEPT !.snaps = RemoveAt(@, p)]
           snaps == RemoveAt(m.snaps, p)
<1>1. /\ new = [f \in {"size", "data", "snaps"} |-> new[f]]
      /\ new.size = m.size /\ new.data = m.data /\ new.snaps = snaps
    BY DEF MemberTyped, IsMember
<1>2. IsSeq(m.snaps) /\ Len(m.snaps) \in Nat
    BY DEF MemberTyped, IsSeq
<1>3. /\ IsSeq(snaps) /\ Len(snaps) = Len(m.snaps) - 1
      /\ \A i \in 1 .. Len(m.snaps) - 1 : snaps[i] = m.snaps[IF i < p THEN i ELSE i + 1]
    BY <1>2, RemovedFrom
<1> HIDE DEF new, snaps
<1>4. \A i \in 1 .. Len(snaps) : snaps[i].data \in 0 .. n
  <2>1. ASSUME NEW i \in 1 .. Len(snaps) PROVE snaps[i].data \in 0 .. n
    <3> DEFINE j == IF i < p THEN i ELSE i + 1
    <3>1. j \in 1 .. Len(m.snaps)
        BY <1>2, <1>3
    <3>2. snaps[i] = m.snaps[j]
        BY <1>3
    <3> QED
        BY <3>1, <3>2 DEF MemberTyped
  <2> QED
      BY <2>1
<1>5. MemberTyped(new, n)
    BY <1>1, <1>3, <1>4 DEF MemberTyped, IsMember
<1> QED
    BY <1>5 DEF new

\* So is a member that is taken back to a snapshot.
LEMMA RolledTyped ==
    ASSUME NEW m, NEW n, MemberTyped(m, n), NEW name, Position(m, name) \in 1 .. Len(m.snaps)
    PROVE  MemberTyped(RolledBack(m, name), n)
<1> DEFINE p == Position(m, name)
           new == RolledBack(m, name)
           snaps == SubSeq(m.snaps, 1, p)
<1> HIDE DEF p
<1>1. /\ new = [f \in {"size", "data", "snaps"} |-> new[f]]
      /\ new.size = m.size /\ new.data = m.snaps[p].data /\ new.snaps = snaps
    BY DEF MemberTyped, IsMember, RolledBack, p
<1>2. IsSeq(m.snaps) /\ Len(m.snaps) \in Nat /\ p \in 1 .. Len(m.snaps)
    BY DEF MemberTyped, IsSeq, p
<1>3. /\ IsSeq(snaps) /\ Len(snaps) = p
      /\ \A i \in 1 .. p : snaps[i] = m.snaps[i]
    BY <1>2, PrefixOf
<1> HIDE DEF new, snaps
<1>4. \A i \in 1 .. Len(snaps) : i \in 1 .. Len(m.snaps)
    BY <1>2, <1>3
<1>5. \A i \in 1 .. Len(snaps) : snaps[i].data \in 0 .. n
    BY <1>3, <1>4 DEF MemberTyped
<1>6. MemberTyped(new, n)
    BY <1>1, <1>2, <1>3, <1>5 DEF MemberTyped, IsMember
<1> QED
    BY <1>6 DEF new

\* Snapshots come and go.
LEMMA SnapshotHandled ==
    ASSUME HandledInv, NEW r \in Requests, CreateSnapshot(r) \/ DeleteSnapshot(r)
    PROVE  HandledInv'
<1> DEFINE q == req[r]
<1>1. /\ IsVmRequest(q) /\ Posed(q, config) /\ MembersTyped /\ Alike(config, config)
    BY DEF HandledInv, VmTyped, Carries
<1>2. /\ q.stage \in Working /\ Then(r, "over", cache, sizes)
      /\ UNCHANGED <<config, running, attached, overlapped, writes>>
    BY DEF CreateSnapshot, DeleteSnapshot, Doing, At, Working
<1>3. MembersTyped'
  <2>1. CASE CreateSnapshot(r)
    <3> DEFINE x(d) == [name |-> q.name, data |-> members[d].data, by |-> r]
    <3>1. members' = [d \in DOMAIN members |-> [members[d] EXCEPT !.snaps = Append(@, x(d))]]
        BY <2>1 DEF CreateSnapshot
    <3>2. ASSUME NEW d \in DOMAIN members PROVE MemberTyped(members'[d], writes)
      <4>1. MemberTyped(members[d], writes) /\ x(d).data = members[d].data
          BY <1>1 DEF MembersTyped
      <4>2. members'[d] = [members[d] EXCEPT !.snaps = Append(@, x(d))]
          BY <3>1
      <4> HIDE DEF x
      <4> QED
          BY <4>1, <4>2, SnappedTyped
    <3>3. DOMAIN members' = DOMAIN members /\ members' = [d \in DOMAIN members' |-> members'[d]]
        BY <3>1
    <3> QED
        BY <1>1, <1>2, <3>2, <3>3, MembersStep DEF MembersTyped
  <2>2. CASE DeleteSnapshot(r)
    <3>1. members' = [d \in DOMAIN members |->
                        IF q.name \in SnapshotsOf(d)
                        THEN [members[d] EXCEPT !.snaps = RemoveAt(@, Position(members[d], q.name))]
                        ELSE members[d]]
        BY <2>2 DEF DeleteSnapshot
    <3>2. ASSUME NEW d \in DOMAIN members PROVE MemberTyped(members'[d], writes)
      <4>1. MemberTyped(members[d], writes)
          BY <1>1 DEF MembersTyped
      <4>2. CASE q.name \in SnapshotsOf(d)
        <5>1. Position(members[d], q.name) \in 1 .. Len(members[d].snaps)
            BY <4>1, <4>2, PositionIn DEF SnapshotsOf
        <5>2. members'[d] = [members[d] EXCEPT !.snaps = RemoveAt(@, Position(members[d], q.name))]
            BY <3>1, <4>2
        <5> QED
            BY <4>1, <5>1, <5>2, UnsnappedTyped
      <4>3. CASE q.name \notin SnapshotsOf(d)
          BY <3>1, <4>1, <4>3
      <4> QED
          BY <4>2, <4>3
    <3>3. DOMAIN members' = DOMAIN members /\ members' = [d \in DOMAIN members' |-> members'[d]]
        BY <3>1
    <3> QED
        BY <1>1, <1>2, <3>2, <3>3, MembersStep DEF MembersTyped
  <2> QED
      BY <2>1, <2>2
<1> QED
    BY <1>1, <1>2, <1>3, ThenHandled

\* A member is taken back.
LEMMA RollbackHandled ==
    ASSUME HandledInv, NEW r \in Requests, RollbackSnapshot(r)
    PROVE  HandledInv'
<1> DEFINE q == req[r]
           d == Head(q.todo)
           left == Remaining(q.todo)
           new == [q EXCEPT !.todo = left]
<1>1. /\ IsVmRequest(q) /\ Posed(q, config) /\ MembersTyped /\ Alike(config, config)
      /\ BoundsOK /\ VmTyped
    BY DEF HandledInv, VmTyped, Carries
<1>2. /\ q.stage = "act" /\ q.op = "rollback_snapshot" /\ d \in DOMAIN members /\ q.name \in SnapshotsOf(d)
      /\ members' = [members EXCEPT ![d] = RolledBack(members[d], q.name)]
      /\ UNCHANGED <<config, running, attached, overlapped, writes>>
    BY DEF RollbackSnapshot, Doing, At
<1>3. MembersTyped'
  <2>1. MemberTyped(members[d], writes)
      BY <1>1, <1>2 DEF MembersTyped
  <2>2. Position(members[d], q.name) \in 1 .. Len(members[d].snaps)
      BY <1>2, <2>1, PositionIn DEF SnapshotsOf
  <2>3. MemberTyped(RolledBack(members[d], q.name), writes)
      BY <2>1, <2>2, RolledTyped
  <2> HIDE DEF d
  <2>4. /\ DOMAIN members' = DOMAIN members /\ members' = [e \in DOMAIN members' |-> members'[e]]
        /\ \A e \in DOMAIN members : members'[e] = IF e = d THEN RolledBack(members[d], q.name) ELSE members[e]
      BY <1>1, <1>2 DEF MembersTyped
  <2>5. \A e \in DOMAIN members' : MemberTyped(members'[e], writes)
      BY <1>1, <2>3, <2>4 DEF MembersTyped
  <2> QED
      BY <1>1, <1>2, <2>4, <2>5, MembersStep DEF MembersTyped
<1>4. CASE left # << >>
  <2>1. Becomes(r, new) /\ UNCHANGED <<cache, sizes, cuts>>
      BY <1>4 DEF RollbackSnapshot
  <2>2. /\ IsVmRequest(new) /\ new.stage = q.stage /\ new.op = q.op /\ new.index = q.index
        /\ new.new = q.new /\ new.name = q.name /\ new.purge = q.purge /\ new.disk = q.disk
        /\ new.todo = left /\ new.meant = q.meant
      BY <1>1 DEF IsVmRequest, VmFields
  <2>3. left \in Seq(Disks \cup {Dataset})
    <3>1. q.todo \in Seq(Disks \cup {Dataset})
        BY <1>1 DEF Posed
    <3>2. q.todo = << >> => Tail(q.todo) = << >>
        BY <3>1
    <3>3. q.todo # << >> => Tail(q.todo) \in Seq(Disks \cup {Dataset})
        BY <3>1
    <3> QED
        BY <1>4, <3>2, <3>3 DEF Remaining
  <2> HIDE DEF new, left
  <2>4. Posed(new, config)
      BY <1>1, <2>2, <2>3 DEF Posed
  <2>5. Holds(new, config)
      BY <1>2, <2>2, FreeHolds DEF ConfigOps
  <2>6. /\ req' = [p \in Requests |-> IF p = r THEN req'[r] ELSE req[p]] /\ IsVmRequest(req'[r])
        /\ req'[r] = new
      BY <1>1, <1>2, <2>1, <2>2, BecomesStep
  <2>7. HandledStep(r)
      BY <1>1, <1>2, <2>1, <2>4, <2>5, <2>6 DEF HandledStep, Carries, BoundsOK, VmTyped
  <2>8. BoundsOK'
      BY <1>1, <1>2, <2>1 DEF BoundsOK
  <2> QED
      BY <1>3, <2>7, <2>8, HandledOn
<1>5. CASE left = << >>
  <2>1. Then(r, "over", cache, << >>)
      BY <1>5 DEF RollbackSnapshot
  <2>2. q.stage \in Working
      BY <1>2 DEF Working
  <2> HIDE DEF d, left
  <2> QED
      BY <1>1, <1>2, <1>3, <2>1, <2>2, ThenHandled
<1> QED
    BY <1>4, <1>5

\* The guest, what expires, and nothing.
LEMMA RestHandled ==
    ASSUME HandledInv, Expire \/ GuestWrites \/ GuestHalts \/ UNCHANGED vmVars
    PROVE  HandledInv'
<1>1. UNCHANGED <<config, req, overlapped, cuts>>
    BY DEF Expire, GuestWrites, GuestHalts, vmVars
<1>2. cache' \in {cache, << >>}
    BY DEF Expire, GuestWrites, GuestHalts, vmVars
<1>3. BoundsOK'
    BY VmsAssumption DEF Expire, GuestWrites, GuestHalts, vmVars, HandledInv, BoundsOK
<1>4. MembersTyped'
  <2>1. MembersTyped
      BY DEF HandledInv
  <2>2. CASE UNCHANGED <<members, writes>>
      BY <1>1, <2>1, <2>2 DEF MembersTyped, IsVm
  <2>3. CASE GuestWrites
    <3>1. writes' = writes + 1 /\ writes \in Nat
        BY <2>3, VmsAssumption DEF GuestWrites, HandledInv, BoundsOK
    <3>2. members' = [d \in DOMAIN members |->
                        IF d \in attached THEN [members[d] EXCEPT !.data = writes'] ELSE members[d]]
        BY <2>3 DEF GuestWrites
    <3>3. ASSUME NEW d \in DOMAIN members PROVE MemberTyped(members'[d], writes')
      <4> DEFINE m == members[d]
                 new == [m EXCEPT !.data = writes']
      <4>1. MemberTyped(m, writes)
          BY <2>1 DEF MembersTyped
      <4>2. \A n \in 0 .. writes : n \in 0 .. writes'
          BY <3>1
      <4>3. /\ new = [f \in {"size", "data", "snaps"} |-> new[f]]
            /\ new.size = m.size /\ new.data = writes' /\ new.snaps = m.snaps
          BY <4>1 DEF MemberTyped, IsMember
      <4>4. writes' \in 0 .. writes'
          BY <3>1
      <4>5. members'[d] = new \/ members'[d] = m
          BY <3>2
      <4> HIDE DEF new, m
      <4>6. MemberTyped(new, writes') /\ MemberTyped(m, writes')
          BY <4>1, <4>2, <4>3, <4>4 DEF MemberTyped, IsMember
      <4> QED
          BY <4>5, <4>6
    <3>4. DOMAIN members' = DOMAIN members /\ members' = [d \in DOMAIN members' |-> members'[d]]
        BY <3>2
    <3> QED
        BY <1>1, <2>1, <3>3, <3>4 DEF MembersTyped, IsVm
  <2> QED
      BY <2>2, <2>3 DEF Expire, GuestHalts, vmVars
<1>5. VmTyped'
    BY <1>1, <1>4 DEF HandledInv, VmTyped, MembersTyped, MemberTyped
<1>6. Alike(config', config') /\ (cache' # << >> => Alike(cache'[1].config, config'))
    BY <1>1, <1>2 DEF HandledInv
<1>7. \A r \in Requests : Carries(req'[r], config')
    BY <1>1 DEF HandledInv
<1> QED
    BY <1>3, <1>4, <1>5, <1>6, <1>7 DEF HandledInv

\* Every step keeps it.
LEMMA HandledNext ==
    HandledInv /\ [VmNext]_vmVars => HandledInv'
<1> SUFFICES ASSUME HandledInv, [VmNext]_vmVars PROVE HandledInv'
    OBVIOUS
<1>1. ASSUME NEW r \in Requests,
             \/ Ask(r) \/ FindVm(r) \/ Size(r) \/ Show(r) \/ Look(r)
             \/ RunZonecfg(r) \/ UpdateZone(r) \/ UpdateVm(r) \/ MakeDisk(r) \/ AddDisk(r) \/ ResizeDisk(r)
             \/ RemoveDisk(r) \/ Purge(r) \/ AttachCdrom(r) \/ DetachCdrom(r)
             \/ CreateSnapshot(r) \/ DeleteSnapshot(r) \/ RollbackSnapshot(r)
             \/ StartVm(r) \/ StopVm(r) \/ Note(r) \/ Fail(r)
      PROVE  HandledInv'
    BY <1>1, AskHandled, FindHandled, LooksHandled, RunHandled, WriteHandled, MakeHandled, ResizeHandled,
       PurgeHandled, SnapshotHandled, RollbackHandled
<1>2. CASE Expire \/ GuestWrites \/ GuestHalts \/ UNCHANGED vmVars
    BY <1>2, RestHandled
<1> QED
    BY <1>1, <1>2 DEF VmNext

-----------------------------------------------------------------------------
(* The invariant holds at first, whoever made the VM or the zone.          *)

\* Numbers have a least one.
LEMMA LeastOf ==
    ASSUME NEW S \in SUBSET Nat, S # {}
    PROVE  \E s \in S : \A t \in S : s <= t
<1> DEFINE R == {ss \in Nat \X Nat : ss[1] < ss[2]}
<1>1. OpToRel(<, Nat) = R
    BY DEF OpToRel
<1>2. IsWellFoundedOn(R, Nat)
    BY <1>1, NatLessThanWellFounded
<1>3. PICK x \in S : \A y \in S : ~ (<<y, x>> \in R)
  <2> HIDE DEF R
  <2> QED
    BY <1>2, WFMin
<1>4. ASSUME NEW y \in S PROVE x <= y
  <2>1. x \in Nat /\ y \in Nat
      OBVIOUS
  <2>2. ~ (y < x)
    <3>1. <<y, x>> \in Nat \X Nat /\ <<y, x>>[1] = y /\ <<y, x>>[2] = x
        BY <2>1
    <3> QED
        BY <1>3, <3>1
  <2> QED
      BY <2>1, <2>2
<1> QED
    BY <1>4

\* A new disk has no snapshots and nothing on it.
LEMMA DiskTyped ==
    ASSUME NEW d
    PROVE  MemberTyped(Disk(d), 0)
<1> DEFINE size == CHOOSE s \in Sizes : \A t \in Sizes : s <= t
           m == [size |-> size, data |-> 0, snaps |-> << >>]
<1>1. size \in Sizes
    BY VmsAssumption, LeastOf
<1>2. Disk(d) = m
    BY DEF Disk
<1> HIDE DEF size
<1>3. m = [f \in {"size", "data", "snaps"} |-> m[f]] /\ m.size = size /\ m.data = 0 /\ m.snaps = << >>
    OBVIOUS
<1>4. IsSeq(<< >>) /\ Len(<< >>) = 0
    BY DEF IsSeq
<1> HIDE DEF m
<1>5. MemberTyped(m, 0)
    BY <1>1, <1>3, <1>4 DEF MemberTyped, IsMember
<1> QED
    BY <1>2, <1>5

\* A zone that has nothing yet, and what its first script makes of it.
LEMMA EmptyIs ==
    ASSUME NEW brand
    PROVE  /\ IsConfig(Empty(brand)) /\ AttrOK(Empty(brand))
           /\ Empty(brand).brand = brand /\ Empty(brand).attr = << >>
           /\ \A field \in Fields : Empty(brand)[field] = IF field = "brand" THEN brand ELSE << >>
<1>1. \A field \in Fields : Empty(brand)[field] = IF field = "brand" THEN brand ELSE << >>
    BY DEF Empty
<1>2. Empty(brand) = [f \in Fields |-> Empty(brand)[f]]
    BY DEF Empty
<1>3. "brand" \in Fields /\ "attr" \in Fields /\ \A kind \in Rewritten : kind \in Fields /\ kind # "brand"
    BY DEF Fields, Rewritten, Caps
<1>4. IsSeq(<< >>) /\ << >> = [k \in DOMAIN << >> |-> << >>[k]] /\ DOMAIN << >> = {}
    BY DEF IsSeq
<1>5. Empty(brand).brand = brand /\ Empty(brand).attr = << >>
    BY <1>1, <1>3
<1>6. IsConfig(Empty(brand))
    BY <1>1, <1>2, <1>3, <1>4, <1>5 DEF IsConfig
<1>7. AttrOK(Empty(brand))
    BY <1>4, <1>5, FS_EmptySet DEF AttrOK
<1> QED
    BY <1>1, <1>5, <1>6, <1>7

\* A configuration made from nothing is the one that was wanted.
LEMMA CreatedIs ==
    ASSUME NEW brand, NEW spec, IsConfig(spec), AttrOK(spec), Fits(Empty(brand), RenderCreate(spec))
    PROVE  LET c == Zonecfg(Empty(brand), RenderCreate(spec)).config
           IN  /\ IsConfig(c) /\ AttrOK(c) /\ c.brand = brand /\ c.attr = spec.attr
               /\ \A kind \in Rewritten : c[kind] = spec[kind]
<1> DEFINE script == RenderCreate(spec)
           c == Zonecfg(Empty(brand), script).config
<1>1. Zonecfg(Empty(brand), script).ok
    BY DEF Zonecfg
<1>2. /\ script.cleared = {} /\ script.added = Adds(spec) /\ script.set = << >>
      /\ script.new = spec.attr /\ script.removed = {}
    BY DEF RenderCreate
<1> HIDE DEF script
<1>3. MadeOf(Empty(brand), script, c)
    BY <1>1, ScriptRuns
<1> HIDE DEF c
<1>4. DOMAIN << >> = {}
    OBVIOUS
<1>5. Empty(brand).attr = << >> /\ Empty(brand).brand = brand
    BY EmptyIs
<1>6. /\ c = [f \in Fields |-> c[f]] /\ c.brand = brand
      /\ c.attr = [k \in DOMAIN c.attr |-> c.attr[k]]
      /\ DOMAIN c.attr = DOMAIN spec.attr
      /\ \A k \in DOMAIN spec.attr : c.attr[k] = spec.attr[k]
    BY <1>2, <1>3, <1>4, <1>5 DEF MadeOf
<1>7. c.attr = spec.attr
    BY <1>6 DEF IsConfig
<1>8. ASSUME NEW kind \in Rewritten PROVE c[kind] = spec[kind]
  <2>1. Empty(brand)[kind] = << >>
      BY EmptyIs DEF Fields, Rewritten, Caps
  <2>2. c[kind] = << >> \o spec[kind]
      BY <1>2, <1>3, <2>1 DEF MadeOf, After, Adds
  <2>3. IsSeq(spec[kind])
      BY DEF IsConfig
  <2> QED
      BY <2>2, <2>3, SeqOfParts, ConcatEmptySeq
<1>9. IsConfig(c) /\ AttrOK(c)
    BY <1>6, <1>7, <1>8 DEF IsConfig, AttrOK
<1> QED
    BY <1>6, <1>7, <1>8, <1>9 DEF c, script

\* A configuration agrees with itself.
LEMMA Itself ==
    ASSUME NEW c, IsConfig(c), AttrOK(c), c.brand = "bhyve" => HasDisks(c, c.attr[Bootdisk])
    PROVE  Alike(c, c)
BY DEF Alike

\* The key of disk j of a VM as it is created, b the disk to boot from.
FirstKey(b, j) == IF j = b THEN Bootdisk ELSE <<"disk", j>>

\* The VMs there may be at first.
LEMMA CreatedVmAlike ==
    ASSUME NEW layout \in Layouts
    PROVE  LET c == CreatedVm(layout)
           IN  /\ Alike(c, c) /\ c.brand = "bhyve" /\ c.attr[Bootdisk] = layout[2]
               /\ layout[1] \in 1 .. MaxDisks /\ layout[2] \in 0 .. layout[1] - 1
               /\ layout[1] = 2 /\ layout[2] = 0 => <<"disk", 1>> \in DOMAIN c.attr
               /\ KeysIn(c, DiskKinds) = {FirstKey(layout[2], j) : j \in 0 .. layout[1] - 1}
               /\ \A j \in 0 .. layout[1] - 1 : c.attr[FirstKey(layout[2], j)] = j
               /\ KeysIn(c, CdromKinds) = {} /\ c.fs = << >>
               /\ c.device = [i \in 1 .. layout[1] |-> i - 1]
<1> DEFINE flag(i) == i - 1 = layout[2]
           disk(i) == [zvol |-> i - 1, boot |-> flag(i)]
           vm == [vcpus |-> 1, disks |-> [i \in 1 .. layout[1] |-> disk(i)],
                  nics |-> <<1>>, cdroms |-> << >>, attrs |-> Only(<<"mandrake-id", 0>>, 1)]
           spec == ToZoneSpec(vm)
           n == layout[1]
           b == layout[2]
<1>1. n \in 1 .. MaxDisks /\ b \in 0 .. n - 1 /\ MaxDisks \in Nat
    BY VmsAssumption
<1>2. /\ vm = [f \in {"vcpus", "disks", "nics", "cdroms", "attrs"} |-> vm[f]]
      /\ vm.disks = [i \in 1 .. n |-> disk(i)] /\ vm.nics = <<1>> /\ vm.cdroms = << >>
      /\ vm.attrs = Only(<<"mandrake-id", 0>>, 1)
    OBVIOUS
<1>3. CreatedVm(layout) = Zonecfg(Empty("bhyve"), RenderCreate(spec)).config
    BY DEF CreatedVm
<1> HIDE DEF vm, spec, n, b
<1>4. ASSUME NEW i \in 1 .. n
      PROVE  vm.disks[i].zvol = i - 1 /\ vm.disks[i].boot \in BOOLEAN /\ (vm.disks[i].boot <=> i - 1 = b)
  <2>1. vm.disks[i] = disk(i)
      BY <1>2
  <2>2. flag(i) \in BOOLEAN /\ (flag(i) <=> i - 1 = b)
      BY DEF b
  <2> HIDE DEF flag
  <2>3. vm.disks[i].zvol = i - 1 /\ vm.disks[i].boot = flag(i)
      BY <2>1
  <2> QED
      BY <2>2, <2>3, Zenon
<1> HIDE DEF disk
<1>5. DOMAIN vm.disks = 1 .. n /\ IsSeq(vm.disks) /\ n \in Nat
  <2>1. n \in Nat /\ vm.disks \in Seq({disk(i) : i \in 1 .. n})
      BY <1>1, <1>2
  <2> QED
      BY <1>2, <2>1, IsSeqOf
<1>6. IsSeq(<<1>>) /\ IsSeq(<< >>) /\ DOMAIN << >> = {} /\ DOMAIN <<1>> = {1} /\ Len(<< >>) = 0
    BY DEF IsSeq
<1>7. /\ DOMAIN vm.attrs = {<<"mandrake-id", 0>>} /\ vm.attrs = [k \in DOMAIN vm.attrs |-> vm.attrs[k]]
      /\ ~IsManaged(<<"mandrake-id", 0>>)
    BY <1>2 DEF Only, IsManaged, DiskKinds, CdromKinds
<1>8. IsVmSpec(vm)
  <2>1. \A i, j \in 1 .. n : vm.disks[i].boot /\ vm.disks[j].boot => i = j
      BY <1>4
  <2>2. IsFiniteSet(DOMAIN vm.attrs)
      BY <1>7, FS_Singleton
  <2> QED
      BY <1>2, <1>4, <1>5, <1>6, <1>7, <2>1, <2>2 DEF IsVmSpec
<1>9. /\ spec = [f \in Fields |-> spec[f]] /\ spec.brand = "bhyve"
      /\ spec.anet = vm.nics /\ spec.fs = vm.cdroms
      /\ spec.device = [i \in DOMAIN vm.disks |-> vm.disks[i].zvol]
      /\ spec["capped-cpu"] = << >> /\ spec["capped-memory"] = << >>
    BY SpecMade DEF spec
<1>10. /\ spec.attr = [k \in DOMAIN spec.attr |-> spec.attr[k]]
       /\ DOMAIN spec.attr = CdromAttrs(vm) \cup DiskAttrs(vm) \cup {Vcpus} \cup DOMAIN vm.attrs
       /\ \A i \in DOMAIN vm.disks : spec.attr[DiskKey(vm, i)] = vm.disks[i].zvol
    BY <1>8, SpecAttrs DEF spec
<1>11. /\ KeysIn(spec, DiskKinds) = DiskAttrs(vm) /\ KeysIn(spec, CdromKinds) = CdromAttrs(vm)
       /\ AttrOK(spec)
    BY <1>8, SpecKeys DEF spec
<1>12. IsSeq(spec.device) /\ IsInjective(spec.device)
  <2>1. spec.device = [i \in 1 .. n |-> vm.disks[i].zvol]
      BY <1>5, <1>9
  <2>2. spec.device \in Seq({vm.disks[i].zvol : i \in 1 .. n})
      BY <1>5, <2>1
  <2>3. \A i, j \in 1 .. n : vm.disks[i].zvol = vm.disks[j].zvol => i = j
      BY <1>4
  <2> QED
      BY <2>1, <2>2, <2>3, IsSeqOf DEF IsInjective
<1>13. IsConfig(spec)
  <2>1. ASSUME NEW kind \in Rewritten PROVE IsSeq(spec[kind])
      BY <1>2, <1>6, <1>9, <1>12 DEF Rewritten, Caps
  <2> QED
      BY <1>9, <1>10, <2>1 DEF IsConfig
<1>14. Fits(Empty("bhyve"), RenderCreate(spec))
  <2> DEFINE script == RenderCreate(spec)
             e == Empty("bhyve")
  <2>1. /\ script.cleared = {} /\ script.added = Adds(spec) /\ script.set = << >>
        /\ script.new = spec.attr /\ script.removed = {}
      BY DEF RenderCreate
  <2>2. e.attr = << >>
      BY EmptyIs
  <2> HIDE DEF script, e
  <2>3. ASSUME NEW kind \in Rewritten PROVE After(e, script, kind) = spec[kind]
    <3>1. e[kind] = << >>
        BY EmptyIs DEF Fields, Rewritten, Caps, e
    <3>2. After(e, script, kind) = << >> \o spec[kind]
        BY <2>1, <3>1 DEF After, Adds
    <3>3. IsSeq(spec[kind])
        BY <1>13 DEF IsConfig
    <3> QED
        BY <3>2, <3>3, SeqOfParts, ConcatEmptySeq
  <2>4. ASSUME NEW kind \in Rewritten
        PROVE  IF kind \in Caps THEN Len(spec[kind]) <= 1 ELSE IsInjective(spec[kind])
    <3>1. IsInjective(<<1>>) /\ IsInjective(<< >>)
        BY <1>6 DEF IsInjective
    <3>2. CASE kind \in Caps
        BY <1>6, <1>9, <3>2 DEF Caps
    <3>3. CASE kind \in {"anet", "fs", "device"}
        BY <1>2, <1>9, <1>12, <3>1, <3>3 DEF Caps
    <3> QED
        BY <3>2, <3>3 DEF Rewritten
  <2>5. Fits(e, script)
      BY <1>6, <2>1, <2>2, <2>3, <2>4 DEF Fits
  <2> QED
      BY <2>5 DEF e, script
<1> DEFINE c == CreatedVm(layout)
<1>15. /\ IsConfig(c) /\ AttrOK(c) /\ c.brand = "bhyve" /\ c.attr = spec.attr
       /\ \A kind \in Rewritten : c[kind] = spec[kind]
    BY <1>3, <1>11, <1>13, <1>14, CreatedIs
<1> HIDE DEF c
<1>16. Disks = 0 .. MaxDisks - 1 /\ b \in Disks /\ b + 1 \in 1 .. n
    BY <1>1 DEF Disks
<1>17. DiskKey(vm, b + 1) = Bootdisk /\ vm.disks[b + 1].zvol = b
  <2>1. vm.disks[b + 1].boot = TRUE /\ vm.disks[b + 1].zvol = b
      BY <1>1, <1>4, <1>16
  <2> QED
      BY <2>1 DEF DiskKey, DiskAttr
<1>18. Bootdisk \in DiskAttrs(vm) /\ c.attr[Bootdisk] = b
    BY <1>5, <1>10, <1>15, <1>16, <1>17 DEF DiskAttrs
<1>19. HasDisks(c, b)
  <2>1. KeysIn(c, DiskKinds) = DiskAttrs(vm) /\ KeysIn(c, CdromKinds) = {}
    <3>1. CdromAttrs(vm) = {}
        BY <1>2, <1>6 DEF CdromAttrs
    <3> QED
        BY <1>11, <1>15, <3>1 DEF KeysIn
  <2>2. ASSUME NEW k \in DiskAttrs(vm) \ {Bootdisk} PROVE c.attr[k] \in Disks \ {b}
    <3>1. PICK i \in 1 .. n : k = DiskKey(vm, i)
        BY <1>5 DEF DiskAttrs
    <3>2. c.attr[k] = i - 1
        BY <1>4, <1>5, <1>10, <1>15, <3>1
    <3>3. i # b + 1
        BY <1>17, <3>1
    <3> QED
        BY <1>1, <1>16, <3>2, <3>3
  <2>3. Bootdisk \in DOMAIN c.attr
      BY <1>10, <1>15, <1>18
  <2> QED
      BY <1>16, <1>18, <2>1, <2>2, <2>3 DEF HasDisks
<1>20. Alike(c, c)
    BY <1>15, <1>18, <1>19, Itself
<1>21. n = 2 /\ b = 0 => <<"disk", 1>> \in DOMAIN c.attr
  <2>1. ASSUME n = 2, b = 0 PROVE <<"disk", 1>> \in DOMAIN c.attr
    <3>1. 2 \in 1 .. n /\ vm.disks[2].boot = FALSE
        BY <1>4, <2>1
    <3>2. DiskKey(vm, 2) = <<"disk", 1>>
        BY <3>1 DEF DiskKey, DiskAttr
    <3> QED
        BY <1>5, <1>10, <1>15, <3>1, <3>2 DEF DiskAttrs
  <2> QED
      BY <2>1
<1>22. KeysIn(c, CdromKinds) = {} /\ c.fs = << >> /\ c.device = [i \in 1 .. n |-> i - 1]
  <2>1. CdromAttrs(vm) = {}
      BY <1>2, <1>6 DEF CdromAttrs
  <2>2. c.fs = spec.fs /\ c.device = spec.device
      BY <1>15 DEF Rewritten, Caps
  <2>3. spec.device = [i \in 1 .. n |-> i - 1]
      BY <1>4, <1>5, <1>9
  <2> QED
      BY <1>2, <1>9, <1>11, <1>15, <2>1, <2>2, <2>3 DEF KeysIn
<1>23. /\ KeysIn(c, DiskKinds) = {FirstKey(b, j) : j \in 0 .. n - 1}
       /\ \A j \in 0 .. n - 1 : c.attr[FirstKey(b, j)] = j
  <2>1. ASSUME NEW i \in 1 .. n PROVE DiskKey(vm, i) = FirstKey(b, i - 1)
      BY <1>4 DEF DiskKey, DiskAttr, FirstKey
  <2>2. ASSUME NEW j \in 0 .. n - 1 PROVE j + 1 \in 1 .. n /\ (j + 1) - 1 = j
      BY <1>5
  <2>3. ASSUME NEW i \in 1 .. n PROVE i - 1 \in 0 .. n - 1
      BY <1>5
  <2>4. KeysIn(c, DiskKinds) = {DiskKey(vm, i) : i \in 1 .. n}
      BY <1>5, <1>11, <1>15 DEF KeysIn, DiskAttrs
  <2>5. ASSUME NEW j \in 0 .. n - 1
        PROVE  FirstKey(b, j) = DiskKey(vm, j + 1) /\ c.attr[FirstKey(b, j)] = j
    <3>1. j + 1 \in 1 .. n /\ (j + 1) - 1 = j
        BY <2>2
    <3>2. FirstKey(b, j) = DiskKey(vm, j + 1)
        BY <2>1, <3>1
    <3>3. c.attr[DiskKey(vm, j + 1)] = vm.disks[j + 1].zvol
        BY <1>5, <1>10, <1>15, <3>1
    <3> QED
        BY <1>4, <3>1, <3>2, <3>3
  <2>6. {DiskKey(vm, i) : i \in 1 .. n} = {FirstKey(b, j) : j \in 0 .. n - 1}
      BY <2>1, <2>2, <2>3, <2>5
  <2> QED
      BY <2>4, <2>5, <2>6
<1> QED
    BY <1>1, <1>15, <1>18, <1>20, <1>21, <1>22, <1>23 DEF c, n, b

\* A VM whose second disk was renamed by hand is like itself, its disks are the same.
LEMMA HandMadeAlike ==
    ASSUME NEW c, Alike(c, c), c.brand = "bhyve", <<"disk", 1>> \in DOMAIN c.attr
    PROVE  LET d == MadeByHand(c)
           IN  /\ Alike(d, d) /\ d.brand = "bhyve" /\ d.attr[Bootdisk] = c.attr[Bootdisk]
               /\ KeysIn(d, DiskKinds) = (KeysIn(c, DiskKinds) \ {<<"disk", 1>>}) \cup {BareDisk}
               /\ KeysIn(d, CdromKinds) = KeysIn(c, CdromKinds)
               /\ d.attr[BareDisk] = c.attr[<<"disk", 1>>]
               /\ d.device = c.device /\ d.fs = c.fs
<1> DEFINE second == <<"disk", 1>>
           ke == <<"extra", 0>>
           kc == <<"comment", 0>>
           b == c.attr[Bootdisk]
           extra == Only(ke, 1)
           comment == Only(kc, 1)
           bare == Only(BareDisk, c.attr[second])
           rest == [k \in DOMAIN c.attr \ {second, Vcpus} |-> c.attr[k]]
           two == bare ++ extra
           three == two ++ comment
           a == three ++ rest
           d == MadeByHand(c)
<1>1. d = [c EXCEPT !.attr = a, !.rctl = <<3>>]
    BY DEF MadeByHand
<1>2. /\ DOMAIN bare = {BareDisk} /\ bare[BareDisk] = c.attr[second]
      /\ DOMAIN extra = {ke} /\ DOMAIN comment = {kc}
      /\ DOMAIN rest = DOMAIN c.attr \ {second, Vcpus} /\ \A k \in DOMAIN rest : rest[k] = c.attr[k]
    BY DEF Only
<1>0. /\ ke[1] = "extra" /\ kc[1] = "comment" /\ second[1] = "disk" /\ second \in DOMAIN c.attr
      /\ Bootdisk \notin {BareDisk, ke, kc, second, Vcpus}
      /\ Bootdisk[1] = "bootdisk" /\ BareDisk[1] = "bare disk"
    BY DEF Bootdisk, BareDisk, Vcpus
<1> HIDE DEF extra, comment, bare, rest, second, ke, kc
<1> DEFINE added == {BareDisk, ke, kc}
<1>14. DOMAIN two = {BareDisk, ke} /\ two[BareDisk] = c.attr[second]
  <2>1. DOMAIN two = DOMAIN bare \cup DOMAIN extra
      BY OverDomain
  <2>2. BareDisk \in DOMAIN bare
      BY <1>2
  <2>3. two[BareDisk] = bare[BareDisk]
      BY <2>2, OverFirst
  <2> QED
      BY <1>2, <2>1, <2>3
<1> HIDE DEF two
<1>15. DOMAIN three = added /\ three[BareDisk] = c.attr[second]
  <2>1. DOMAIN three = DOMAIN two \cup DOMAIN comment
      BY OverDomain
  <2>2. BareDisk \in DOMAIN two
      BY <1>14
  <2>3. three[BareDisk] = two[BareDisk]
      BY <2>2, OverFirst
  <2> QED
      BY <1>2, <1>14, <2>1, <2>3
<1> HIDE DEF three
<1>3. DOMAIN a = added \cup (DOMAIN c.attr \ {second, Vcpus}) /\ a = [k \in DOMAIN a |-> a[k]]
  <2>1. DOMAIN a = DOMAIN three \cup DOMAIN rest
      BY OverDomain
  <2>2. a = [k \in DOMAIN a |-> a[k]]
      BY OverIs
  <2> QED
      BY <1>2, <1>15, <2>1, <2>2
<1>4. a[BareDisk] = c.attr[second]
    BY <1>15, OverFirst
<1>5. ASSUME NEW k \in DOMAIN a \ added PROVE a[k] = c.attr[k]
  <2>1. k \in DOMAIN rest \ DOMAIN three
      BY <1>2, <1>3, <1>15
  <2>2. a[k] = rest[k]
      BY <2>1, OverSecond
  <2> QED
      BY <1>2, <2>1, <2>2
<1> HIDE DEF a
<1>6. IsConfig(c) /\ AttrOK(c) /\ HasDisks(c, b)
    BY DEF Alike
<1>7. /\ "attr" \in Fields /\ "rctl" \in Fields /\ "brand" \in Fields
      /\ \A kind \in Rewritten : kind \in Fields /\ kind # "attr" /\ kind # "rctl"
    BY DEF Fields, Rewritten, Caps
<1> HIDE DEF d
<1>8. /\ d = [f \in Fields |-> d[f]] /\ d.attr = a /\ d.brand = c.brand
      /\ \A kind \in Rewritten : d[kind] = c[kind]
    BY <1>1, <1>6, <1>7 DEF IsConfig
<1>9. IsConfig(d)
    BY <1>3, <1>6, <1>8 DEF IsConfig
<1>10. IsKey(BareDisk) /\ IsKey(ke) /\ IsKey(kc)
    BY <1>0 DEF IsKey, IsDiskKey, DiskKinds, CdromKinds
<1>11. AttrOK(d)
  <2>1. IsFiniteSet(added)
    <3>1. IsFiniteSet({BareDisk}) /\ IsFiniteSet({ke}) /\ IsFiniteSet({kc})
        BY FS_Singleton
    <3>2. IsFiniteSet({BareDisk} \cup {ke})
        BY <3>1, FS_Union
    <3>3. IsFiniteSet({BareDisk} \cup {ke} \cup {kc})
        BY <3>1, <3>2, FS_Union
    <3>4. {BareDisk} \cup {ke} \cup {kc} = {BareDisk, ke, kc}
        OBVIOUS
    <3> QED
        BY <3>3, <3>4
  <2>2. IsFiniteSet(DOMAIN c.attr \ {second, Vcpus})
      BY <1>6, FS_Subset DEF AttrOK
  <2> DEFINE kept == DOMAIN c.attr \ {second, Vcpus}
  <2>3. \A k \in DOMAIN a : IsKey(k)
      BY <1>3, <1>6, <1>10 DEF AttrOK
  <2>4. DOMAIN a = added \cup kept
      BY <1>3
  <2> HIDE DEF kept, added
  <2>5. IsFiniteSet(added \cup kept)
      BY <2>1, <2>2, FS_Union DEF kept
  <2> QED
      BY <1>8, <2>3, <2>4, <2>5 DEF AttrOK
<1>12. HasDisks(d, b)
  <2>2. Bootdisk \in DOMAIN d.attr /\ d.attr[Bootdisk] = b /\ b \in Disks
      BY <1>0, <1>3, <1>5, <1>6, <1>8 DEF HasDisks
  <2>3. ke[1] \notin DiskKinds \cup CdromKinds /\ kc[1] \notin DiskKinds \cup CdromKinds
        /\ BareDisk[1] \notin CdromKinds /\ second[1] \in DiskKinds /\ second # Bootdisk
      BY <1>0 DEF DiskKinds, CdromKinds
  <2>4. ASSUME NEW k \in KeysIn(d, DiskKinds) \ {Bootdisk} PROVE d.attr[k] \in Disks \ {b}
    <3>1. CASE k = BareDisk
      <4>1. second \in KeysIn(c, DiskKinds) \ {Bootdisk}
          BY <1>0, <2>3 DEF KeysIn
      <4> QED
          BY <1>4, <1>6, <1>8, <3>1, <4>1 DEF HasDisks
    <3>2. CASE k # BareDisk
      <4>1. k \in KeysIn(c, DiskKinds) \ {Bootdisk} /\ d.attr[k] = c.attr[k]
          BY <1>3, <1>5, <1>8, <2>3, <3>2 DEF KeysIn
      <4> QED
          BY <1>6, <4>1 DEF HasDisks
    <3> QED
        BY <3>1, <3>2
  <2>5. ASSUME NEW k \in KeysIn(d, CdromKinds) PROVE d.attr[k] \in Isos
    <3>1. k \in KeysIn(c, CdromKinds) /\ d.attr[k] = c.attr[k]
        BY <1>3, <1>5, <1>8, <2>3 DEF KeysIn
    <3> QED
        BY <1>6, <3>1 DEF HasDisks
  <2> QED
      BY <2>2, <2>4, <2>5 DEF HasDisks
<1>13. d.attr[Bootdisk] = b
    BY <1>12 DEF HasDisks
<1>18. Alike(d, d)
    BY <1>9, <1>11, <1>12, <1>13, Itself
<1>16. /\ KeysIn(d, DiskKinds) = (KeysIn(c, DiskKinds) \ {second}) \cup {BareDisk}
       /\ KeysIn(d, CdromKinds) = KeysIn(c, CdromKinds)
  <2>1. /\ ke[1] \notin DiskKinds \cup CdromKinds /\ kc[1] \notin DiskKinds \cup CdromKinds
        /\ BareDisk[1] \notin CdromKinds /\ second[1] \notin CdromKinds
        /\ Vcpus[1] \notin DiskKinds \cup CdromKinds /\ BareDisk[1] \in DiskKinds
      BY <1>0 DEF DiskKinds, CdromKinds, Vcpus
  <2> QED
      BY <1>3, <1>8, <2>1 DEF KeysIn
<1>17. d.device = c.device /\ d.fs = c.fs /\ d.attr[BareDisk] = c.attr[second]
    BY <1>4, <1>8 DEF Rewritten, Caps
<1> QED
    BY <1>8, <1>13, <1>18, <1>16, <1>17 DEF d, second

\* The other zones there may be.
LEMMA ZoneSpecOK ==
    LET spec == [Empty("native") EXCEPT !.attr = ZoneAttrs(1, 1), !.anet = <<1>>]
    IN  IsConfig(spec) /\ AttrOK(spec)
<1> DEFINE ki == <<"mandrake-id", 0>>
           kh == <<"hostname", 0>>
           kr == <<"resolvers", 0>>
           id == Only(ki, 1)
           host == Only(AttrOf("hostname"), 1)
           res == Only(AttrOf("resolvers"), 1)
           two == id ++ host
           a == two ++ res
           spec == [Empty("native") EXCEPT !.attr = a, !.anet = <<1>>]
<1>1. ZoneAttrs(1, 1) = a
    BY DEF ZoneAttrs
<1>2. DOMAIN id = {ki} /\ DOMAIN host = {kh} /\ DOMAIN res = {kr}
    BY DEF Only, AttrOf
<1>0. ki[1] = "mandrake-id" /\ kh[1] = "hostname" /\ kr[1] = "resolvers"
    OBVIOUS
<1> HIDE DEF id, host, res, ki, kh, kr
<1>11. DOMAIN two = {ki, kh}
    BY <1>2, OverDomain
<1> HIDE DEF two
<1>3. DOMAIN a = {ki, kh, kr}
    BY <1>2, <1>11, OverDomain
<1>4. a = [k \in DOMAIN a |-> a[k]]
    BY OverIs
<1> HIDE DEF a
<1>5. /\ "attr" \in Fields /\ "attr" \notin Rewritten /\ "anet" \in Rewritten /\ Rewritten \subseteq Fields
      /\ "brand" \notin Rewritten
    BY DEF Fields, Rewritten, Caps
<1>6. IsConfig(Empty("native"))
    BY EmptyIs
<1>7. IsSeq(<<1>>)
    BY DEF IsSeq
<1>8. /\ spec = [f \in Fields |-> spec[f]] /\ spec.attr = a
      /\ \A kind \in Rewritten : spec[kind] = IF kind = "anet" THEN <<1>> ELSE Empty("native")[kind]
    BY <1>5, <1>6 DEF IsConfig
<1> HIDE DEF spec
<1>9. IsConfig(spec)
    BY <1>4, <1>6, <1>7, <1>8 DEF IsConfig
<1>10. AttrOK(spec)
  <2>1. IsFiniteSet(DOMAIN a)
    <3>1. IsFiniteSet(DOMAIN id) /\ IsFiniteSet(DOMAIN host) /\ IsFiniteSet(DOMAIN res)
        BY <1>2, FS_Singleton
    <3>2. IsFiniteSet(DOMAIN id \cup DOMAIN host)
        BY <3>1, FS_Union
    <3>3. IsFiniteSet(DOMAIN id \cup DOMAIN host \cup DOMAIN res)
        BY <3>1, <3>2, FS_Union
    <3> QED
        BY <1>2, <1>3, <3>3
  <2>2. \A k \in DOMAIN a : IsKey(k)
      BY <1>0, <1>3 DEF IsKey, DiskKinds, CdromKinds
  <2> QED
      BY <1>8, <2>1, <2>2 DEF AttrOK
<1> QED
    BY <1>1, <1>9, <1>10 DEF spec

\* A zone that mandraked created is like itself.
LEMMA CreatedZoneAlike == Alike(CreatedZone, CreatedZone) /\ CreatedZone.brand = "native"
<1> DEFINE spec == [Empty("native") EXCEPT !.attr = ZoneAttrs(1, 1), !.anet = <<1>>]
<1>1. CreatedZone = Zonecfg(Empty("native"), RenderCreate(spec)).config
    BY DEF CreatedZone
<1>2. IsConfig(spec) /\ AttrOK(spec)
    BY ZoneSpecOK
<1> HIDE DEF spec
<1>3. CASE Fits(Empty("native"), RenderCreate(spec))
    BY <1>1, <1>2, <1>3, CreatedIs, Itself
<1>4. CASE ~Fits(Empty("native"), RenderCreate(spec))
  <2>1. CreatedZone = Empty("native")
      BY <1>1, <1>4 DEF Zonecfg
  <2> QED
      BY <2>1, EmptyIs, Itself
<1> QED
    BY <1>3, <1>4

\* So is one that was worked on by hand.
LEMMA ByHandAlike ==
    Alike(ByHandToo(CreatedZone), ByHandToo(CreatedZone)) /\ ByHandToo(CreatedZone).brand = "native"
<1> DEFINE c == CreatedZone
           kc == <<"comment", 0>>
           comment == Only(kc, 1)
           a == comment ++ c.attr
           d == ByHandToo(c)
<1>1. Alike(c, c) /\ c.brand = "native"
    BY CreatedZoneAlike
<1> HIDE DEF c
<1>2. d = [c EXCEPT !.attr = a, !.dataset = <<3>>, !.rctl = <<3>>, !["capped-memory"] = <<1>>]
    BY DEF ByHandToo
<1>3. DOMAIN comment = {kc}
    BY DEF Only
<1>0. kc[1] = "comment"
    OBVIOUS
<1> HIDE DEF comment, kc
<1>4. DOMAIN a = {kc} \cup DOMAIN c.attr /\ a = [k \in DOMAIN a |-> a[k]]
    BY <1>3, OverDomain, OverIs
<1> HIDE DEF a, d
<1>5. /\ {"attr", "dataset", "rctl", "brand"} \subseteq Fields \ Rewritten
      /\ Rewritten \subseteq Fields
    BY DEF Fields, Rewritten, Caps
<1>6. IsConfig(c) /\ AttrOK(c)
    BY <1>1 DEF Alike
<1>7. /\ d = [f \in Fields |-> d[f]] /\ d.attr = a /\ d.brand = c.brand
      /\ \A kind \in Rewritten : d[kind] = IF kind = "capped-memory" THEN <<1>> ELSE c[kind]
    BY <1>2, <1>5, <1>6 DEF IsConfig
<1>8. IsSeq(<<1>>)
    BY DEF IsSeq
<1>9. IsConfig(d)
    BY <1>4, <1>6, <1>7, <1>8 DEF IsConfig
<1>10. AttrOK(d)
  <2>1. IsFiniteSet({kc})
      BY FS_Singleton
  <2> DEFINE added == {kc}
  <2>4. IsFiniteSet(added) /\ IsFiniteSet(DOMAIN c.attr) /\ DOMAIN a = added \cup DOMAIN c.attr
      BY <1>4, <1>6, <2>1 DEF AttrOK
  <2> HIDE DEF added
  <2>5. IsFiniteSet(added \cup DOMAIN c.attr)
      BY <2>4, FS_Union
  <2>2. IsFiniteSet(DOMAIN a)
      BY <2>4, <2>5
  <2>3. IsKey(kc)
      BY <1>0 DEF IsKey, DiskKinds, CdromKinds
  <2> QED
      BY <1>4, <1>6, <1>7, <2>2, <2>3 DEF AttrOK
<1>11. Alike(d, d) /\ d.brand = "native"
    BY <1>1, <1>7, <1>9, <1>10, Itself
<1> QED
    BY <1>11 DEF d, c

\* What is there at first is like itself, whoever made it.
LEMMA HandledInit == VmInit => HandledInv
<1> SUFFICES ASSUME VmInit PROVE HandledInv
    OBVIOUS
<1>1. /\ req = [r \in Requests |-> NewRequest] /\ running = FALSE /\ attached = {} /\ cache = << >>
      /\ overlapped = FALSE /\ cuts = 0 /\ writes = 0
    BY DEF VmInit
<1>2. \A d : MemberTyped(Disk(d), writes)
    BY <1>1, DiskTyped
<1>3. Dataset \notin Disks /\ MaxDisks \in Nat
    BY VmsAssumption DEF Dataset, Disks
<1>4. /\ Alike(config, config)
      /\ members = [d \in DOMAIN members |-> Disk(d)]
      /\ DOMAIN members \subseteq Disks \cup {Dataset} /\ Dataset \in DOMAIN members
      /\ IsVm => config.attr[Bootdisk] \in DOMAIN members
  <2>1. CASE config \in {CreatedZone, ByHandToo(CreatedZone)} /\ members = [d \in {Dataset} |-> Disk(d)]
      BY <2>1, CreatedZoneAlike, ByHandAlike DEF IsVm
  <2>2. ASSUME NEW layout \in Layouts,
               config \in {CreatedVm(layout)} \cup
                          IF layout[1] = 2 /\ layout[2] = 0 THEN {MadeByHand(CreatedVm(layout))} ELSE {},
               members = [d \in 0 .. layout[1] - 1 \cup {Dataset} |-> Disk(d)]
        PROVE  /\ Alike(config, config)
               /\ members = [d \in DOMAIN members |-> Disk(d)]
               /\ DOMAIN members \subseteq Disks \cup {Dataset} /\ Dataset \in DOMAIN members
               /\ config.attr[Bootdisk] \in DOMAIN members
    <3> DEFINE c == CreatedVm(layout)
    <3>1. /\ Alike(c, c) /\ c.brand = "bhyve" /\ c.attr[Bootdisk] = layout[2]
          /\ layout[1] \in 1 .. MaxDisks /\ layout[2] \in 0 .. layout[1] - 1
        BY CreatedVmAlike
    <3>2. layout[1] = 2 /\ layout[2] = 0 => <<"disk", 1>> \in DOMAIN c.attr
        BY CreatedVmAlike
    <3> HIDE DEF c
    <3>3. Alike(config, config) /\ config.attr[Bootdisk] = layout[2]
      <4>1. CASE config = c
          BY <3>1, <4>1
      <4>2. CASE layout[1] = 2 /\ layout[2] = 0 /\ config = MadeByHand(c)
          BY <3>1, <3>2, <4>2, HandMadeAlike
      <4> QED
          BY <2>2, <4>1, <4>2 DEF c
    <3>4. 0 .. layout[1] - 1 \subseteq Disks
        BY <1>3, <3>1 DEF Disks
    <3> QED
        BY <2>2, <3>1, <3>3, <3>4
  <2> QED
      BY <2>1, <2>2 DEF VmInit
<1>5. MembersTyped
    BY <1>2, <1>4 DEF MembersTyped
<1>6. VmTyped
    BY <1>1, <1>5, OverIsRequest DEF VmTyped, MembersTyped, MemberTyped
<1>7. BoundsOK
    BY <1>1, VmsAssumption DEF BoundsOK
<1>8. \A r \in Requests : Carries(req[r], config)
    BY <1>1, RestCarries
<1> QED
    BY <1>1, <1>4, <1>5, <1>6, <1>7, <1>8 DEF HandledInv

\* HandledInv holds throughout.
LEMMA HandledInvariant == VmSpec => []HandledInv
BY HandledInit, HandledNext, PTL DEF VmSpec

\* The types are part of it.
LEMMA HandledTypes == HandledInv => VmTypeOK
<1> SUFFICES ASSUME HandledInv PROVE VmTypeOK
    OBVIOUS
<1>1. MembersTyped /\ BoundsOK /\ VmTyped
    BY DEF HandledInv
<1>2. ASSUME NEW r \in Requests
      PROVE  [f \in DOMAIN req[r] \ {"spec"} |-> req[r][f]] \in Requested
  <2> DEFINE q == req[r]
             shown == {"op", "stage", "index", "new", "name", "purge", "disk", "meant", "todo"}
             t == [f \in shown |-> q[f]]
  <2>1. q = [f \in VmFields |-> q[f]] /\ q.op \in Ops /\ Posed(q, config)
      BY DEF HandledInv, VmTyped, IsVmRequest, Carries
  <2>2. DOMAIN q \ {"spec"} = shown
      BY <2>1 DEF VmFields
  <2> HIDE DEF q
  <2>3. t \in Requested
      BY <2>1 DEF Posed, Requested
  <2> QED
      BY <2>2, <2>3 DEF q
<1> QED
    BY <1>1, <1>2 DEF VmTypeOK, MembersTyped, MemberTyped, BoundsOK

\* Requests, members and what was attached stay of their types: a zvol that is not a disk of
\* the VM, or data nobody wrote, is never among them.
THEOREM VmTypesHold == VmSpec => []VmTypeOK
BY HandledInvariant, HandledTypes, PTL

\* The configuration changes by a script alone.
LEMMA OnlyRunsChange ==
    ASSUME HandledInv, [VmNext]_vmVars, config' # config
    PROVE  \E r \in Requests : RunZonecfg(r)
BY DEF VmNext, vmVars, Ask, FindVm, Size, Show, Look, UpdateZone, UpdateVm, MakeDisk, AddDisk, ResizeDisk,
       RemoveDisk, Purge, AttachCdrom, DetachCdrom, CreateSnapshot, DeleteSnapshot, RollbackSnapshot,
       StartVm, StopVm, Note, Fail, Expire, GuestWrites, GuestHalts, WriteVm, WriteSpec

\* That script was made of a reading, and for a configuration, like the one there is.
LEMMA RunIs ==
    ASSUME HandledInv, NEW r \in Requests, RunZonecfg(r)
    PROVE  \E found : \E wanted : /\ Alike(found, config) /\ Alike(wanted, config)
                                  /\ UpdatedTo(wanted, found, config, config')
<1>1. /\ req[r].stage = "zonecfg" /\ Zonecfg(config, req[r].spec).ok
      /\ config' = Zonecfg(config, req[r].spec).config
    BY DEF RunZonecfg, At
<1>2. \E found : \E wanted : /\ Alike(found, config) /\ Alike(wanted, config)
                             /\ req[r].spec = RenderUpdate(Read(found), wanted)
    BY <1>1 DEF HandledInv, Carries, Holds
<1>3. PICK found : \E wanted : /\ Alike(found, config) /\ Alike(wanted, config)
                               /\ req[r].spec = RenderUpdate(Read(found), wanted)
    BY <1>2
<1>4. PICK wanted : /\ Alike(found, config) /\ Alike(wanted, config)
                    /\ req[r].spec = RenderUpdate(Read(found), wanted)
    BY <1>3
<1>5. UpdatedTo(wanted, found, config, config')
    BY <1>1, <1>4, UpdateRuns
<1> QED
    BY <1>4, <1>5

\* So it leaves what is not mandraked's.
LEMMA ForeignKept ==
    ASSUME HandledInv, NEW r \in Requests, RunZonecfg(r)
    PROVE  Foreign(config') = Foreign(config)
<1>1. PICK found : \E wanted : /\ Alike(found, config) /\ Alike(wanted, config)
                               /\ UpdatedTo(wanted, found, config, config')
    BY RunIs
<1>2. PICK wanted : /\ Alike(found, config) /\ Alike(wanted, config)
                    /\ UpdatedTo(wanted, found, config, config')
    BY <1>1
<1>3. Alike(config', config)
    BY <1>2, UpdateAlike DEF HandledInv
<1>4. config'.dataset = config.dataset /\ config'.rctl = config.rctl
    BY <1>2 DEF UpdatedTo
<1>5. Unmanaged(config') = Unmanaged(config) /\ \A k \in Unmanaged(config) : config'.attr[k] = config.attr[k]
    BY <1>3 DEF Alike
<1>6. [k \in Unmanaged(config') |-> config'.attr[k]] = [k \in Unmanaged(config) |-> config.attr[k]]
    BY <1>5
<1> QED
    BY <1>4, <1>6 DEF Foreign, Unmanaged

\* One boot disk, whose zvol is there.
LEMMA OneBootDisk ==
    ASSUME HandledInv, IsVm
    PROVE  /\ BootDisk(Vm) = {[index |-> 0, zvol |-> config.attr[Bootdisk], boot |-> TRUE]}
           /\ config.attr[Bootdisk] \in DOMAIN members
<1> DEFINE c == Read(config)
           K == KeysOf(c, DiskKinds)
           flag(i) == K[i] = Bootdisk
           disk(i) == [index |-> Slot(K[i]), zvol |-> c.attr[K[i]], boot |-> flag(i)]
           b == config.attr[Bootdisk]
<1>1. AttrOK(c) /\ HasDisks(c, b)
  <2>1. Alike(c, config) /\ c.brand = "bhyve"
      BY ReadAlike, ReadIs DEF HandledInv, IsVm
  <2> QED
      BY <2>1 DEF Alike
<1>2. /\ 1 \in DOMAIN K /\ K[1] = Bootdisk
      /\ \A i \in DOMAIN K : K[i] = Bootdisk => i = 1
    BY <1>1, BootIsFirst DEF HasDisks
<1>3. Vm.disks = [i \in DOMAIN K |-> disk(i)]
    BY DEF Vm, FromZoneConfig
<1>4. Slot(Bootdisk) = 0 /\ c.attr[Bootdisk] = b
    BY <1>1, DiskAttrIs DEF HasDisks
<1> HIDE DEF c, K, b
<1>5. /\ flag(1) = TRUE
      /\ \A i \in DOMAIN K : flag(i) \in BOOLEAN /\ (flag(i) => i = 1)
    BY <1>2
<1> HIDE DEF flag
<1>6. ToSet(Vm.disks) = {disk(i) : i \in DOMAIN K}
    BY <1>3 DEF ToSet
<1>7. \A i \in DOMAIN K : disk(i).boot = flag(i)
    OBVIOUS
<1>8. disk(1) = [index |-> 0, zvol |-> b, boot |-> TRUE]
    BY <1>2, <1>4, <1>5, Zenon
<1> HIDE DEF disk
<1>9. BootDisk(Vm) = {disk(1)}
    BY <1>2, <1>5, <1>6, <1>7 DEF BootDisk
<1> QED
    BY <1>8, <1>9 DEF HandledInv, MembersTyped, b

-----------------------------------------------------------------------------
(* Rollbacks.                                                              *)

\* What a rollback of what is listed is to take back.
LEMMA WholeIsSeq ==
    ASSUME NEW c, AttrOK(c)
    PROVE  /\ IsSeq(WholeOf(SpecFrom(c))) /\ WholeOf(SpecFrom(c)) # << >>
           /\ ToSet(WholeOf(SpecFrom(c))) = {Dataset} \cup ToSet(Zvols(FromZoneConfig(c)))
<1> DEFINE z == Zvols(FromZoneConfig(c))
<1>1. PICK n \in Nat : DOMAIN FromZoneConfig(c).disks = 1 .. n
    <2>1. Lists(KeysOf(c, DiskKinds), KeysIn(c, DiskKinds))
        BY KeysAreListed DEF Kinds
    <2>2. DOMAIN KeysOf(c, DiskKinds) = 1 .. Len(KeysOf(c, DiskKinds)) /\ Len(KeysOf(c, DiskKinds)) \in Nat
        BY <2>1 DEF Lists, IsSeq
    <2> QED
        BY <2>2 DEF FromZoneConfig
<1>2. z = [i \in 1 .. n |-> z[i]]
    BY <1>1 DEF Zvols
<1>3. [i \in DOMAIN SpecFrom(c).disks |-> SpecFrom(c).disks[i].zvol] = z
    BY <1>1 DEF SpecFrom, Zvols, FromZoneConfig
<1>4. z \in Seq(ToSet(z)) /\ Len(z) = n
    BY <1>2 DEF ToSet
<1> DEFINE S == {Dataset} \cup ToSet(z)
           w == <<Dataset>> \o z
<1>5. WholeOf(SpecFrom(c)) = w
    BY <1>3 DEF WholeOf
<1>6. z \in Seq(S) /\ <<Dataset>> \in Seq(S)
    BY <1>4
<1>7. w \in Seq(S) /\ Len(w) = n + 1
    BY <1>4, <1>6
<1>8. w[1] = Dataset /\ \A i \in 1 .. n : w[i + 1] = z[i]
    BY <1>4, <1>6
<1>9. DOMAIN w = 1 .. n + 1 /\ DOMAIN z = 1 .. n
    BY <1>2, <1>7
<1>10. ToSet(w) \subseteq S
    BY <1>7, <1>9 DEF ToSet
<1>11. S \subseteq ToSet(w)
    <2>1. Dataset \in ToSet(w)
        BY <1>8, <1>9 DEF ToSet
    <2>2. ASSUME NEW i \in 1 .. n PROVE z[i] \in ToSet(w)
        <3>1. i + 1 \in DOMAIN w
            BY <1>9
        <3> QED
            BY <1>8, <3>1 DEF ToSet
    <2>3. ToSet(z) \subseteq ToSet(w)
        BY <1>9, <2>2 DEF ToSet
    <2> QED
        BY <2>1, <2>3
<1>12. IsSeq(w)
    BY <1>7, IsSeqOf
<1>13. w # << >>
    BY <1>7
<1> QED
    BY <1>5, <1>10, <1>11, <1>12, <1>13

\* A listing is good for as long as the configuration stays and the VM does not start.
LEMMA ListedOn ==
    ASSUME RollbackInv, NEW r \in Requests, VmStep(r), config' = config,
           running' => running \/ At(r, "note")',
           cache' \in {cache, << >>, <<Listing>>},
           At(r, "note") => cache' = << >>
    PROVE  ListedVm'
<1> SUFFICES ASSUME Calm', cache' # << >>
             PROVE  /\ cache'[1].config = Read(config')
                    /\ running' => cache'[1].running \/ \E q \in Requests : At(q, "note")'
    BY DEF ListedVm
<1>1. Calm /\ ~overlapped'
    BY DEF VmStep, Calm, RollbackInv, VmTyped
<1>2. \A q \in Requests : q # r => q \notin Busy
    BY <1>1, OthersRest DEF RollbackInv
<1>3. ~At(r, "note")
    OBVIOUS
<1>4. \A q \in Requests : ~At(q, "note")
    BY <1>2, <1>3 DEF Busy, At, Working
<1>5. cache # << >> => cache[1].config = Read(config) /\ (running => cache[1].running)
    BY <1>1, <1>4 DEF RollbackInv, ListedVm
<1>6. Listing.config = Read(config) /\ (running => Listing.running)
    BY <1>5 DEF Listing, Host
<1>7. cache'[1].config = Read(config) /\ (running => cache'[1].running)
    <2>1. CASE cache' = cache
        BY <1>5, <2>1
    <2>2. CASE cache' = <<Listing>>
        BY <1>6, <2>2
    <2> QED
        BY <2>1, <2>2
<1> QED
    BY <1>7

\* What a step of one request must see to.
LEMMA StepKeeps ==
    ASSUME RollbackInv, NEW r \in Requests, VmStep(r), ListedVm',
           members' = [d \in DOMAIN members' |-> members'[d]],
           \A d \in DOMAIN members' : IsMember(members'[d]),
           SnapsApart', RollsBack(r)'
    PROVE  RollbackInv'
<1>1. VmTyped'
    BY DEF VmStep, VmTyped, RollbackInv
<1>2. SoloVm'
    <2>1. CASE overlapped'
        BY <2>1 DEF SoloVm
    <2>2. CASE ~overlapped'
        BY <2>2, OthersRest DEF RollbackInv
    <2> QED
        BY <2>1, <2>2
<1>3. ASSUME NEW q \in Requests, q # r PROVE RollsBack(q)'
    <2> SUFFICES ASSUME Calm', req'[q].stage \in {"look", "act"} PROVE FALSE
        BY DEF RollsBack
    <2>1. ~overlapped'
        BY DEF Calm
    <2>2. q \notin Busy'
        BY <1>3, <2>1, OthersRest DEF RollbackInv
    <2> QED
        BY <2>2 DEF Busy, Working
<1> QED
    BY <1>1, <1>2, <1>3 DEF RollbackInv

\* Members that are as they were have the snapshots they had.
LEMMA SnapsStay ==
    ASSUME SnapsApart, members' = members
    PROVE  SnapsApart'
<1> DEFINE Apart(m) ==
        /\ \A d \in DOMAIN m :
              LET snaps == m[d].snaps
              IN  /\ IsSeq(snaps)
                  /\ \A i \in 1 .. Len(snaps) : snaps[i].by \in Requests
                  /\ \A i, j \in 1 .. Len(snaps) : snaps[i].name = snaps[j].name => i = j
        /\ \A d, e \in DOMAIN m :
              \A i \in 1 .. Len(m[d].snaps), j \in 1 .. Len(m[e].snaps) :
                 m[d].snaps[i].name = m[e].snaps[j].name => m[d].snaps[i].by = m[e].snaps[j].by
<1>1. Apart(members)
    BY Zenon DEF SnapsApart
<1> HIDE DEF Apart
<1>2. Apart(members')
    BY <1>1, Zenon
<1> QED
    BY <1>2, Zenon DEF SnapsApart, Apart

\* A step that changes neither configuration nor members, and of a request that does not
\* roll back after it.
LEMMA QuietKeeps ==
    ASSUME RollbackInv, NEW r \in Requests, VmStep(r), config' = config, members' = members,
           running' => running \/ At(r, "note")',
           cache' \in {cache, << >>, <<Listing>>},
           At(r, "note") => cache' = << >>,
           ~Rolling(req'[r])
    PROVE  RollbackInv'
<1>1. ListedVm'
    BY ListedOn
<1>2. RollsBack(r)'
    BY DEF RollsBack, Rolling
<1>3. SnapsApart'
    BY SnapsStay DEF RollbackInv
<1>4. members' = [d \in DOMAIN members' |-> members'[d]] /\ \A d \in DOMAIN members' : IsMember(members'[d])
    BY DEF RollbackInv, VmTyped
<1> QED
    BY <1>1, <1>2, <1>3, <1>4, StepKeeps

-----------------------------------------------------------------------------
(* The steps that change no member.                                        *)

\* A request asked while another is under way makes two overlap.
LEMMA AskKeeps ==
    ASSUME RollbackInv, NEW r \in Requests, Ask(r)
    PROVE  RollbackInv'
<1>1. PICK new : IsVmRequest(new) /\ new.stage = "find" /\ Becomes(r, new)
    <2>1. PICK op, at, new0, name, purge : op \in Ops /\
             Becomes(r, [NewRequest EXCEPT !.op = op, !.stage = "find", !.index = at.index,
                                        !.meant = at.meant, !.new = new0, !.name = name,
                                        !.purge = purge])
        BY DEF Ask, Ops
    <2> DEFINE q == [NewRequest EXCEPT !.op = op, !.stage = "find", !.index = at.index,
                                        !.meant = at.meant, !.new = new0, !.name = name,
                                        !.purge = purge]
    <2>2. IsVmRequest(q) /\ q.stage = "find"
        BY <2>1, OverIsRequest DEF IsVmRequest, VmFields
    <2> QED
        BY <2>1, <2>2
<1>2. VmTyped
    BY DEF RollbackInv
<1>3. /\ req' = [q \in Requests |-> IF q = r THEN req'[r] ELSE req[q]]
      /\ IsVmRequest(req'[r]) /\ req'[r] = new
    BY <1>1, <1>2, BecomesStep
<1>4. /\ overlapped' = (overlapped \/ Busy # {}) /\ At(r, "idle")
      /\ UNCHANGED <<config, running, attached, members, cache, sizes, cuts, writes>>
    BY DEF Ask
<1>5. VmStep(r)
    BY <1>2, <1>3, <1>4 DEF VmStep, VmTyped
<1> QED
    BY <1>1, <1>3, <1>4, <1>5, QuietKeeps DEF Rolling, At

\* Looking at sizes and showing the result fill the caches with what there is.
LEMMA ShowKeeps ==
    ASSUME RollbackInv, NEW r \in Requests, Size(r) \/ Show(r)
    PROVE  RollbackInv'
<1>1. PICK stage \in {"act", "over"} : Goes(r, stage) /\ (stage = "act" => req[r].op = "resize_disk")
    BY DEF Size, Show, Doing
<1>2. /\ req[r].stage \in {"size", "show"} /\ cache' = <<Listing>>
      /\ UNCHANGED <<config, running, attached, members, overlapped, cuts, writes>>
    BY DEF Size, Show, Doing, At, View
<1>3. VmTyped
    BY DEF RollbackInv
<1>4. /\ VmStep(r) /\ req'[r].stage = stage
      /\ Rolling(req'[r]) => req'[r] = [req[r] EXCEPT !.stage = stage]
    BY <1>1, <1>2, <1>3, WorksStep DEF Working, VmTyped
<1>5. ~Rolling(req'[r])
    BY <1>1, <1>3, <1>4 DEF Rolling, VmTyped, IsVmRequest, VmFields
<1> QED
    BY <1>2, <1>4, <1>5, QuietKeeps DEF At

\* Rendering an update touches nothing but the request.
LEMMA WriteKeeps ==
    ASSUME RollbackInv, NEW r \in Requests, NEW spec, WriteSpec(r, spec),
           req[r].stage \in {"act", "write"}
    PROVE  RollbackInv'
<1> DEFINE new == [req[r] EXCEPT !.stage = "zonecfg", !.spec = RenderUpdate(Read(config), spec)]
<1>1. VmTyped
    BY DEF RollbackInv
<1>2. IsVmRequest(new) /\ new.stage = "zonecfg"
    BY <1>1 DEF VmTyped, IsVmRequest, VmFields
<1>3. /\ Becomes(r, new)
      /\ UNCHANGED <<config, running, attached, members, cache, sizes, overlapped, cuts, writes>>
    BY DEF WriteSpec
<1> HIDE DEF new
<1>4. VmStep(r) /\ req'[r] = new
    BY <1>1, <1>2, <1>3, RemembersStep DEF Working
<1> QED
    BY <1>2, <1>3, <1>4, QuietKeeps DEF Rolling, At

\* The handlers that change a configuration only render an update here.
LEMMA SpecKeeps ==
    ASSUME RollbackInv, NEW r \in Requests,
           \/ UpdateZone(r) \/ UpdateVm(r) \/ AddDisk(r) \/ RemoveDisk(r)
           \/ AttachCdrom(r) \/ DetachCdrom(r)
    PROVE  RollbackInv'
<1>1. req[r].stage \in {"act", "write"} /\ \E spec : WriteSpec(r, spec)
    BY DEF UpdateZone, UpdateVm, AddDisk, RemoveDisk, AttachCdrom, DetachCdrom, Doing, At, WriteVm
<1> QED
    BY <1>1, WriteKeeps

\* A job's end clears the listing; a failure only ends the request.
LEMMA EndKeeps ==
    ASSUME RollbackInv, NEW r \in Requests, Note(r) \/ Fail(r)
    PROVE  RollbackInv'
<1>1. /\ Goes(r, "over") /\ req[r].stage \in Working
      /\ cache' = << >> \/ (cache' = cache /\ ~At(r, "note"))
      /\ UNCHANGED <<config, running, attached, members, sizes, overlapped, cuts, writes>>
    BY DEF Note, Fail, At, Working
<1>2. VmTyped
    BY DEF RollbackInv
<1>3. VmStep(r) /\ req'[r].stage = "over"
    BY <1>1, <1>2, WorksStep DEF VmTyped
<1>4. ~Rolling(req'[r])
    BY <1>3 DEF Rolling
<1> QED
    BY <1>1, <1>3, <1>4, QuietKeeps

\* A start or stop is noted next, until when the listing may miss it.
LEMMA PowerKeeps ==
    ASSUME RollbackInv, NEW r \in Requests, StartVm(r) \/ StopVm(r)
    PROVE  RollbackInv'
<1>1. /\ Goes(r, "note") /\ At(r, "act")
      /\ UNCHANGED <<config, members, cache, sizes, overlapped, cuts, writes>>
    BY DEF StartVm, StopVm, Doing
<1>2. VmTyped
    BY DEF RollbackInv
<1>3. VmStep(r) /\ req'[r].stage = "note"
    BY <1>1, <1>2, WorksStep DEF VmTyped, At, Working
<1>4. ~Rolling(req'[r]) /\ At(r, "note")'
    BY <1>3 DEF Rolling, At
<1> QED
    BY <1>1, <1>3, <1>4, QuietKeeps DEF At

\* A command is run by a request that works, and goes on or not.
LEMMA ThenStep ==
    ASSUME VmTyped, NEW r \in Requests, NEW stage, NEW cache0, NEW sizes0,
           Then(r, stage, cache0, sizes0), req[r].stage \in Working, overlapped' = overlapped,
           stage \notin {"look", "act"}
    PROVE  /\ VmStep(r) /\ ~Rolling(req'[r])
           /\ req'[r].stage \in {stage, "over"}
           /\ cache' = cache0 \/ (cache' = cache /\ cuts' # 0)
<1>1. CASE Goes(r, stage) /\ cache' = cache0 /\ cuts' = cuts
    BY <1>1, WorksStep DEF VmTyped, Rolling
<1>2. CASE Goes(r, "over") /\ cuts' = cuts + 1 /\ cache' = cache
    <2>1. cuts' \in Nat /\ cuts' # 0
        BY <1>2 DEF VmTyped
    <2>2. VmStep(r) /\ req'[r].stage = "over"
        BY <1>2, <2>1, WorksStep
    <2> QED
        BY <1>2, <2>1, <2>2 DEF Rolling
<1> QED
    BY <1>1, <1>2 DEF Then

\* zonecfg changes the configuration and clears the listing, or the request is dropped.
LEMMA ZonecfgKeeps ==
    ASSUME RollbackInv, NEW r \in Requests, RunZonecfg(r)
    PROVE  RollbackInv'
<1>1. PICK stage \in {"purge", "show"} :
         /\ Then(r, stage, << >>, sizes) /\ At(r, "zonecfg")
         /\ UNCHANGED <<running, attached, members, overlapped, writes>>
    BY DEF RunZonecfg
<1>2. VmTyped
    BY DEF RollbackInv
<1>3. VmStep(r) /\ ~Rolling(req'[r]) /\ (cache' = << >> \/ cuts' # 0)
    BY <1>1, <1>2, ThenStep DEF At, Working
<1>4. ListedVm'
    BY <1>3 DEF ListedVm, Calm
<1>5. RollsBack(r)'
    BY <1>3 DEF RollsBack, Rolling
<1>6. SnapsApart'
    BY <1>1, SnapsStay DEF RollbackInv
<1>7. members' = [d \in DOMAIN members' |-> members'[d]] /\ \A d \in DOMAIN members' : IsMember(members'[d])
    BY <1>1 DEF RollbackInv, VmTyped
<1> QED
    BY <1>3, <1>4, <1>5, <1>6, <1>7, StepKeeps

\* A rollback begins with all there is to take back, of a VM that does not run.
LEMMA FindKeeps ==
    ASSUME HandledInv, RollbackInv, NEW r \in Requests, FindVm(r)
    PROVE  RollbackInv'
<1> DEFINE q == req[r]
           spec == SpecFrom(Listing.config)
<1>1. /\ VmTyped /\ IsVmRequest(q) /\ At(r, "find") /\ cache' = <<Listing>> /\ r \in Busy
      /\ UNCHANGED <<config, running, attached, members, sizes, overlapped, cuts, writes>>
    BY DEF FindVm, RollbackInv, VmTyped, At, Busy, Working
<1>2. CASE /\ q.op = "rollback_snapshot" /\ ~Listing.running
           /\ Becomes(r, [q EXCEPT !.stage = "look", !.todo = WholeOf(spec)])
    <2> DEFINE new == [q EXCEPT !.stage = "look", !.todo = WholeOf(spec)]
    <2>1. /\ IsVmRequest(new) /\ new.stage = "look" /\ new.todo = WholeOf(spec)
        BY <1>1 DEF IsVmRequest, VmFields
    <2>2. Becomes(r, new)
        BY <1>2
    <2> HIDE DEF new
    <2>3. VmStep(r) /\ req'[r] = new
        BY <1>1, <2>1, <2>2, RemembersStep DEF At, Working
    <2>4. ListedVm'
        BY <1>1, <2>3, ListedOn DEF At
    <2>5. RollsBack(r)'
        <3> SUFFICES ASSUME Calm'
                     PROVE  /\ ~running'
                            /\ IsSeq(new.todo) /\ new.todo # << >>
                            /\ \A d \in Parts' : d \in ToSet(new.todo)
            BY <2>3 DEF RollsBack
        <3>1. Calm
            BY <1>1 DEF Calm
        <3>2. \A p \in Requests : ~At(p, "note")
            BY <1>1, <3>1 DEF Calm, RollbackInv, SoloVm, Busy, At, Working
        <3>3. Listing.config = Read(config) /\ ~running
            BY <1>2, <3>1, <3>2 DEF RollbackInv, ListedVm, Listing, Host
        <3>4. Parts' = {Dataset} \cup ToSet(Zvols(FromZoneConfig(Listing.config)))
            BY <1>1, <3>3 DEF Parts, Vm
        <3>5. AttrOK(Listing.config)
            BY ListingAlike DEF Alike
        <3> QED
            BY <1>1, <2>1, <3>3, <3>4, <3>5, WholeIsSeq
    <2>6. SnapsApart'
        BY <1>1, SnapsStay DEF RollbackInv
    <2>7. members' = [d \in DOMAIN members' |-> members'[d]] /\ \A d \in DOMAIN members' : IsMember(members'[d])
        BY <1>1 DEF RollbackInv, VmTyped
    <2> QED
        BY <2>3, <2>4, <2>5, <2>6, <2>7, StepKeeps
<1>3. CASE \E new : IsVmRequest(new) /\ Becomes(r, new) /\ new.stage # "over" /\ ~Rolling(new)
    <2>1. PICK new : IsVmRequest(new) /\ Becomes(r, new) /\ new.stage # "over" /\ ~Rolling(new)
        BY <1>3
    <2>2. VmStep(r) /\ req'[r] = new
        BY <1>1, <2>1, RemembersStep DEF At, Working
    <2> QED
        BY <1>1, <2>1, <2>2, QuietKeeps DEF At
<1>4. CASE Goes(r, "over")
    <2>1. VmStep(r) /\ req'[r].stage = "over"
        BY <1>1, <1>4, WorksStep DEF VmTyped, At, Working
    <2> QED
        BY <1>1, <2>1, QuietKeeps DEF Rolling, At
<1> QED
    <2>1. ASSUME NEW stage \in {"show", "act", "look"}, Goes(r, stage), q.op # "rollback_snapshot"
          PROVE  RollbackInv'
        <3> DEFINE new == [q EXCEPT !.stage = stage]
        <3>1. IsVmRequest(new) /\ new.stage # "over" /\ ~Rolling(new)
            BY <1>1, <2>1 DEF IsVmRequest, VmFields, Rolling
        <3>2. Becomes(r, new)
            BY <2>1 DEF Goes
        <3> QED
            BY <1>3, <3>1, <3>2
    <2>2. ASSUME NEW stage \in {"act", "size"}, NEW spec0, NEW disk0, q.op # "rollback_snapshot",
                 \/ Becomes(r, [q EXCEPT !.stage = stage, !.spec = spec0])
                 \/ Becomes(r, [q EXCEPT !.stage = stage, !.disk = disk0])
                 \/ Becomes(r, [[q EXCEPT !.spec = spec0] EXCEPT !.stage = stage])
                 \/ Becomes(r, [[q EXCEPT !.spec = spec0] EXCEPT !.stage = stage, !.disk = disk0])
          PROVE  RollbackInv'
        <3>1. ASSUME NEW new, \/ new = [q EXCEPT !.stage = stage, !.spec = spec0]
                              \/ new = [q EXCEPT !.stage = stage, !.disk = disk0]
                              \/ new = [[q EXCEPT !.spec = spec0] EXCEPT !.stage = stage]
                              \/ new = [[q EXCEPT !.spec = spec0] EXCEPT !.stage = stage,
                                                                         !.disk = disk0]
              PROVE  IsVmRequest(new) /\ new.stage # "over" /\ ~Rolling(new)
            BY <1>1, <2>2, <3>1 DEF IsVmRequest, VmFields, Rolling
        <3> QED
            BY <1>3, <2>2, <3>1
    <2>3. CASE q.op = "rollback_snapshot"
        BY <1>2, <1>4, <2>3 DEF FindVm, WholeOf
    <2>4. CASE q.op \in {"get_vm", "get_zone"}
        BY <2>1, <2>4 DEF FindVm
    <2>5. CASE q.op = "update_zone"
        BY <2>2, <2>5 DEF FindVm
    <2>6. CASE q.op \in {"update_vm", "add_disk"}
        BY <2>2, <2>6 DEF FindVm
    <2>7. CASE q.op \in {"resize_disk", "remove_disk"}
        BY <1>4, <2>2, <2>7 DEF FindVm
    <2>8. CASE q.op \in {"attach_cdrom", "detach_cdrom"}
        BY <1>4, <2>2, <2>8 DEF FindVm
    <2>9. CASE q.op \in {"create_snapshot", "delete_snapshot"}
        BY <2>1, <2>9 DEF FindVm
    <2>10. CASE q.op \in {"start_vm", "stop_vm"}
        BY <1>4, <2>1, <2>10 DEF FindVm
    <2>11. q.op \in Ops
        BY <1>1 DEF IsVmRequest
    <2> QED
        BY <2>3, <2>4, <2>5, <2>6, <2>7, <2>8, <2>9, <2>10, <2>11
           DEF Ops, VmOps, ZoneOps, ConfigOps, SnapshotOps

-----------------------------------------------------------------------------
(* The steps that change members.                                          *)

\* Snapshots are as they were, but for some that went.
AreKept(d) ==
    LET now == members'[d].snaps
        old == members[d].snaps
    IN  /\ IsSeq(now)
        /\ \E f : /\ \A i \in 1 .. Len(now) :
                         d \in DOMAIN members /\ f[i] \in 1 .. Len(old) /\ now[i] = old[f[i]]
                  /\ \A i, j \in 1 .. Len(now) : f[i] = f[j] => i = j

\* Snapshots stay apart when each of a member's is one it had, from a place of its own.
LEMMA SnapsOn ==
    ASSUME SnapsApart, \A d \in DOMAIN members' : AreKept(d)
    PROVE  SnapsApart'
<1>1. ASSUME NEW d \in DOMAIN members', NEW i \in 1 .. Len(members'[d].snaps)
      PROVE  d \in DOMAIN members /\ \E k \in 1 .. Len(members[d].snaps) :
                members'[d].snaps[i] = members[d].snaps[k]
    BY <1>1 DEF AreKept
<1>2. ASSUME NEW d \in DOMAIN members'
      PROVE  LET snaps == members'[d].snaps
             IN  /\ IsSeq(snaps)
                 /\ \A i \in 1 .. Len(snaps) : snaps[i].by \in Requests
                 /\ \A i, j \in 1 .. Len(snaps) : snaps[i].name = snaps[j].name => i = j
    <2>1. IsSeq(members'[d].snaps)
        BY DEF AreKept
    <2>2. ASSUME NEW i \in 1 .. Len(members'[d].snaps)
          PROVE  members'[d].snaps[i].by \in Requests
        <3>1. PICK k \in 1 .. Len(members[d].snaps) : members'[d].snaps[i] = members[d].snaps[k]
            BY <1>1
        <3>2. \A m \in 1 .. Len(members[d].snaps) : members[d].snaps[m].by \in Requests
            BY <1>1, <2>2 DEF SnapsApart
        <3> QED
            BY <3>1, <3>2
    <2>3. ASSUME NEW i \in 1 .. Len(members'[d].snaps), NEW j \in 1 .. Len(members'[d].snaps),
                 members'[d].snaps[i].name = members'[d].snaps[j].name
          PROVE  i = j
        <3> DEFINE now == members'[d].snaps
                   old == members[d].snaps
        <3>1. PICK f : /\ \A k \in 1 .. Len(now) : d \in DOMAIN members /\ f[k] \in 1 .. Len(old)
                                                  /\ now[k] = old[f[k]]
                       /\ \A k, l \in 1 .. Len(now) : f[k] = f[l] => k = l
            BY DEF AreKept
        <3>2. d \in DOMAIN members /\ old[f[i]].name = old[f[j]].name
            BY <2>3, <3>1
        <3>3. \A k, l \in 1 .. Len(old) : old[k].name = old[l].name => k = l
            BY <3>2 DEF SnapsApart
        <3>4. f[i] = f[j]
            BY <3>1, <3>2, <3>3
        <3> QED
            BY <3>1, <3>4
    <2> QED
        BY <2>1, <2>2, <2>3
<1>3. ASSUME NEW d \in DOMAIN members', NEW e \in DOMAIN members',
             NEW i \in 1 .. Len(members'[d].snaps), NEW j \in 1 .. Len(members'[e].snaps),
             members'[d].snaps[i].name = members'[e].snaps[j].name
      PROVE  members'[d].snaps[i].by = members'[e].snaps[j].by
    <2>1. PICK k \in 1 .. Len(members[d].snaps) : members'[d].snaps[i] = members[d].snaps[k]
        BY <1>1
    <2>2. PICK l \in 1 .. Len(members[e].snaps) : members'[e].snaps[j] = members[e].snaps[l]
        BY <1>1
    <2>3. d \in DOMAIN members /\ e \in DOMAIN members
        BY <1>1
    <2>4. members[d].snaps[k].name = members[e].snaps[l].name =>
             members[d].snaps[k].by = members[e].snaps[l].by
        <3>1. \A x, y \in DOMAIN members :
                 \A m \in 1 .. Len(members[x].snaps), n \in 1 .. Len(members[y].snaps) :
                    members[x].snaps[m].name = members[y].snaps[n].name =>
                       members[x].snaps[m].by = members[y].snaps[n].by
            BY DEF SnapsApart
        <3> QED
            BY <2>3, <3>1, Zenon
    <2>5. members'[d].snaps[i].name = members'[e].snaps[j].name
        BY <1>3
    <2>6. members[d].snaps[k].by = members[e].snaps[l].by
        BY <2>1, <2>2, <2>4, <2>5
    <2> QED
        BY <2>1, <2>2, <2>6
<1> QED
    BY <1>2, <1>3 DEF SnapsApart

\* Snapshots that are some of those there were, f telling which.
LEMMA KeptBy ==
    ASSUME NEW d \in DOMAIN members, IsSeq(members'[d].snaps), NEW f,
           \A i \in 1 .. Len(members'[d].snaps) :
              f[i] \in 1 .. Len(members[d].snaps) /\ members'[d].snaps[i] = members[d].snaps[f[i]],
           \A i, j \in 1 .. Len(members'[d].snaps) : f[i] = f[j] => i = j
    PROVE  AreKept(d)
<1>1. \E g : /\ \A i \in 1 .. Len(members'[d].snaps) :
                   /\ d \in DOMAIN members /\ g[i] \in 1 .. Len(members[d].snaps)
                   /\ members'[d].snaps[i] = members[d].snaps[g[i]]
            /\ \A i, j \in 1 .. Len(members'[d].snaps) : g[i] = g[j] => i = j
  <2> WITNESS f
  <2> QED
      OBVIOUS
<1> QED
    BY <1>1 DEF AreKept

\* Snapshots that are as they were.
LEMMA SameAreKept ==
    ASSUME NEW d, IsSeq(members'[d].snaps),
           members'[d].snaps = << >> \/
             (d \in DOMAIN members /\ members'[d].snaps = members[d].snaps)
    PROVE  AreKept(d)
<1> DEFINE f == [i \in 1 .. Len(members'[d].snaps) |-> i]
<1>1. \A i \in 1 .. Len(members'[d].snaps) :
         d \in DOMAIN members /\ f[i] \in 1 .. Len(members[d].snaps)
         /\ members'[d].snaps[i] = members[d].snaps[f[i]]
    OBVIOUS
<1>2. \A i, j \in 1 .. Len(members'[d].snaps) : f[i] = f[j] => i = j
    OBVIOUS
<1> QED
    BY <1>1, <1>2 DEF AreKept

\* The place of the snapshot of a name.
LEMMA PositionOf ==
    ASSUME SnapsApart, NEW d \in DOMAIN members, NEW name \in SnapshotsOf(d)
    PROVE  /\ Position(members[d], name) \in 1 .. Len(members[d].snaps)
           /\ members[d].snaps[Position(members[d], name)].name = name
<1>1. IsSeq(members[d].snaps)
    BY DEF SnapsApart
<1>2. DOMAIN members[d].snaps = 1 .. Len(members[d].snaps)
    BY <1>1, SeqOfParts
<1>3. \E i \in DOMAIN members[d].snaps : members[d].snaps[i].name = name
    BY DEF SnapshotsOf
<1> QED
    BY <1>2, <1>3 DEF Position

\* A step that changes members, of a request that does not roll back after it.
LEMMA MembersKeep ==
    ASSUME RollbackInv, NEW r \in Requests, VmStep(r), config' = config, running' = running,
           cache' = cache, ~At(r, "note"),
           members' = [d \in DOMAIN members' |-> members'[d]],
           \A d \in DOMAIN members' : IsMember(members'[d]),
           SnapsApart', RollsBack(r)'
    PROVE  RollbackInv'
<1>1. ListedVm'
    BY ListedOn
<1> QED
    BY <1>1, StepKeeps

\* Making, growing and purging a disk leave the snapshots of the members that stay.
LEMMA SizesKeep ==
    ASSUME RollbackInv, NEW r \in Requests, MakeDisk(r) \/ ResizeDisk(r) \/ Purge(r)
    PROVE  RollbackInv'
<1>1. PICK stage \in {"write", "show"} : \E sizes0 : Then(r, stage, cache, sizes0)
    BY DEF MakeDisk, ResizeDisk, Purge
<1>2. /\ VmTyped /\ SnapsApart /\ req[r].stage \in {"act", "purge"}
      /\ UNCHANGED <<config, running, attached, overlapped, writes>>
    BY DEF MakeDisk, ResizeDisk, Purge, RollbackInv, Doing, At
<1>3. VmStep(r) /\ ~Rolling(req'[r]) /\ cache' = cache
    BY <1>1, <1>2, ThenStep DEF Working
<1>4. /\ members' = [d \in DOMAIN members' |-> members'[d]]
      /\ \A d \in DOMAIN members' : IsMember(members'[d]) /\ AreKept(d)
    <2>1. \A d \in DOMAIN members : IsMember(members[d]) /\ IsSeq(members[d].snaps)
        BY <1>2 DEF VmTyped, SnapsApart
    <2>2. CASE MakeDisk(r)
        <3> DEFINE n == NewDisk(r)
                   disk == [size |-> req[r].new, data |-> 0, snaps |-> << >>]
        <3>1. /\ members' = [e \in DOMAIN members \cup {n} |-> IF e = n THEN disk ELSE members[e]]
              /\ n \notin DOMAIN members
            BY <2>2 DEF MakeDisk
        <3>2. IsMember(disk) /\ disk.snaps = << >> /\ IsSeq(<< >>)
            BY DEF IsMember, IsSeq
        <3> HIDE DEF disk, n
        <3>3. ASSUME NEW d \in DOMAIN members' PROVE IsMember(members'[d]) /\ AreKept(d)
            <4>1. CASE d = n
                BY <3>1, <3>2, <4>1, SameAreKept
            <4>2. CASE d # n
                <5>1. d \in DOMAIN members /\ members'[d] = members[d]
                    BY <3>1, <4>2
                <5> QED
                    BY <2>1, <5>1, SameAreKept
            <4> QED
                BY <4>1, <4>2
        <3> QED
            BY <3>1, <3>3
    <2>3. CASE ResizeDisk(r)
        <3>1. members' = [members EXCEPT ![req[r].disk].size = req[r].new]
            BY <2>3 DEF ResizeDisk
        <3>2. ASSUME NEW d \in DOMAIN members'
              PROVE  /\ d \in DOMAIN members /\ members'[d].snaps = members[d].snaps
                     /\ IsMember(members'[d])
            BY <2>1, <3>1 DEF IsMember
        <3>3. \A d \in DOMAIN members' : AreKept(d)
            BY <2>1, <3>2, SameAreKept
        <3> QED
            BY <3>1, <3>2, <3>3
    <2>4. CASE Purge(r)
        <3>1. members' = [d \in DOMAIN members \ {req[r].disk} |-> members[d]]
            BY <2>4 DEF Purge
        <3>2. ASSUME NEW d \in DOMAIN members'
              PROVE  d \in DOMAIN members /\ members'[d] = members[d]
            BY <3>1
        <3>3. \A d \in DOMAIN members' : AreKept(d)
            BY <2>1, <3>2, SameAreKept
        <3> QED
            BY <2>1, <3>1, <3>2, <3>3
    <2> QED
        BY <2>2, <2>3, <2>4
<1>5. SnapsApart'
    BY <1>2, <1>4, SnapsOn
<1>6. RollsBack(r)'
    BY <1>3 DEF RollsBack, Rolling
<1> QED
    BY <1>2, <1>3, <1>4, <1>5, <1>6, MembersKeep DEF At

\* A new snapshot has a name that none has.
LEMMA CreateKeeps ==
    ASSUME RollbackInv, NEW r \in Requests, CreateSnapshot(r)
    PROVE  RollbackInv'
<1> DEFINE new(d) == [name |-> req[r].name, data |-> members[d].data, by |-> r]
<1>1. /\ VmTyped /\ SnapsApart /\ At(r, "act") /\ Then(r, "over", cache, sizes)
      /\ \A d \in DOMAIN members : req[r].name \notin SnapshotsOf(d)
      /\ members' = [d \in DOMAIN members |-> [members[d] EXCEPT !.snaps = Append(@, new(d))]]
      /\ UNCHANGED <<config, running, attached, overlapped, writes>>
    BY DEF CreateSnapshot, RollbackInv, Doing
<1>2. VmStep(r) /\ ~Rolling(req'[r]) /\ cache' = cache
    BY <1>1, ThenStep DEF At, Working
<1>3. ASSUME NEW d \in DOMAIN members
      PROVE  IsMember(members'[d]) /\ members'[d].snaps = Append(members[d].snaps, new(d))
    BY <1>1 DEF VmTyped, IsMember
<1>4. ASSUME NEW d \in DOMAIN members
      PROVE  LET old == members[d].snaps
                 now == members'[d].snaps
             IN  /\ IsSeq(now) /\ Len(now) = Len(old) + 1 /\ Len(old) \in Nat
                 /\ \A i \in 1 .. Len(old) : now[i] = old[i] /\ old[i].name # req[r].name
                 /\ now[Len(old) + 1] = new(d)
    <2> DEFINE old == members[d].snaps
               S == ToSet(old) \cup {new(d)}
    <2>1. IsSeq(old)
        BY <1>1 DEF SnapsApart
    <2>2. old \in Seq(ToSet(old)) /\ DOMAIN old = 1 .. Len(old) /\ Len(old) \in Nat
        BY <2>1, SeqOfParts
    <2>3. old \in Seq(S)
        BY <2>2
    <2>4. \A i \in 1 .. Len(old) : old[i].name # req[r].name
        BY <1>1, <2>2 DEF SnapshotsOf
    <2> HIDE DEF old, new
    <2>5. /\ Append(old, new(d)) \in Seq(S) /\ Len(Append(old, new(d))) = Len(old) + 1
          /\ \A i \in 1 .. Len(old) : Append(old, new(d))[i] = old[i]
          /\ Append(old, new(d))[Len(old) + 1] = new(d)
        BY <2>3, AppendProperties DEF S
    <2>6. IsSeq(Append(old, new(d)))
        BY <2>5, IsSeqOf
    <2> QED
        BY <1>3, <2>2, <2>4, <2>5, <2>6 DEF old
<1>5. DOMAIN members' = DOMAIN members
    BY <1>1
<1>6. ASSUME NEW d \in DOMAIN members, NEW i \in 1 .. Len(members'[d].snaps)
      PROVE  \/ /\ i \in 1 .. Len(members[d].snaps) /\ members'[d].snaps[i] = members[d].snaps[i]
                /\ members[d].snaps[i].name # req[r].name
             \/ /\ i = Len(members[d].snaps) + 1
                /\ members'[d].snaps[i].name = req[r].name /\ members'[d].snaps[i].by = r
    <2> DEFINE old == members[d].snaps
               now == members'[d].snaps
    <2>1. /\ Len(now) = Len(old) + 1 /\ Len(old) \in Nat
          /\ \A k \in 1 .. Len(old) : now[k] = old[k] /\ old[k].name # req[r].name
          /\ now[Len(old) + 1] = new(d)
        BY <1>4
    <2>2. new(d).name = req[r].name /\ new(d).by = r
        OBVIOUS
    <2>3. i \in 1 .. Len(now)
        OBVIOUS
    <2> HIDE DEF new, old, now
    <2>4. i \in 1 .. Len(old) \/ i = Len(old) + 1
        BY <2>1, <2>3
    <2>5. \/ i \in 1 .. Len(old) /\ now[i] = old[i] /\ old[i].name # req[r].name
          \/ i = Len(old) + 1 /\ now[i].name = req[r].name /\ now[i].by = r
        BY <2>1, <2>2, <2>4
    <2> QED
        BY <2>5 DEF old, now
<1> HIDE DEF new
<1>7. SnapsApart'
    <2>1. ASSUME NEW d \in DOMAIN members
          PROVE  LET snaps == members'[d].snaps
                 IN  /\ IsSeq(snaps)
                     /\ \A i \in 1 .. Len(snaps) : snaps[i].by \in Requests
                     /\ \A i, j \in 1 .. Len(snaps) : snaps[i].name = snaps[j].name => i = j
        <3>1. IsSeq(members'[d].snaps)
            BY <1>4
        <3>2. \A i \in 1 .. Len(members'[d].snaps) : members'[d].snaps[i].by \in Requests
            BY <1>1, <1>6 DEF SnapsApart
        <3>3. ASSUME NEW i \in 1 .. Len(members'[d].snaps), NEW j \in 1 .. Len(members'[d].snaps),
                     members'[d].snaps[i].name = members'[d].snaps[j].name
              PROVE  i = j
            <4>1. CASE members'[d].snaps[i].name = req[r].name
                <5>1. i = Len(members[d].snaps) + 1 /\ j = Len(members[d].snaps) + 1
                    BY <1>6, <3>3, <4>1
                <5> QED
                    BY <5>1
            <4>2. CASE members'[d].snaps[i].name # req[r].name
                <5>1. /\ i \in 1 .. Len(members[d].snaps) /\ members'[d].snaps[i] = members[d].snaps[i]
                      /\ j \in 1 .. Len(members[d].snaps) /\ members'[d].snaps[j] = members[d].snaps[j]
                    BY <1>6, <3>3, <4>2
                <5> QED
                    BY <1>1, <3>3, <5>1 DEF SnapsApart
            <4> QED
                BY <4>1, <4>2
        <3> QED
            BY <3>1, <3>2, <3>3
    <2>2. ASSUME NEW d \in DOMAIN members, NEW e \in DOMAIN members,
                 NEW i \in 1 .. Len(members'[d].snaps), NEW j \in 1 .. Len(members'[e].snaps),
                 members'[d].snaps[i].name = members'[e].snaps[j].name
          PROVE  members'[d].snaps[i].by = members'[e].snaps[j].by
        <3>1. CASE members'[d].snaps[i].name = req[r].name
            <4>1. members'[d].snaps[i].by = r
                BY <1>6, <3>1
            <4>2. members'[e].snaps[j].by = r
                BY <1>6, <2>2, <3>1
            <4> QED
                BY <4>1, <4>2
        <3>2. CASE members'[d].snaps[i].name # req[r].name
            <4>1. i \in 1 .. Len(members[d].snaps) /\ members'[d].snaps[i] = members[d].snaps[i]
                BY <1>6, <3>2
            <4>2. j \in 1 .. Len(members[e].snaps) /\ members'[e].snaps[j] = members[e].snaps[j]
                BY <1>6, <2>2, <3>2
            <4>3. members[d].snaps[i].name = members[e].snaps[j].name
                BY <2>2, <4>1, <4>2
            <4>4. \A k \in 1 .. Len(members[d].snaps), l \in 1 .. Len(members[e].snaps) :
                     members[d].snaps[k].name = members[e].snaps[l].name =>
                        members[d].snaps[k].by = members[e].snaps[l].by
                BY <1>1 DEF SnapsApart
            <4>5. members[d].snaps[i].by = members[e].snaps[j].by
                BY <4>1, <4>2, <4>3, <4>4
            <4> QED
                BY <4>1, <4>2, <4>5
        <3> QED
            BY <3>1, <3>2
    <2> QED
        BY <1>5, <2>1, <2>2 DEF SnapsApart
<1>8. RollsBack(r)'
    BY <1>2 DEF RollsBack, Rolling
<1>9. members' = [d \in DOMAIN members' |-> members'[d]]
    BY <1>1
<1> QED
    BY <1>1, <1>2, <1>3, <1>5, <1>7, <1>8, <1>9, MembersKeep DEF At

\* A snapshot is taken out of every member that has it.
LEMMA DeleteKeeps ==
    ASSUME RollbackInv, NEW r \in Requests, DeleteSnapshot(r)
    PROVE  RollbackInv'
<1> DEFINE name == req[r].name
<1>1. /\ VmTyped /\ SnapsApart /\ At(r, "act") /\ Then(r, "over", cache, sizes)
      /\ members' = [d \in DOMAIN members |->
                       IF name \in SnapshotsOf(d)
                       THEN [members[d] EXCEPT !.snaps = RemoveAt(@, Position(members[d], name))]
                       ELSE members[d]]
      /\ UNCHANGED <<config, running, attached, overlapped, writes>>
    BY DEF DeleteSnapshot, RollbackInv, Doing
<1>2. VmStep(r) /\ ~Rolling(req'[r]) /\ cache' = cache
    BY <1>1, ThenStep DEF At, Working
<1>3. ASSUME NEW d \in DOMAIN members PROVE IsMember(members'[d]) /\ AreKept(d)
    <2>1. IsMember(members[d]) /\ IsSeq(members[d].snaps)
        BY <1>1 DEF VmTyped, SnapsApart
    <2>2. CASE name \in SnapshotsOf(d)
        <3> DEFINE old == members[d].snaps
                   n == Position(members[d], name)
                   now == RemoveAt(old, n)
                   f == [i \in 1 .. Len(old) - 1 |-> IF i < n THEN i ELSE i + 1]
        <3>1. n \in 1 .. Len(old)
            BY <1>1, <2>2, PositionOf
        <3>2. IsMember(members'[d]) /\ members'[d].snaps = now
            BY <1>1, <2>1, <2>2 DEF IsMember
        <3> HIDE DEF n
        <3>3. /\ IsSeq(now) /\ Len(now) = Len(old) - 1
              /\ \A i \in 1 .. Len(old) - 1 : now[i] = old[IF i < n THEN i ELSE i + 1]
            BY <2>1, <3>1, RemovedFrom
        <3>4. Len(old) \in Nat
            BY <2>1, SeqOfParts
        <3>5. \A i \in 1 .. Len(now) : f[i] \in 1 .. Len(old) /\ now[i] = old[f[i]]
            BY <3>1, <3>3, <3>4
        <3>6. \A i, j \in 1 .. Len(now) : f[i] = f[j] => i = j
            <4>1. \A i \in 1 .. Len(now) : f[i] = IF i < n THEN i ELSE i + 1
                BY <3>3
            <4>2. n \in Nat /\ Len(now) \in Nat
                BY <3>1, <3>3, <3>4
            <4> HIDE DEF f, now
            <4> QED
                BY <4>1, <4>2
        <3> HIDE DEF f, now
        <3> QED
            <4>1. /\ \A i \in 1 .. Len(members'[d].snaps) :
                        f[i] \in 1 .. Len(old) /\ members'[d].snaps[i] = old[f[i]]
                  /\ \A i, j \in 1 .. Len(members'[d].snaps) : f[i] = f[j] => i = j
                BY <3>2, <3>5, <3>6
            <4>2. AreKept(d)
                BY <3>2, <3>3, <4>1, KeptBy, Zenon
            <4> QED
                BY <3>2, <4>2
    <2>3. CASE name \notin SnapshotsOf(d)
        <3>1. members'[d] = members[d]
            BY <1>1, <2>3
        <3> QED
            BY <2>1, <3>1, SameAreKept
    <2> QED
        BY <2>2, <2>3
<1>4. members' = [d \in DOMAIN members' |-> members'[d]] /\ DOMAIN members' = DOMAIN members
    BY <1>1
<1>5. SnapsApart'
    BY <1>1, <1>3, <1>4, SnapsOn
<1>6. RollsBack(r)'
    BY <1>2 DEF RollsBack, Rolling
<1> QED
    BY <1>1, <1>2, <1>3, <1>4, <1>5, <1>6, MembersKeep DEF At

\* Taking a member back to its snapshot of a name, where it has one.
LEMMA BackIsBack ==
    ASSUME SnapsApart, NEW d \in DOMAIN members, NEW name \in SnapshotsOf(d),
           IsMember(members[d]), members'[d] = RolledBack(members[d], name), d \in DOMAIN members'
    PROVE  IsMember(members'[d]) /\ AreKept(d) /\ IsBack(members', d, name)
<1> DEFINE old == members[d].snaps
           n == Position(members[d], name)
           now == SubSeq(old, 1, n)
           f == [i \in 1 .. n |-> i]
<1>1. n \in 1 .. Len(old) /\ old[n].name = name
    BY PositionOf
<1>2. IsSeq(old)
    BY DEF SnapsApart
<1>3. /\ IsMember(members'[d]) /\ members'[d].snaps = now
      /\ members'[d].data = old[n].data
    BY DEF RolledBack, IsMember
<1> HIDE DEF n
<1>4. /\ IsSeq(now) /\ Len(now) = n /\ \A i \in 1 .. n : now[i] = old[i]
    BY <1>1, <1>2, PrefixOf
<1>5. Len(old) \in Nat
    BY <1>2, SeqOfParts
<1>6. n \in Nat \ {0} /\ n <= Len(old)
    BY <1>1, <1>5
<1>7. \A i \in 1 .. Len(now) : f[i] \in 1 .. Len(old) /\ now[i] = old[f[i]]
    BY <1>4, <1>5, <1>6
<1>8. \A i, j \in 1 .. Len(now) : f[i] = f[j] => i = j
    BY <1>4
<1>9. now # << >> /\ now[Len(now)].name = name /\ now[Len(now)].data = old[n].data
    <2>1. Len(now) # 0
        BY <1>4, <1>6
    <2>2. n \in 1 .. n
        BY <1>6
    <2>3. Len(now) = n /\ now[n] = old[n]
        BY <1>4, <2>2
    <2> QED
        BY <1>1, <2>1, <2>3
<1> HIDE DEF f, now
<1>10. AreKept(d)
    <2>1. /\ \A i \in 1 .. Len(members'[d].snaps) :
                f[i] \in 1 .. Len(old) /\ members'[d].snaps[i] = old[f[i]]
          /\ \A i, j \in 1 .. Len(members'[d].snaps) : f[i] = f[j] => i = j
        BY <1>3, <1>7, <1>8
    <2>2. d \in DOMAIN members /\ IsSeq(members'[d].snaps)
        BY <1>3, <1>4
    <2> HIDE DEF old
    <2>3. \A i \in 1 .. Len(members'[d].snaps) :
             f[i] \in 1 .. Len(members[d].snaps) /\ members'[d].snaps[i] = members[d].snaps[f[i]]
        BY <2>1 DEF old
    <2> QED
        BY <2>1, <2>2, <2>3, KeptBy, Zenon
<1>11. IsBack(members', d, name)
    BY <1>3, <1>9 DEF IsBack, Last
<1> QED
    BY <1>3, <1>10, <1>11

\* What one command of a rollback does.
LEMMA RollsOn ==
    ASSUME RollbackInv, NEW r \in Requests, RollbackSnapshot(r)
    PROVE  LET d == Head(req[r].todo)
           IN  /\ members' = [e \in DOMAIN members' |-> members'[e]]
               /\ DOMAIN members' = DOMAIN members
               /\ d \in DOMAIN members /\ IsBack(members', d, req[r].name)
               /\ \A e \in DOMAIN members : e # d => members'[e] = members[e]
               /\ \A e \in DOMAIN members : IsMember(members'[e])
               /\ SnapsApart'
<1> DEFINE d == Head(req[r].todo)
           name == req[r].name
<1>1. /\ VmTyped /\ SnapsApart
      /\ d \in DOMAIN members /\ name \in SnapshotsOf(d)
      /\ members' = [members EXCEPT ![d] = RolledBack(@, name)]
    BY DEF RollbackInv, RollbackSnapshot
<1>2. /\ members = [e \in DOMAIN members |-> members[e]]
      /\ \A e \in DOMAIN members : IsMember(members[e])
    BY <1>1 DEF VmTyped
<1> HIDE DEF d, name
<1>3. /\ DOMAIN members' = DOMAIN members
      /\ members' = [e \in DOMAIN members' |-> members'[e]]
      /\ members'[d] = RolledBack(members[d], name)
      /\ \A e \in DOMAIN members : e # d => members'[e] = members[e]
    BY <1>1, <1>2
<1>4. IsMember(members'[d]) /\ AreKept(d) /\ IsBack(members', d, name)
    BY <1>1, <1>2, <1>3, BackIsBack
<1>5. ASSUME NEW e \in DOMAIN members PROVE IsMember(members'[e]) /\ AreKept(e)
    <2>1. CASE e = d
        BY <1>4, <2>1
    <2>2. CASE e # d
        <3>1. IsSeq(members[e].snaps) /\ members'[e] = members[e]
            BY <1>1, <1>3, <2>2 DEF SnapsApart
        <3> QED
            BY <1>2, <3>1, SameAreKept
    <2> QED
        BY <2>1, <2>2
<1>6. SnapsApart'
    BY <1>1, <1>3, <1>5, SnapsOn
<1> QED
    BY <1>1, <1>3, <1>4, <1>5, <1>6 DEF d, name

\* A member is back, or still to be taken back.
LEMMA PartsBack ==
    ASSUME RollbackInv, NEW r \in Requests, RollbackSnapshot(r), Calm'
    PROVE  /\ ~running /\ IsSeq(req[r].todo) /\ req[r].todo # << >>
           /\ \A e \in Parts : e \in ToSet(Tail(req[r].todo)) \/ IsBack(members', e, req[r].name)
<1> DEFINE d == Head(req[r].todo)
<1>1. Calm /\ At(r, "act") /\ req[r].op = "rollback_snapshot"
    <2>1. At(r, "act") /\ req[r].op = "rollback_snapshot" /\ overlapped' = overlapped
        BY DEF RollbackSnapshot, Doing
    <2>2. cuts' = cuts \/ cuts' = cuts + 1
        BY DEF RollbackSnapshot, Then
    <2> QED
        BY <2>1, <2>2 DEF Calm, RollbackInv, VmTyped
<1>2. /\ ~running /\ IsSeq(req[r].todo) /\ req[r].todo # << >>
      /\ \A e \in Parts : e \in ToSet(req[r].todo) \/ IsBack(members, e, req[r].name)
    BY <1>1 DEF RollbackInv, RollsBack, At
<1>3. ToSet(req[r].todo) = {d} \cup ToSet(Tail(req[r].todo))
    BY <1>2, TailIsSeq
<1>4. /\ DOMAIN members' = DOMAIN members /\ IsBack(members', d, req[r].name)
      /\ \A e \in DOMAIN members : e # d => members'[e] = members[e]
    BY RollsOn
<1> HIDE DEF d
<1>5. ASSUME NEW e \in Parts, e \notin ToSet(Tail(req[r].todo)) PROVE IsBack(members', e, req[r].name)
    <2>1. CASE e = d
        BY <1>4, <2>1
    <2>2. CASE e # d
        <3>1. IsBack(members, e, req[r].name)
            BY <1>2, <1>3, <1>5, <2>2
        <3>2. e \in DOMAIN members' /\ members'[e] = members[e]
            BY <1>4, <2>2, <3>1 DEF IsBack
        <3> QED
            <4>1. /\ e \in DOMAIN members' /\ members'[e].snaps # << >>
                  /\ Last(members'[e].snaps).name = req[r].name
                  /\ members'[e].data = Last(members'[e].snaps).data
                BY <3>1, <3>2 DEF IsBack
            <4> QED
                BY <4>1 DEF IsBack
    <2> QED
        BY <2>1, <2>2
<1> QED
    BY <1>2, <1>5

\* One member is taken back, and the rest of the list remains.
LEMMA RollbackKeeps ==
    ASSUME RollbackInv, NEW r \in Requests, RollbackSnapshot(r)
    PROVE  RollbackInv'
<1> DEFINE left == Remaining(req[r].todo)
           new == [req[r] EXCEPT !.todo = left]
<1>1. /\ VmTyped /\ IsVmRequest(req[r]) /\ At(r, "act")
      /\ \/ left # << >> /\ Becomes(r, new) /\ UNCHANGED <<cache, sizes, cuts>>
         \/ left = << >> /\ Then(r, "over", cache, << >>)
      /\ UNCHANGED <<config, running, attached, overlapped, writes>>
    BY DEF RollbackSnapshot, RollbackInv, VmTyped, Doing
<1>2. /\ members' = [e \in DOMAIN members' |-> members'[e]]
      /\ \A e \in DOMAIN members' : IsMember(members'[e])
      /\ SnapsApart'
    BY RollsOn
<1>3. IsVmRequest(new) /\ new.stage = "act" /\ new.todo = left /\ new.name = req[r].name
    BY <1>1 DEF IsVmRequest, VmFields, At
<1>4. CASE left # << >> /\ Becomes(r, new) /\ UNCHANGED <<cache, sizes, cuts>>
    <2> HIDE DEF new
    <2>1. VmStep(r) /\ req'[r] = new
        BY <1>1, <1>3, <1>4, RemembersStep DEF At, Working
    <2>2. RollsBack(r)'
        <3> SUFFICES ASSUME Calm'
                     PROVE  /\ ~running'
                            /\ IsSeq(left) /\ left # << >>
                            /\ \A e \in Parts' :
                                  e \in ToSet(left) \/ IsBack(members', e, req[r].name)
            BY <1>3, <2>1 DEF RollsBack, At
        <3>1. left = Tail(req[r].todo)
            BY DEF Remaining
        <3>2. /\ ~running /\ IsSeq(req[r].todo) /\ req[r].todo # << >>
              /\ \A e \in Parts :
                    e \in ToSet(Tail(req[r].todo)) \/ IsBack(members', e, req[r].name)
            BY PartsBack
        <3>3. Parts' = Parts
            BY <1>1 DEF Parts, Vm
        <3>4. IsSeq(left)
            BY <3>1, <3>2, TailIsSeq
        <3> QED
            BY <1>1, <1>4, <3>1, <3>2, <3>3, <3>4
    <2> QED
        BY <1>1, <1>2, <1>4, <2>1, <2>2, MembersKeep DEF At
<1>5. CASE left = << >> /\ Then(r, "over", cache, << >>)
    <2>1. VmStep(r) /\ ~Rolling(req'[r]) /\ cache' = cache
        BY <1>1, <1>5, ThenStep DEF At, Working
    <2>2. RollsBack(r)'
        BY <2>1 DEF RollsBack, Rolling
    <2> QED
        BY <1>1, <1>2, <2>1, <2>2, MembersKeep DEF At
<1> QED
    BY <1>1, <1>4, <1>5

\* The look for the snapshot changes nothing that the rollback relies on.
LEMMA LookKeeps ==
    ASSUME RollbackInv, NEW r \in Requests, Look(r)
    PROVE  RollbackInv'
<1>1. PICK stage \in {"act", "over"} :
         /\ Goes(r, stage) /\ At(r, "look")
         /\ UNCHANGED <<config, running, attached, members, cache, sizes, overlapped, cuts, writes>>
    BY DEF Look
<1>2. VmTyped /\ IsVmRequest(req[r])
    BY DEF RollbackInv, VmTyped
<1>3. /\ VmStep(r) /\ req'[r].stage = stage
      /\ Rolling(req'[r]) => req'[r] = [req[r] EXCEPT !.stage = stage]
    BY <1>1, <1>2, WorksStep DEF VmTyped, At, Working
<1>4. RollsBack(r)'
    <2> SUFFICES ASSUME Calm', Rolling(req'[r])
                 PROVE  /\ ~running' /\ IsSeq(req'[r].todo) /\ req'[r].todo # << >>
                        /\ \A d \in Parts' : d \in ToSet(req'[r].todo)
        BY DEF RollsBack, Rolling
    <2>1. req'[r].todo = req[r].todo /\ req[r].op = "rollback_snapshot"
        BY <1>2, <1>3 DEF Rolling, IsVmRequest, VmFields
    <2>2. Calm /\ Parts' = Parts
        BY <1>1 DEF Calm, Parts, Vm
    <2>3. /\ ~running /\ IsSeq(req[r].todo) /\ req[r].todo # << >>
          /\ \A d \in Parts : d \in ToSet(req[r].todo)
        BY <1>1, <2>1, <2>2 DEF RollbackInv, RollsBack, At
    <2> QED
        BY <1>1, <2>1, <2>2, <2>3
<1>5. ListedVm'
    BY <1>1, <1>3, ListedOn DEF At
<1>6. SnapsApart'
    BY <1>1, SnapsStay DEF RollbackInv
<1>7. members' = [d \in DOMAIN members' |-> members'[d]] /\ \A d \in DOMAIN members' : IsMember(members'[d])
    BY <1>1 DEF RollbackInv, VmTyped
<1> QED
    BY <1>3, <1>4, <1>5, <1>6, <1>7, StepKeeps

\* What no request does: the cache expires, the guest writes or halts, or nothing happens.
LEMMA OutsideKeeps ==
    ASSUME RollbackInv, Expire \/ GuestWrites \/ GuestHalts \/ UNCHANGED vmVars
    PROVE  RollbackInv'
<1>1. /\ UNCHANGED <<config, req, overlapped, cuts>>
      /\ cache' \in {cache, << >>} /\ (running' => running)
    BY DEF Expire, GuestWrites, GuestHalts, vmVars
<1>2. SoloVm'
    BY <1>1 DEF RollbackInv, SoloVm, Busy
<1>3. ListedVm'
    BY <1>1 DEF RollbackInv, ListedVm, Calm, At
<1>4. CASE members' = members
    <2>1. VmTyped'
        BY <1>1, <1>4 DEF RollbackInv, VmTyped
    <2>2. SnapsApart'
        BY <1>4, SnapsStay DEF RollbackInv
    <2>3. ASSUME NEW r \in Requests PROVE RollsBack(r)'
        <3>1. RollsBack(r)
            BY DEF RollbackInv
        <3>2. Parts' = Parts
            BY <1>1 DEF Parts, Vm
        <3> QED
            BY <1>1, <1>4, <3>1, <3>2 DEF RollsBack, Calm, At
    <2> QED
        BY <1>2, <1>3, <2>1, <2>2, <2>3 DEF RollbackInv
<1>5. CASE GuestWrites
    <2>1. /\ running
          /\ members' = [d \in DOMAIN members |->
                           IF d \in attached THEN [members[d] EXCEPT !.data = writes'] ELSE members[d]]
        BY <1>5 DEF GuestWrites
    <2>2. ASSUME NEW d \in DOMAIN members
          PROVE  IsMember(members'[d]) /\ members'[d].snaps = members[d].snaps
        <3>1. IsMember(members[d])
            BY DEF RollbackInv, VmTyped
        <3> QED
            BY <2>1, <3>1 DEF IsMember
    <2>3. DOMAIN members' = DOMAIN members
        BY <2>1
    <2>4. VmTyped'
        <3>1. members' = [d \in DOMAIN members' |-> members'[d]]
            BY <2>1
        <3> QED
            BY <1>1, <2>2, <2>3, <3>1 DEF RollbackInv, VmTyped
    <2>5. SnapsApart'
        <3>1. SnapsApart
            BY DEF RollbackInv
        <3>2. ASSUME NEW d \in DOMAIN members' PROVE AreKept(d)
            <4>1. d \in DOMAIN members /\ members'[d].snaps = members[d].snaps /\ IsSeq(members[d].snaps)
                BY <2>2, <2>3, <3>1 DEF SnapsApart
            <4> QED
                BY <4>1, SameAreKept
        <3> QED
            BY <3>1, <3>2, SnapsOn
    <2>6. ASSUME NEW r \in Requests PROVE RollsBack(r)'
        <3>1. RollsBack(r)
            BY DEF RollbackInv
        <3> QED
            BY <1>1, <2>1, <3>1 DEF RollsBack, Calm
    <2> QED
        BY <1>2, <1>3, <2>4, <2>5, <2>6 DEF RollbackInv
<1> QED
    BY <1>4, <1>5 DEF Expire, GuestHalts, vmVars

\* A VM made anew has no snapshots, no listing and no request.
LEMMA RollbackInit == VmInit => RollbackInv
<1> SUFFICES ASSUME VmInit PROVE RollbackInv
    OBVIOUS
<1>1. PICK M : members = [d \in M |-> Disk(d)]
    BY DEF VmInit
<1>2. \A d : IsMember(Disk(d)) /\ Disk(d).snaps = << >>
    <2>1. \A size : LET disk == [size |-> size, data |-> 0, snaps |-> << >>]
                   IN  IsMember(disk) /\ disk.snaps = << >>
        BY DEF IsMember
    <2> QED
        BY <2>1 DEF Disk
<1>3. /\ req = [r \in Requests |-> NewRequest] /\ running = FALSE /\ cache = << >>
      /\ overlapped = FALSE /\ cuts = 0
    BY DEF VmInit
<1>4. NewRequest.stage = "idle"
    BY DEF NewRequest
<1>5. VmTyped
    BY <1>1, <1>2, <1>3, OverIsRequest DEF VmTyped
<1>6. SnapsApart
    <2>1. IsSeq(<< >>) /\ Len(<< >>) = 0
        BY DEF IsSeq
    <2>2. \A d \in DOMAIN members : members[d].snaps = << >>
        BY <1>1, <1>2
    <2> QED
        BY <2>1, <2>2 DEF SnapsApart
<1>7. SoloVm /\ ListedVm /\ \A r \in Requests : RollsBack(r)
    BY <1>3, <1>4 DEF SoloVm, Busy, Working, ListedVm, RollsBack
<1> QED
    BY <1>5, <1>6, <1>7 DEF RollbackInv

\* One lemma per action, or per kind of action.
LEMMA RollbackNext == HandledInv /\ RollbackInv /\ [VmNext]_vmVars => RollbackInv'
<1> SUFFICES ASSUME HandledInv, RollbackInv, [VmNext]_vmVars PROVE RollbackInv'
    OBVIOUS
<1>1. ASSUME NEW r \in Requests,
             \/ Ask(r) \/ FindVm(r) \/ Size(r) \/ Show(r) \/ Look(r)
             \/ RunZonecfg(r) \/ UpdateZone(r) \/ UpdateVm(r) \/ MakeDisk(r) \/ AddDisk(r)
             \/ ResizeDisk(r) \/ RemoveDisk(r) \/ Purge(r) \/ AttachCdrom(r) \/ DetachCdrom(r)
             \/ CreateSnapshot(r) \/ DeleteSnapshot(r) \/ RollbackSnapshot(r)
             \/ StartVm(r) \/ StopVm(r) \/ Note(r) \/ Fail(r)
      PROVE  RollbackInv'
    BY <1>1, AskKeeps, FindKeeps, ShowKeeps, LookKeeps, ZonecfgKeeps, SpecKeeps, SizesKeep,
       CreateKeeps, DeleteKeeps, RollbackKeeps, PowerKeeps, EndKeeps
<1>2. CASE Expire \/ GuestWrites \/ GuestHalts \/ UNCHANGED vmVars
    BY <1>2, OutsideKeeps
<1> QED
    BY <1>1, <1>2 DEF VmNext

\* The invariant of rollbacks holds throughout.
LEMMA RollbackInvariant == VmSpec => []RollbackInv
BY RollbackInit, RollbackNext, HandledInvariant, PTL DEF VmSpec

\* After a rollback that ends well while requests keep apart, every disk of the VM holds what
\* it held when one and the same request took the snapshot, and the VM does not run.
THEOREM RolledBackWhole == VmSpec => RollbackIsWhole
<1>1. ASSUME RollbackInv, NEW r \in Requests, RollbackSnapshot(r), At(r, "over")', Calm'
      PROVE  /\ ~running
             /\ \E by \in Requests : \A d \in {Dataset} \cup ToSet(Zvols(Vm)) :
                   LET snaps == members'[d].snaps
                   IN  /\ snaps # << >>
                       /\ Last(snaps).name = req[r].name /\ Last(snaps).by = by
                       /\ members'[d].data = Last(snaps).data
    <2>1. /\ ~running /\ IsSeq(req[r].todo) /\ req[r].todo # << >>
          /\ \A e \in Parts : e \in ToSet(Tail(req[r].todo)) \/ IsBack(members', e, req[r].name)
        BY <1>1, PartsBack
    <2>2. Tail(req[r].todo) = << >>
        <3> DEFINE new == [req[r] EXCEPT !.todo = Tail(req[r].todo)]
        <3> SUFFICES ASSUME Becomes(r, new) PROVE FALSE
            BY <1>1 DEF RollbackSnapshot, Remaining
        <3>1. VmTyped /\ IsVmRequest(req[r]) /\ At(r, "act")
            BY <1>1 DEF RollbackInv, VmTyped, RollbackSnapshot, Doing
        <3>2. IsVmRequest(new) /\ new.stage = "act"
            BY <3>1 DEF IsVmRequest, VmFields, At
        <3> HIDE DEF new
        <3>3. req'[r] = new
            BY <3>1, <3>2, BecomesStep
        <3> QED
            BY <1>1, <3>2, <3>3 DEF At
    <2>3. \A e \in Parts : IsBack(members', e, req[r].name)
        BY <2>1, <2>2 DEF ToSet
    <2>4. SnapsApart'
        BY <1>1, RollsOn
    <2>5. ASSUME NEW e \in Parts
          PROVE  /\ e \in DOMAIN members' /\ Len(members'[e].snaps) \in 1 .. Len(members'[e].snaps)
                 /\ members'[e].snaps[Len(members'[e].snaps)].name = req[r].name
        <3>1. IsBack(members', e, req[r].name)
            BY <2>3
        <3>2. e \in DOMAIN members' /\ members'[e].snaps # << >>
            BY <3>1 DEF IsBack
        <3>3. IsSeq(members'[e].snaps)
            BY <2>4, <3>2 DEF SnapsApart
        <3>4. Len(members'[e].snaps) \in Nat \ {0}
            BY <3>2, <3>3, SeqOfParts
        <3> QED
            BY <3>1, <3>2, <3>4 DEF IsBack, Last
    <2> DEFINE last(e) == members'[e].snaps[Len(members'[e].snaps)]
               by == last(Dataset).by
    <2>6. Dataset \in Parts
        BY DEF Parts
    <2>7. by \in Requests
        BY <2>4, <2>5, <2>6 DEF SnapsApart
    <2>8. ASSUME NEW e \in Parts PROVE last(e).by = by
        <3>1. last(e).name = last(Dataset).name
            BY <2>5, <2>6
        <3>2. \A i \in 1 .. Len(members'[e].snaps), j \in 1 .. Len(members'[Dataset].snaps) :
                 members'[e].snaps[i].name = members'[Dataset].snaps[j].name =>
                    members'[e].snaps[i].by = members'[Dataset].snaps[j].by
            BY <2>4, <2>5, <2>6 DEF SnapsApart
        <3> QED
            BY <2>5, <2>6, <3>1, <3>2
    <2>9. ASSUME NEW d \in Parts
          PROVE  /\ members'[d].snaps # << >>
                 /\ Last(members'[d].snaps).name = req[r].name /\ Last(members'[d].snaps).by = by
                 /\ members'[d].data = Last(members'[d].snaps).data
        BY <2>3, <2>8 DEF IsBack, Last
    <2> HIDE DEF by
    <2> QED
        BY <2>1, <2>7, <2>9 DEF Parts
<1>2. RollbackInv /\ [VmNext]_vmVars =>
        [\A r \in Requests : RollbackSnapshot(r) /\ At(r, "over")' /\ Calm' =>
            /\ ~running
            /\ \E by \in Requests : \A d \in {Dataset} \cup ToSet(Zvols(Vm)) :
                  LET snaps == members'[d].snaps
                  IN  /\ snaps # << >>
                      /\ Last(snaps).name = req[r].name /\ Last(snaps).by = by
                      /\ members'[d].data = Last(snaps).data]_vmVars
    BY <1>1
<1> QED
    BY <1>2, RollbackInvariant, PTL DEF VmSpec, RollbackIsWhole

-----------------------------------------------------------------------------
(* What is written is found again.                                         *)

\* A sequence in an order lists its parts.
LEMMA OrderIs ==
    ASSUME NEW S, NEW K, IsOrder(S), IsSeq(K), S = {K[i] : i \in 1 .. Len(K)},
           \A i, j \in 1 .. Len(K) : i < j => Sooner(K[i], K[j])
    PROVE  K = InOrder(S)
<1> DEFINE n == Len(K)
<1>1. n \in Nat /\ K = [i \in 1 .. n |-> K[i]]
    BY DEF IsSeq
<1>2. IsFiniteSet(1 .. n) /\ Cardinality(1 .. n) = n
  <2>1. 1 \in Int /\ n \in Int
      BY <1>1
  <2>2. IsFiniteSet(1 .. n) /\ Cardinality(1 .. n) = IF 1 > n THEN 0 ELSE n - 1 + 1
      BY <2>1, FS_Interval
  <2> QED
      BY <1>1, <2>2
<1>3. ASSUME NEW i \in 1 .. n, NEW j \in 1 .. n, i < j PROVE K[i] # K[j]
    BY <1>3 DEF IsOrder
<1>4. K \in Bijection(1 .. n, S)
    BY <1>1, <1>3 DEF Bijection, Injection, Surjection, IsInjective
<1>5. ExistsBijection(1 .. n, S)
    BY <1>4 DEF ExistsBijection
<1>6. IsFiniteSet(S) /\ Cardinality(S) = n
    BY <1>2, <1>5, FS_Bijection
<1>7. Lists(K, S)
    BY <1>6 DEF Lists
<1> QED
    BY <1>6, <1>7, ListsOne

\* The keys that a VM is written under, in their order.
DiskList(vm) == [i \in 1 .. Len(vm.disks) |-> DiskKey(vm, i)]
CdromList(vm) == [i \in 1 .. Len(vm.cdroms) |-> CdromAttr(i - 1)]

\* The disk to boot from is the first of a VM as it is written, at slot 0; the others follow.
LEMMA DiskKeys ==
    ASSUME NEW vm, NEW now, Mine(vm, now)
    PROVE  /\ \A i \in 1 .. Len(vm.disks) :
                 /\ IsDiskKey(DiskKey(vm, i)) /\ Slot(DiskKey(vm, i)) = i - 1
                 /\ DiskKey(vm, i) = Bootdisk <=> i = 1
           /\ DOMAIN vm.disks = 1 .. Len(vm.disks) /\ Len(vm.disks) \in Nat \ {0}
<1>1. DOMAIN vm.disks = 1 .. Len(vm.disks) /\ Len(vm.disks) \in Nat \ {0}
    BY DEF Mine, IsVmSpec, IsSeq
<1>2. ASSUME NEW i \in 1 .. Len(vm.disks)
      PROVE  /\ IsDiskKey(DiskKey(vm, i)) /\ Slot(DiskKey(vm, i)) = i - 1
             /\ DiskKey(vm, i) = Bootdisk <=> i = 1
  <2>1. vm.disks[i].boot = (i = 1)
      BY <1>1 DEF Mine, IsVmSpec
  <2>2. i - 1 \in Nat
      BY <1>1
  <2>3. CASE i = 1
    <3>1. DiskKey(vm, i) = Bootdisk
        BY <2>1, <2>3 DEF DiskKey, DiskAttr
    <3>2. IsDiskKey(Bootdisk) /\ Slot(Bootdisk) = 0
        BY <2>2, DiskAttrIs
    <3>3. i - 1 = 0
        BY <2>3
    <3> QED
        BY <2>3, <3>1, <3>2, <3>3, Zenon
  <2>4. CASE i # 1
    <3>1. DiskKey(vm, i) = DiskAttr(i - 1, FALSE)
        BY <2>1, <2>4 DEF DiskKey
    <3>2. /\ IsDiskKey(DiskAttr(i - 1, FALSE)) /\ Slot(DiskAttr(i - 1, FALSE)) = i - 1
          /\ Bootdisk # DiskAttr(i - 1, FALSE)
        BY <2>2, DiskAttrIs
    <3> QED
        BY <2>4, <3>1, <3>2, Zenon
  <2> QED
      BY <2>3, <2>4
<1> QED
    BY <1>1, <1>2

\* So the disks and images of a VM as it is written are read in the order they were in.
LEMMA ListedKeys ==
    ASSUME NEW vm, NEW now, Mine(vm, now), NEW d,
           KeysIn(d, DiskKinds) = DiskAttrs(vm), KeysIn(d, CdromKinds) = CdromAttrs(vm)
    PROVE  KeysOf(d, DiskKinds) = DiskList(vm) /\ KeysOf(d, CdromKinds) = CdromList(vm)
<1>1. /\ \A i \in 1 .. Len(vm.disks) :
            /\ IsDiskKey(DiskKey(vm, i)) /\ Slot(DiskKey(vm, i)) = i - 1
      /\ DOMAIN vm.disks = 1 .. Len(vm.disks) /\ Len(vm.disks) \in Nat
    BY DiskKeys
<1>2. DOMAIN vm.cdroms = 1 .. Len(vm.cdroms) /\ Len(vm.cdroms) \in Nat
    BY DEF Mine, IsVmSpec, IsSeq
<1>3. DiskList(vm) = InOrder(DiskAttrs(vm))
  <2> DEFINE K == DiskList(vm)
             S == DiskAttrs(vm)
  <2>1. Len(K) = Len(vm.disks) /\ \A i \in 1 .. Len(K) : K[i] = DiskKey(vm, i)
      BY <1>1 DEF DiskList
  <2>2. IsSeq(K)
      BY <1>1, <2>1 DEF DiskList, IsSeq
  <2>3. S = {K[i] : i \in 1 .. Len(K)}
      BY <1>1, <2>1 DEF DiskAttrs
  <2>4. IsOrder(S)
    <3>1. \A k \in S : IsDiskKey(k)
        BY <1>1 DEF DiskAttrs
    <3> QED
        BY <3>1, SlotsOrder
  <2>5. \A i, j \in 1 .. Len(K) : i < j => Sooner(K[i], K[j])
      BY <1>1, <2>1 DEF Sooner
  <2> HIDE DEF K, S
  <2> QED
      BY <2>2, <2>3, <2>4, <2>5, OrderIs DEF K, S
<1>4. CdromList(vm) = InOrder(CdromAttrs(vm))
  <2> DEFINE K == CdromList(vm)
             S == CdromAttrs(vm)
  <2>1. Len(K) = Len(vm.cdroms) /\ \A i \in 1 .. Len(K) : K[i] = CdromAttr(i - 1)
      BY <1>2 DEF CdromList
  <2>2. IsSeq(K)
      BY <1>2, <2>1 DEF CdromList, IsSeq
  <2>3. S = {K[i] : i \in 1 .. Len(K)}
      BY <1>2, <2>1 DEF CdromAttrs
  <2>4. \A i \in 1 .. Len(K) : IsCdromKey(K[i]) /\ Slot(K[i]) = i - 1
    <3>1. ASSUME NEW i \in 1 .. Len(K) PROVE IsCdromKey(K[i]) /\ Slot(K[i]) = i - 1
      <4>1. i - 1 \in Nat
          BY <1>2, <2>1
      <4> QED
          BY <2>1, <4>1, CdromAttrIs
    <3> QED
        BY <3>1
  <2> HIDE DEF K, S
  <2>5. IsOrder(S)
      BY <2>3, <2>4, SlotsOrder
  <2>6. \A i, j \in 1 .. Len(K) : i < j => Sooner(K[i], K[j])
      BY <1>2, <2>1, <2>4 DEF Sooner
  <2> QED
      BY <2>2, <2>3, <2>5, <2>6, OrderIs DEF K, S
<1> QED
    BY <1>3, <1>4, KeysInOrder

\* Devices are the disks, and what is mounted are the images; none is there twice.  Slots are
\* positions, of disks where the disk to boot from is the first device.
Agrees(c) ==
    LET K == KeysOf(c, DiskKinds)
        L == KeysOf(c, CdromKinds)
    IN  /\ ToSet(c.device) = {c.attr[k] : k \in KeysIn(c, DiskKinds)}
        /\ c.fs = [i \in DOMAIN L |-> c.attr[L[i]]]
        /\ \A j, k \in KeysIn(c, DiskKinds) : c.attr[j] = c.attr[k] => j = k
        /\ \A j, k \in KeysIn(c, CdromKinds) : c.attr[j] = c.attr[k] => j = k
        /\ c.device[1] = c.attr[Bootdisk] => \A i \in DOMAIN K : Slot(K[i]) = i - 1
        /\ \A i \in DOMAIN L : Slot(L[i]) = i - 1

\* The configuration d has the VM as it was written.
Written(vm, d) ==
    /\ KeysIn(d, DiskKinds) = DiskAttrs(vm) /\ KeysIn(d, CdromKinds) = CdromAttrs(vm)
    /\ KeysOf(d, DiskKinds) = DiskList(vm) /\ KeysOf(d, CdromKinds) = CdromList(vm)
    /\ \A i \in 1 .. Len(vm.disks) : d.attr[DiskKey(vm, i)] = vm.disks[i].zvol
    /\ \A i \in 1 .. Len(vm.cdroms) : d.attr[CdromAttr(i - 1)] = vm.cdroms[i]
    /\ Vcpus \in DOMAIN d.attr /\ d.attr[Vcpus] = vm.vcpus
    /\ d.anet = vm.nics /\ d.fs = vm.cdroms
    /\ d.device = [i \in 1 .. Len(vm.disks) |-> vm.disks[i].zvol]
    /\ \A i, j \in 1 .. Len(vm.disks) : vm.disks[i].zvol = vm.disks[j].zvol => i = j
    /\ \A i, j \in 1 .. Len(vm.cdroms) : vm.cdroms[i] = vm.cdroms[j] => i = j

\* Nothing put before a sequence leaves it as it is.
LEMMA NothingBefore ==
    ASSUME NEW s, IsSeq(s)
    PROVE  << >> \o s = s
<1>1. s \in Seq(ToSet(s))
    BY SeqOfParts
<1> QED
    BY <1>1, ConcatEmptySeq

\* What was written is read back: a VM, found in what it was written to, is that VM.
LEMMA WrittenBack ==
    ASSUME NEW c, NEW vm, NEW d, Mine(vm, c), c.brand = "bhyve",
           UpdatedTo(ToZoneSpec(vm), c, c, d)
    PROVE  Written(vm, d)
<1> DEFINE s == ToZoneSpec(vm)
           zvols == [i \in 1 .. Len(vm.disks) |-> vm.disks[i].zvol]
<1>1. /\ KeysIn(s, DiskKinds) = DiskAttrs(vm) /\ KeysIn(s, CdromKinds) = CdromAttrs(vm)
      /\ s.anet = vm.nics /\ s.fs = vm.cdroms
      /\ s.device = [i \in DOMAIN vm.disks |-> vm.disks[i].zvol]
    BY SpecKeys, SpecMade DEF Mine
<1>2. /\ s.attr[Vcpus] = vm.vcpus /\ Vcpus \in DOMAIN s.attr
      /\ \A i \in DOMAIN vm.disks : s.attr[DiskKey(vm, i)] = vm.disks[i].zvol
      /\ \A i \in DOMAIN vm.cdroms : s.attr[CdromAttr(i - 1)] = vm.cdroms[i]
      /\ \A i \in DOMAIN vm.disks : DiskKey(vm, i) \in DOMAIN s.attr
      /\ \A i \in DOMAIN vm.cdroms : CdromAttr(i - 1) \in DOMAIN s.attr
  <2> DEFINE a == s.attr
  <2>1. IsVmSpec(vm)
      BY DEF Mine
  <2>2. /\ DOMAIN a = CdromAttrs(vm) \cup DiskAttrs(vm) \cup {Vcpus} \cup DOMAIN vm.attrs
        /\ a[Vcpus] = vm.vcpus
        /\ \A i \in DOMAIN vm.disks : a[DiskKey(vm, i)] = vm.disks[i].zvol
        /\ \A i \in DOMAIN vm.cdroms : a[CdromAttr(i - 1)] = vm.cdroms[i]
      BY <2>1, SpecAttrs
  <2> HIDE DEF a
  <2> QED
      BY <2>2 DEF DiskAttrs, CdromAttrs, a
<1>3. /\ DOMAIN vm.disks = 1 .. Len(vm.disks) /\ Len(vm.disks) \in Nat
      /\ DOMAIN vm.cdroms = 1 .. Len(vm.cdroms) /\ Len(vm.cdroms) \in Nat
      /\ IsSeq(vm.nics) /\ IsSeq(vm.cdroms)
    BY DEF Mine, IsVmSpec, IsSeq
<1>4. /\ DOMAIN d.attr = DOMAIN s.attr \cup (DOMAIN c.attr \ {k \in DOMAIN c.attr : IsManaged(k)})
      /\ \A k \in DOMAIN s.attr : d.attr[k] = s.attr[k]
      /\ \A kind \in Rewritten : d[kind] = (IF c[kind] = << >> THEN c[kind] ELSE << >>) \o s[kind]
      /\ IsInjective(d.device) /\ IsInjective(d.fs)
    BY DEF UpdatedTo
<1> HIDE DEF s
<1>5. \A kinds \in Kinds : KeysIn(d, kinds) = KeysIn(s, kinds)
  <2>1. ASSUME NEW kinds \in Kinds, NEW k, k[1] \in kinds PROVE IsManaged(k)
      BY <2>1 DEF Kinds, IsManaged
  <2> QED
      BY <1>4, <2>1 DEF KeysIn
<1>6. KeysIn(d, DiskKinds) = DiskAttrs(vm) /\ KeysIn(d, CdromKinds) = CdromAttrs(vm)
    BY <1>1, <1>5 DEF Kinds
<1>7. KeysOf(d, DiskKinds) = DiskList(vm) /\ KeysOf(d, CdromKinds) = CdromList(vm)
    BY <1>6, ListedKeys
<1>8. s.device = zvols /\ IsSeq(s.device)
  <2>1. s.device = zvols
      BY <1>1, <1>3
  <2>2. Len(zvols) = Len(vm.disks)
      BY <1>3
  <2> QED
      BY <1>3, <2>1, <2>2 DEF IsSeq
<1>9. d.anet = vm.nics /\ d.fs = vm.cdroms /\ d.device = zvols
  <2>1. ASSUME NEW kind \in {"anet", "fs", "device"} PROVE d[kind] = s[kind]
    <3>1. d[kind] = << >> \o s[kind]
        BY <1>4 DEF Rewritten
    <3>2. IsSeq(s[kind])
        BY <1>1, <1>3, <1>8
    <3> QED
        BY <3>1, <3>2, NothingBefore
  <2> QED
      BY <1>1, <1>8, <2>1
<1>10. \A i, j \in 1 .. Len(vm.disks) : vm.disks[i].zvol = vm.disks[j].zvol => i = j
  <2>1. \A i \in 1 .. Len(vm.disks) : d.device[i] = vm.disks[i].zvol
      BY <1>9
  <2>2. DOMAIN d.device = 1 .. Len(vm.disks)
      BY <1>9
  <2> QED
      BY <1>4, <2>1, <2>2 DEF IsInjective
<1>11. \A i, j \in 1 .. Len(vm.cdroms) : vm.cdroms[i] = vm.cdroms[j] => i = j
    BY <1>3, <1>4, <1>9 DEF IsInjective
<1> HIDE DEF zvols
<1> QED
    BY <1>2, <1>3, <1>4, <1>6, <1>7, <1>9, <1>10, <1>11 DEF Written, zvols

\* What was written agrees with itself.
LEMMA WrittenAgrees ==
    ASSUME NEW vm, NEW now, Mine(vm, now), NEW d, Written(vm, d)
    PROVE  Agrees(d)
<1> DEFINE K == KeysOf(d, DiskKinds)
           L == KeysOf(d, CdromKinds)
<1>1. /\ \A i \in 1 .. Len(vm.disks) :
            IsDiskKey(DiskKey(vm, i)) /\ Slot(DiskKey(vm, i)) = i - 1
      /\ DOMAIN vm.disks = 1 .. Len(vm.disks) /\ Len(vm.disks) \in Nat \ {0}
    BY DiskKeys
<1>2. /\ DOMAIN vm.cdroms = 1 .. Len(vm.cdroms) /\ Len(vm.cdroms) \in Nat
      /\ vm.cdroms = [i \in 1 .. Len(vm.cdroms) |-> vm.cdroms[i]]
    BY DEF Mine, IsVmSpec, IsSeq
<1>3. /\ K = DiskList(vm) /\ L = CdromList(vm)
      /\ \A i \in 1 .. Len(vm.disks) : d.attr[DiskKey(vm, i)] = vm.disks[i].zvol
      /\ \A i \in 1 .. Len(vm.cdroms) : d.attr[CdromAttr(i - 1)] = vm.cdroms[i]
      /\ d.fs = vm.cdroms
      /\ d.device = [i \in 1 .. Len(vm.disks) |-> vm.disks[i].zvol]
      /\ \A i, j \in 1 .. Len(vm.disks) : vm.disks[i].zvol = vm.disks[j].zvol => i = j
      /\ \A i, j \in 1 .. Len(vm.cdroms) : vm.cdroms[i] = vm.cdroms[j] => i = j
    BY DEF Written
<1>4. /\ KeysIn(d, DiskKinds) = {DiskKey(vm, i) : i \in 1 .. Len(vm.disks)}
      /\ KeysIn(d, CdromKinds) = {CdromAttr(i - 1) : i \in 1 .. Len(vm.cdroms)}
    BY <1>1, <1>2 DEF Written, DiskAttrs, CdromAttrs
<1> HIDE DEF K, L
<1>5. ToSet(d.device) = {d.attr[k] : k \in KeysIn(d, DiskKinds)}
  <2>1. ToSet(d.device) = {vm.disks[i].zvol : i \in 1 .. Len(vm.disks)}
    <3>1. DOMAIN d.device = 1 .. Len(vm.disks)
        BY <1>3
    <3>2. \A i \in 1 .. Len(vm.disks) : d.device[i] = vm.disks[i].zvol
        BY <1>3
    <3> QED
        BY <3>1, <3>2 DEF ToSet
  <2> QED
      BY <1>3, <1>4, <2>1
<1>6. d.fs = [i \in DOMAIN L |-> d.attr[L[i]]]
  <2>1. DOMAIN L = 1 .. Len(vm.cdroms) /\ \A i \in 1 .. Len(vm.cdroms) : L[i] = CdromAttr(i - 1)
      BY <1>3 DEF CdromList
  <2>2. [i \in DOMAIN L |-> d.attr[L[i]]] = [i \in 1 .. Len(vm.cdroms) |-> vm.cdroms[i]]
      BY <1>3, <2>1
  <2> QED
      BY <1>2, <1>3, <2>2
<1>7. \A j, k \in KeysIn(d, DiskKinds) : d.attr[j] = d.attr[k] => j = k
    BY <1>3, <1>4
<1>8. \A j, k \in KeysIn(d, CdromKinds) : d.attr[j] = d.attr[k] => j = k
    BY <1>3, <1>4
<1>9. \A i \in DOMAIN K : Slot(K[i]) = i - 1
    BY <1>1, <1>3 DEF DiskList
<1>10. \A i \in DOMAIN L : Slot(L[i]) = i - 1
  <2>1. ASSUME NEW i \in 1 .. Len(vm.cdroms) PROVE Slot(CdromAttr(i - 1)) = i - 1
    <3>1. i - 1 \in Nat
        BY <1>2
    <3> QED
        BY <3>1, CdromAttrIs
  <2> QED
      BY <1>3, <2>1 DEF CdromList
<1> QED
    BY <1>5, <1>6, <1>7, <1>8, <1>9, <1>10 DEF Agrees, K, L

\* Disks 0 .. n - 1, under the keys that key gives, with no image.
LEMMA FirstAgrees ==
    ASSUME NEW c, AttrOK(c), NEW n \in Nat \ {0}, NEW b \in 0 .. n - 1, NEW key,
           KeysIn(c, DiskKinds) = {key[j] : j \in 0 .. n - 1}, KeysIn(c, CdromKinds) = {},
           \A j \in 0 .. n - 1 : IsDiskKey(key[j]) /\ c.attr[key[j]] = j,
           c.attr[Bootdisk] = b, b = 0 => \A j \in 0 .. n - 1 : Slot(key[j]) = j,
           c.device = [i \in 1 .. n |-> i - 1], c.fs = << >>
    PROVE  Agrees(c)
<1> DEFINE K == KeysOf(c, DiskKinds)
           L == KeysOf(c, CdromKinds)
           S == KeysIn(c, DiskKinds)
<1>1. \A j \in 0 .. n - 1 : j + 1 \in 1 .. n /\ (j + 1) - 1 = j
    OBVIOUS
<1>2. ToSet(c.device) = {c.attr[k] : k \in S}
  <2>1. DOMAIN c.device = 1 .. n /\ \A i \in 1 .. n : c.device[i] = i - 1
      OBVIOUS
  <2> DEFINE device == c.device
  <2> HIDE DEF device
  <2>4. ASSUME NEW j \in 0 .. n - 1 PROVE j + 1 \in DOMAIN device /\ device[j + 1] = j
      BY <1>1, <2>1 DEF device
  <2>5. ASSUME NEW i \in DOMAIN device PROVE device[i] \in 0 .. n - 1
      BY <2>1 DEF device
  <2> DEFINE numbers == 0 .. n - 1
             values == {device[i] : i \in DOMAIN device}
  <2>6. values \subseteq numbers
      BY <2>5
  <2>7. numbers \subseteq values
    <3>1. ASSUME NEW j \in numbers PROVE j \in values
        BY <2>4
    <3> QED
        BY <3>1
  <2>8. ToSet(device) = values
      BY DEF ToSet
  <2> HIDE DEF numbers, values
  <2>9. values = numbers
      BY <2>6, <2>7
  <2>2. ToSet(c.device) = 0 .. n - 1
      BY <2>8, <2>9 DEF device, numbers
  <2>3. {c.attr[k] : k \in S} = 0 .. n - 1
      OBVIOUS
  <2> QED
      BY <2>2, <2>3
<1>3. L = << >>
  <2>1. Lists(L, {})
      BY KeysAreListed DEF Kinds
  <2>2. Cardinality({}) = 0
      BY FS_EmptySet
  <2> HIDE DEF L
  <2>3. Len(L) = 0 /\ L = [i \in 1 .. Len(L) |-> L[i]]
      BY <2>1, <2>2 DEF Lists, IsSeq
  <2> QED
      BY <2>3
<1>4. c.fs = [i \in DOMAIN L |-> c.attr[L[i]]] /\ \A i \in DOMAIN L : Slot(L[i]) = i - 1
    BY <1>3
<1>5. \A j, k \in S : c.attr[j] = c.attr[k] => j = k
    OBVIOUS
<1>6. c.device[1] = c.attr[Bootdisk] => \A i \in DOMAIN K : Slot(K[i]) = i - 1
  <2>1. SUFFICES ASSUME c.device[1] = c.attr[Bootdisk] PROVE \A i \in DOMAIN K : Slot(K[i]) = i - 1
      OBVIOUS
  <2>2. \A j \in 0 .. n - 1 : Slot(key[j]) = j
      BY <2>1
  <2> DEFINE M == [i \in 1 .. n |-> key[i - 1]]
  <2>3. Len(M) = n /\ IsSeq(M)
      BY DEF IsSeq
  <2>4. \A i \in 1 .. n : M[i] = key[i - 1] /\ i - 1 \in 0 .. n - 1
      OBVIOUS
  <2>10. ASSUME NEW j \in 0 .. n - 1 PROVE j + 1 \in 1 .. n /\ M[j + 1] = key[j]
      BY <1>1, <2>4
  <2>11. {M[i] : i \in 1 .. n} = {key[j] : j \in 0 .. n - 1}
    <3> HIDE DEF M
    <3> QED
        BY <2>4, <2>10
  <2>5. S = {M[i] : i \in 1 .. Len(M)}
      BY <2>3, <2>11
  <2>6. IsOrder(S)
    <3>1. \A k \in S : IsDiskKey(k)
        OBVIOUS
    <3> QED
        BY <3>1, SlotsOrder
  <2>7. \A i \in 1 .. n : Slot(M[i]) = i - 1
      BY <2>2, <2>4
  <2> HIDE DEF M, S, K
  <2>8. \A i, j \in 1 .. Len(M) : i < j => Sooner(M[i], M[j])
      BY <2>3, <2>7 DEF Sooner
  <2>9. K = M
      BY <2>3, <2>5, <2>6, <2>8, OrderIs, KeysInOrder DEF S, K
  <2> QED
      BY <2>3, <2>7, <2>9 DEF IsSeq
<1> QED
    BY <1>2, <1>4, <1>5, <1>6 DEF Agrees

\* The VMs there may be at first agree, and their disks are there.
LEMMA AgreesAtFirst ==
    VmInit => (IsVm => /\ Agrees(config)
                       /\ \A k \in KeysIn(config, DiskKinds) : config.attr[k] \in DOMAIN members)
<1> SUFFICES ASSUME VmInit, IsVm
             PROVE  /\ Agrees(config)
                    /\ \A k \in KeysIn(config, DiskKinds) : config.attr[k] \in DOMAIN members
    OBVIOUS
<1>1. config \notin {CreatedZone, ByHandToo(CreatedZone)}
    BY CreatedZoneAlike, ByHandAlike DEF IsVm
<1>2. PICK layout \in Layouts :
        /\ config \in {CreatedVm(layout)} \cup
                         IF layout[1] = 2 /\ layout[2] = 0 THEN {MadeByHand(CreatedVm(layout))} ELSE {}
        /\ members = [d \in 0 .. layout[1] - 1 \cup {Dataset} |-> Disk(d)]
    BY <1>1 DEF VmInit
<1> DEFINE c == CreatedVm(layout)
           n == layout[1]
           b == layout[2]
           key == [j \in 0 .. n - 1 |-> FirstKey(b, j)]
<1>3. /\ Alike(c, c) /\ c.brand = "bhyve" /\ c.attr[Bootdisk] = b
      /\ n \in 1 .. MaxDisks /\ b \in 0 .. n - 1
      /\ KeysIn(c, DiskKinds) = {FirstKey(b, j) : j \in 0 .. n - 1}
      /\ \A j \in 0 .. n - 1 : c.attr[FirstKey(b, j)] = j
      /\ KeysIn(c, CdromKinds) = {} /\ c.fs = << >>
      /\ c.device = [i \in 1 .. n |-> i - 1]
    BY CreatedVmAlike
<1>4. n = 2 /\ b = 0 => <<"disk", 1>> \in DOMAIN c.attr
    BY CreatedVmAlike
<1>5. config = c \/ (n = 2 /\ b = 0 /\ config = MadeByHand(c))
    BY <1>2
<1>6. DOMAIN members = 0 .. n - 1 \cup {Dataset}
    BY <1>2
<1>7. n \in Nat \ {0}
    BY <1>3, VmsAssumption
<1> HIDE DEF c, n, b
<1>8. CASE config = c
  <2>1. \A j \in 0 .. n - 1 : key[j] = FirstKey(b, j)
      OBVIOUS
  <2>2. KeysIn(c, DiskKinds) = {key[j] : j \in 0 .. n - 1}
      BY <1>3, <2>1
  <2>3. ASSUME NEW j \in 0 .. n - 1
        PROVE  IsDiskKey(key[j]) /\ c.attr[key[j]] = j /\ (b = 0 => Slot(key[j]) = j)
    <3>1. j \in Nat
        BY <1>7
    <3>2. CASE j = b
        BY <1>3, <2>1, <3>1, <3>2, DiskAttrIs DEF FirstKey
    <3>3. CASE j # b
      <4>1. DiskAttr(j, FALSE) = FirstKey(b, j)
          BY <3>1, <3>3, DiskAttrIs DEF FirstKey
      <4> QED
          BY <1>3, <2>1, <3>1, <4>1, DiskAttrIs
    <3> QED
        BY <3>2, <3>3
  <2>4. AttrOK(c)
      BY <1>3 DEF Alike
  <2> HIDE DEF key
  <2>5. Agrees(c)
      BY <1>3, <1>7, <2>2, <2>3, <2>4, FirstAgrees
  <2> QED
      BY <1>3, <1>6, <1>8, <2>5
<1>9. CASE n = 2 /\ b = 0 /\ config = MadeByHand(c)
  <2> DEFINE second == <<"disk", 1>>
             by == [j \in 0 .. 1 |-> IF j = 0 THEN Bootdisk ELSE BareDisk]
             d == MadeByHand(c)
  <2>1. /\ Alike(d, d) /\ d.brand = "bhyve" /\ d.attr[Bootdisk] = c.attr[Bootdisk]
        /\ KeysIn(d, DiskKinds) = (KeysIn(c, DiskKinds) \ {second}) \cup {BareDisk}
        /\ KeysIn(d, CdromKinds) = KeysIn(c, CdromKinds)
        /\ d.attr[BareDisk] = c.attr[second]
        /\ d.device = c.device /\ d.fs = c.fs
      BY <1>3, <1>4, <1>9, HandMadeAlike
  <2> HIDE DEF d
  <2>2. 0 .. n - 1 = {0, 1} /\ 0 .. 1 = {0, 1}
      BY <1>9
  <2>3. FirstKey(b, 0) = Bootdisk /\ FirstKey(b, 1) = second /\ second # Bootdisk
      BY <1>9 DEF FirstKey, Bootdisk
  <2> HIDE DEF second
  <2>12. {FirstKey(b, j) : j \in {0, 1}} = {FirstKey(b, 0), FirstKey(b, 1)}
      OBVIOUS
  <2>13. KeysIn(c, DiskKinds) = {FirstKey(b, 0), FirstKey(b, 1)}
      BY <1>3, <2>2, <2>12
  <2>14. c.attr[FirstKey(b, 0)] = 0 /\ c.attr[FirstKey(b, 1)] = 1
      BY <1>3, <2>2
  <2>4. KeysIn(c, DiskKinds) = {Bootdisk, second} /\ c.attr[Bootdisk] = 0 /\ c.attr[second] = 1
      BY <2>3, <2>13, <2>14
  <2>5. KeysIn(d, DiskKinds) = {Bootdisk, BareDisk}
      BY <2>1, <2>3, <2>4
  <2>6. by[0] = Bootdisk /\ by[1] = BareDisk
      OBVIOUS
  <2> HIDE DEF by
  <2>7. \A j \in {0, 1} : IsDiskKey(by[j]) /\ d.attr[by[j]] = j
      BY <2>1, <2>4, <2>6 DEF IsDiskKey
  <2>15. 0 \in Nat
      OBVIOUS
  <2>16. Slot(Bootdisk) = 0
      BY <2>15, DiskAttrIs
  <2>8. Slot(by[0]) = 0 /\ Slot(by[1]) = 1
      BY <2>6, <2>16 DEF Slot
  <2>9. KeysIn(d, DiskKinds) = {by[j] : j \in {0, 1}}
      BY <2>5, <2>6
  <2>10. AttrOK(d)
      BY <2>1 DEF Alike
  <2>11. Agrees(d)
    <3>1. \A j \in 0 .. n - 1 : Slot(by[j]) = j
        BY <2>2, <2>8
    <3>2. \A j \in 0 .. n - 1 : IsDiskKey(by[j]) /\ d.attr[by[j]] = j
        BY <2>2, <2>7
    <3>3. KeysIn(d, DiskKinds) = {by[j] : j \in 0 .. n - 1}
        BY <2>2, <2>9
    <3>4. /\ KeysIn(d, CdromKinds) = {} /\ d.attr[Bootdisk] = b
          /\ d.device = [i \in 1 .. n |-> i - 1] /\ d.fs = << >>
        BY <1>3, <2>1
    <3> QED
        BY <1>3, <1>7, <2>10, <3>1, <3>2, <3>3, <3>4, FirstAgrees
  <2> QED
      BY <1>6, <1>9, <2>2, <2>7, <2>9, <2>11 DEF d
<1> QED
    BY <1>5, <1>8, <1>9

-----------------------------------------------------------------------------
(* What requests that keep apart have found is so.                         *)

\* What a request that changes a configuration is to make of it.
Wanted(q, c) ==
    IF q.op = "update_zone" THEN ZonePatched(Read(c), q.name, q.new)
    ELSE ToZoneSpec(WantedOf(q, SpecFrom(Read(c))))

\* The zvols of a configuration.
ZvolsOf(c) == {c.attr[k] : k \in KeysIn(c, DiskKinds)}

\* The disk or the image that a request means is the one that its index leads to.
Meant(q, vm) ==
    /\ q.op \in {"resize_disk", "remove_disk"} /\ q.stage = "find" /\ q.index < Len(vm.disks) =>
          q.meant \in {vm.disks[q.index + 1].zvol, NoDisk}
    /\ q.op \in {"resize_disk", "remove_disk"} /\ q.stage \in {"size", "act", "zonecfg", "purge"} =>
          q.meant \in {q.disk, NoDisk}
    /\ q.op = "remove_disk" /\ q.stage \in {"act", "zonecfg"} =>
          q.index + 1 \in DOMAIN vm.disks \ {1} /\ q.disk = vm.disks[q.index + 1].zvol
    /\ q.op = "detach_cdrom" /\ q.stage = "find" /\ q.index < Len(vm.cdroms) =>
          q.meant = vm.cdroms[q.index + 1]
    /\ q.op = "detach_cdrom" /\ q.stage \in {"act", "zonecfg"} =>
          q.index + 1 \in DOMAIN vm.cdroms /\ q.meant = vm.cdroms[q.index + 1]

\* Where no request met another and none was dropped, what a request has found is so.
Fresh(q, c, m) ==
    LET vm == SpecFrom(Read(c))
    IN  /\ q.stage \in {"act", "write"} /\ q.op \in ConfigOps => q.spec = vm
        /\ q.stage = "act" /\ q.op = "update_zone" => q.spec = ZonePatched(Read(c), q.name, q.new)
        /\ q.stage = "zonecfg" =>
              q.op \in ConfigOps \cup {"update_zone"} /\ q.spec = RenderUpdate(Read(c), Wanted(q, c))
        /\ q.stage = "zonecfg" /\ q.op \in ConfigOps => Mine(WantedOf(q, vm), c)
        /\ q.stage \in {"write", "zonecfg"} /\ q.op = "add_disk" => Len(vm.disks) \in DOMAIN m
        /\ Meant(q, vm)
        /\ q.stage = "size" => q.op = "resize_disk" /\ q.disk \in ZvolsOf(c)
        /\ q.stage = "act" /\ q.op = "resize_disk" => q.disk \in DOMAIN m /\ q.new > m[q.disk].size
        /\ q.stage = "purge" => q.disk \notin ZvolsOf(c)

FreshInv ==
    Calm =>
        /\ sizes \in {<< >>, <<SizesNow>>}
        /\ IsVm => ZvolsOf(config) \subseteq DOMAIN members
        /\ \A r \in Requests : Fresh(req[r], config, members)

\* Where no request met another, the VM agrees, and an update is of a VM read from it.
UpdatesVm(q, c) ==
    q.stage = "zonecfg" =>
        \E vm : Mine(vm, c) /\ q.spec = RenderUpdate(Read(c), ToZoneSpec(vm))
AgreesInv ==
    ~overlapped /\ IsVm => Agrees(config) /\ \A r \in Requests : UpdatesVm(req[r], config)

\* The invariants together.
VmInv == HandledInv /\ RollbackInv
KnownInv == VmInv /\ AgreesInv /\ FreshInv

\* A request that does not work has found nothing.
LEMMA IdleIsFresh ==
    ASSUME NEW q, q.stage \notin Working, NEW c, NEW m
    PROVE  Fresh(q, c, m) /\ UpdatesVm(q, c)
BY DEF Fresh, Meant, Working, UpdatesVm

\* What a step of one request must see to, that leaves the configuration as it is.
LEMMA KnownOn ==
    ASSUME KnownInv, NEW r \in Requests, VmStep(r), config' = config,
           Calm' => /\ sizes' \in {<< >>, <<SizesNow'>>}
                    /\ IsVm => ZvolsOf(config) \subseteq DOMAIN members'
                    /\ Fresh(req'[r], config, members'),
           ~overlapped' /\ IsVm => UpdatesVm(req'[r], config)
    PROVE  AgreesInv' /\ FreshInv'
<1>1. VmTyped /\ SoloVm
    BY DEF KnownInv, VmInv, RollbackInv
<1>2. ASSUME ~overlapped', NEW q \in Requests, q # r
      PROVE  q \notin Busy' /\ req'[q].stage \notin Working
  <2>1. q \notin Busy'
      BY <1>1, <1>2, OthersRest
  <2> QED
      BY <2>1 DEF Busy
<1>3. AgreesInv'
  <2> SUFFICES ASSUME ~overlapped', IsVm'
               PROVE  Agrees(config') /\ \A q \in Requests : UpdatesVm(req'[q], config')
      BY DEF AgreesInv
  <2>1. ~overlapped /\ IsVm
      BY DEF VmStep, IsVm
  <2>2. Agrees(config')
      BY <2>1 DEF KnownInv, AgreesInv
  <2>3. ASSUME NEW q \in Requests PROVE UpdatesVm(req'[q], config')
    <3>1. CASE q = r
        BY <2>1, <3>1
    <3>2. CASE q # r
        BY <1>2, <3>2, IdleIsFresh
    <3> QED
        BY <3>1, <3>2
  <2> QED
      BY <2>2, <2>3
<1>4. FreshInv'
  <2> SUFFICES ASSUME Calm'
               PROVE  /\ sizes' \in {<< >>, <<SizesNow'>>}
                      /\ IsVm' => ZvolsOf(config') \subseteq DOMAIN members'
                      /\ \A q \in Requests : Fresh(req'[q], config', members')
      BY DEF FreshInv
  <2>1. ~overlapped' /\ (IsVm' <=> IsVm)
      BY DEF Calm, IsVm
  <2>2. ASSUME NEW q \in Requests PROVE Fresh(req'[q], config', members')
    <3>1. CASE q = r
        BY <3>1
    <3>2. CASE q # r
        BY <1>2, <2>1, <3>2, IdleIsFresh
    <3> QED
        BY <3>1, <3>2
  <2> QED
      BY <2>1, <2>2
<1> QED
    BY <1>3, <1>4

\* Before a step that ends calm, all was calm.
LEMMA CalmBefore ==
    ASSUME KnownInv, NEW r \in Requests, VmStep(r), Calm'
    PROVE  /\ Calm /\ ~overlapped
           /\ \A q \in Requests : q # r => q \notin Busy
BY OthersRest DEF KnownInv, VmInv, RollbackInv, VmStep, Calm, VmTyped

\* What a handler of a calm VM or zone finds.
LEMMA CalmListing ==
    ASSUME KnownInv, Calm
    PROVE  Listing.config = Read(config)
BY DEF KnownInv, VmInv, RollbackInv, ListedVm, Listing, Host

\* A step that leaves members as they are.
LEMMA QuietKnown ==
    ASSUME KnownInv, NEW r \in Requests, VmStep(r), config' = config, members' = members,
           sizes' \in {sizes, << >>, <<SizeListing>>},
           Calm' => Fresh(req'[r], config, members),
           ~overlapped' /\ IsVm => UpdatesVm(req'[r], config)
    PROVE  AgreesInv' /\ FreshInv'
<1>1. SizesNow' = SizesNow
    BY DEF SizesNow
<1>2. ASSUME Calm'
      PROVE  /\ sizes' \in {<< >>, <<SizesNow'>>}
             /\ IsVm => ZvolsOf(config) \subseteq DOMAIN members'
  <2>1. Calm
      BY <1>2, CalmBefore
  <2>2. sizes \in {<< >>, <<SizesNow>>} /\ (IsVm => ZvolsOf(config) \subseteq DOMAIN members)
      BY <2>1 DEF KnownInv, FreshInv
  <2>3. SizeListing = SizesNow
      BY <2>2 DEF SizeListing
  <2> QED
      BY <1>1, <2>2, <2>3
<1> QED
    BY <1>2, KnownOn

\* Reading back leaves the keys, and what is found under them, as they are.
LEMMA KeysRead ==
    ASSUME NEW c, NEW kinds
    PROVE  /\ KeysIn(Read(c), kinds) = KeysIn(c, kinds)
           /\ KeysOf(Read(c), kinds) = KeysOf(c, kinds)
           /\ ZvolsOf(Read(c)) = ZvolsOf(c)
<1>1. Read(c).attr = c.attr
    BY ReadIs
<1>2. \A kinds0 : KeysIn(Read(c), kinds0) = KeysIn(c, kinds0)
    BY <1>1 DEF KeysIn
<1> QED
    BY <1>1, <1>2, KeysInOrder DEF ZvolsOf

\* What the API shows, vm, and what a handler finds, spec, of a configuration c.
ShownAs(c, vm, spec) ==
    LET K == KeysOf(c, DiskKinds)
        L == KeysOf(c, CdromKinds)
    IN  /\ DOMAIN spec.disks = 1 .. Len(spec.disks) /\ DOMAIN vm.disks = DOMAIN spec.disks
        /\ DOMAIN spec.cdroms = 1 .. Len(spec.cdroms) /\ DOMAIN vm.cdroms = DOMAIN spec.cdroms
        /\ DOMAIN K = DOMAIN spec.disks /\ DOMAIN L = DOMAIN spec.cdroms
        /\ \A i \in DOMAIN spec.disks :
              vm.disks[i].index = Slot(K[i]) /\ vm.disks[i].zvol = spec.disks[i].zvol
        /\ \A i \in DOMAIN spec.cdroms :
              vm.cdroms[i].index = Slot(L[i]) /\ vm.cdroms[i].iso = spec.cdroms[i]
        /\ Zvols(vm) = [i \in DOMAIN spec.disks |-> spec.disks[i].zvol]
        /\ Images(vm) = spec.cdroms
        /\ vm.vcpus = spec.vcpus /\ vm.nics = spec.nics
        /\ ToSet(Zvols(vm)) = ZvolsOf(c)
        /\ ZvolsOf(c) = {spec.disks[i].zvol : i \in DOMAIN spec.disks}

\* What the API shows is what a handler finds.
LEMMA ShownIs ==
    ASSUME NEW c, AttrOK(c)
    PROVE  ShownAs(c, FromZoneConfig(c), SpecFrom(c))
<1> DEFINE vm == FromZoneConfig(c)
           spec == SpecFrom(c)
           K == KeysOf(c, DiskKinds)
           L == KeysOf(c, CdromKinds)
<1>1. SpecOf(c, spec)
    BY SpecFound
<1>2. /\ vm.disks = [i \in DOMAIN K |-> [index |-> Slot(K[i]), zvol |-> c.attr[K[i]],
                                        boot |-> K[i] = Bootdisk]]
      /\ vm.cdroms = [i \in DOMAIN L |-> [index |-> Slot(L[i]), iso |-> c.attr[L[i]]]]
      /\ vm.nics = c.anet
      /\ vm.vcpus = IF Vcpus \in DOMAIN c.attr THEN c.attr[Vcpus] ELSE 1
    BY DEF FromZoneConfig
<1> HIDE DEF vm, spec
<1>3. /\ Lists(K, KeysIn(c, DiskKinds)) /\ Lists(L, KeysIn(c, CdromKinds))
      /\ IsSeq(spec.disks) /\ Len(spec.disks) = Len(K)
      /\ \A i \in 1 .. Len(K) : spec.disks[i].zvol = c.attr[K[i]]
      /\ IsSeq(spec.cdroms) /\ Len(spec.cdroms) = Len(L)
      /\ \A i \in 1 .. Len(L) : spec.cdroms[i] = c.attr[L[i]]
      /\ spec.nics = c.anet
      /\ spec.vcpus = IF Vcpus \in DOMAIN c.attr THEN c.attr[Vcpus] ELSE 1
    BY <1>1 DEF SpecOf
<1> HIDE DEF K, L
<1>4. /\ DOMAIN K = 1 .. Len(K) /\ DOMAIN L = 1 .. Len(L)
      /\ DOMAIN spec.disks = 1 .. Len(K) /\ DOMAIN spec.cdroms = 1 .. Len(L)
      /\ spec.cdroms = [i \in 1 .. Len(L) |-> spec.cdroms[i]]
    BY <1>3 DEF Lists, IsSeq
<1>5. /\ KeysIn(c, DiskKinds) = {K[i] : i \in 1 .. Len(K)}
    BY <1>3 DEF Lists
<1>6. \A i \in DOMAIN K : vm.disks[i].index = Slot(K[i]) /\ vm.disks[i].zvol = c.attr[K[i]]
    BY <1>2
<1>7. \A i \in DOMAIN L : vm.cdroms[i].index = Slot(L[i]) /\ vm.cdroms[i].iso = c.attr[L[i]]
    BY <1>2
<1>8. DOMAIN vm.disks = DOMAIN K /\ DOMAIN vm.cdroms = DOMAIN L
    BY <1>2
<1>9. Zvols(vm) = [i \in DOMAIN spec.disks |-> spec.disks[i].zvol]
    BY <1>3, <1>4, <1>6, <1>8 DEF Zvols
<1>10. Images(vm) = spec.cdroms
  <2>1. Images(vm) = [i \in 1 .. Len(L) |-> spec.cdroms[i]]
      BY <1>3, <1>4, <1>7, <1>8 DEF Images
  <2> QED
      BY <1>4, <2>1
<1>11. ZvolsOf(c) = {spec.disks[i].zvol : i \in DOMAIN spec.disks}
    BY <1>3, <1>4, <1>5 DEF ZvolsOf
<1>12. ToSet(Zvols(vm)) = ZvolsOf(c)
    BY <1>9, <1>11 DEF ToSet
<1>14. /\ DOMAIN spec.disks = 1 .. Len(spec.disks) /\ DOMAIN vm.disks = DOMAIN spec.disks
       /\ DOMAIN spec.cdroms = 1 .. Len(spec.cdroms) /\ DOMAIN vm.cdroms = DOMAIN spec.cdroms
       /\ DOMAIN K = DOMAIN spec.disks /\ DOMAIN L = DOMAIN spec.cdroms
    BY <1>3, <1>4, <1>8
<1>15. \A i \in DOMAIN spec.disks :
         vm.disks[i].index = Slot(K[i]) /\ vm.disks[i].zvol = spec.disks[i].zvol
    BY <1>3, <1>4, <1>6
<1>16. \A i \in DOMAIN spec.cdroms :
         vm.cdroms[i].index = Slot(L[i]) /\ vm.cdroms[i].iso = spec.cdroms[i]
    BY <1>3, <1>4, <1>7
<1>17. vm.vcpus = spec.vcpus /\ vm.nics = spec.nics
    BY <1>2, <1>3
<1>13. ShownAs(c, vm, spec)
    BY <1>9, <1>10, <1>11, <1>12, <1>14, <1>15, <1>16, <1>17, Zenon DEF ShownAs, K, L
<1> QED
    BY <1>13 DEF vm, spec

\* The VM as a handler would find it now, and as it is shown.
LEMMA VmNow ==
    ASSUME HandledInv, IsVm
    PROVE  /\ Alike(Read(config), config) /\ AttrOK(Read(config)) /\ Read(config).brand = "bhyve"
           /\ Mine(SpecFrom(Read(config)), config)
<1>1. Alike(Read(config), config) /\ Read(config).brand = "bhyve"
    BY ReadAlike, ReadIs DEF HandledInv, IsVm
<1>2. AttrOK(Read(config))
    BY <1>1 DEF Alike
<1> QED
    BY <1>1, <1>2, SpecIsMine

\* The disk or image asked for is the one shown at that index.
LEMMA AskKnown ==
    ASSUME KnownInv, NEW r \in Requests, Ask(r), VmStep(r)
    PROVE  AgreesInv' /\ FreshInv'
<1> DEFINE vm == SpecFrom(Read(config))
<1>1. PICK q : /\ IsVmRequest(q) /\ Becomes(r, q) /\ q.stage = "find"
               /\ q.op \in IF IsVm THEN VmOps ELSE ZoneOps
               /\ \E at \in Targets(q.op) : q.index = at.index /\ q.meant = at.meant
    BY AskIs
<1>2. UNCHANGED <<config, members, sizes>>
    BY DEF Ask
<1>3. req'[r] = q
  <2>1. VmTyped
      BY DEF KnownInv, VmInv, RollbackInv
  <2> QED
      BY <1>1, <2>1, BecomesStep
<1>4. ASSUME Calm' PROVE Meant(q, vm)
  <2>1. ~overlapped
      BY <1>4, CalmBefore
  <2> SUFFICES ASSUME q.op \in {"resize_disk", "remove_disk", "detach_cdrom"}
               PROVE  /\ q.op \in {"resize_disk", "remove_disk"} /\ q.index < Len(vm.disks) =>
                            q.meant \in {vm.disks[q.index + 1].zvol, NoDisk}
                      /\ q.op = "detach_cdrom" /\ q.index < Len(vm.cdroms) =>
                            q.meant = vm.cdroms[q.index + 1]
      BY <1>1 DEF Meant
  <2>2. IsVm
      BY <1>1 DEF ZoneOps
  <2>3. AttrOK(Read(config)) /\ Agrees(config)
      BY <2>1, <2>2, VmNow DEF KnownInv, VmInv, AgreesInv
  <2>4. PICK at \in Targets(q.op) : q.index = at.index /\ q.meant = at.meant
      BY <1>1
  <2> DEFINE K == KeysOf(config, DiskKinds)
             L == KeysOf(config, CdromKinds)
  <2>5. /\ KeysOf(Read(config), DiskKinds) = K /\ KeysOf(Read(config), CdromKinds) = L
      BY KeysRead
  <2>6. /\ DOMAIN vm.disks = 1 .. Len(vm.disks) /\ DOMAIN Vm.disks = DOMAIN vm.disks
        /\ DOMAIN vm.cdroms = 1 .. Len(vm.cdroms) /\ DOMAIN Vm.cdroms = DOMAIN vm.cdroms
        /\ DOMAIN K = DOMAIN vm.disks /\ DOMAIN L = DOMAIN vm.cdroms
        /\ \A i \in DOMAIN vm.disks :
              Vm.disks[i].index = Slot(K[i]) /\ Vm.disks[i].zvol = vm.disks[i].zvol
        /\ \A i \in DOMAIN vm.cdroms :
              Vm.cdroms[i].index = Slot(L[i]) /\ Vm.cdroms[i].iso = vm.cdroms[i]
      BY <2>3, <2>5, ShownIs DEF Vm, ShownAs
  <2>7. /\ BootFirst => \A i \in DOMAIN K : Slot(K[i]) = i - 1
        /\ \A i \in DOMAIN L : Slot(L[i]) = i - 1
      BY <2>3 DEF Agrees, BootFirst
  <2> HIDE DEF vm, K, L
  <2>8. CASE q.op \in {"resize_disk", "remove_disk"}
    <3>1. at \in DiskInputs
        BY <2>4, <2>8 DEF Targets
    <3>2. PICK d \in ToSet(Vm.disks) :
             at = [index |-> d.index, meant |-> IF BootFirst THEN d.zvol ELSE NoDisk]
        BY <3>1 DEF DiskInputs
    <3>3. PICK i \in DOMAIN Vm.disks : d = Vm.disks[i]
        BY DEF ToSet
    <3>4. q.index = Slot(K[i]) /\ (q.meant = IF BootFirst THEN vm.disks[i].zvol ELSE NoDisk)
        BY <2>4, <2>6, <3>2, <3>3
    <3>5. BootFirst => q.index + 1 = i
        BY <2>6, <2>7, <3>3, <3>4
    <3> QED
        BY <2>8, <3>4, <3>5
  <2>9. CASE q.op = "detach_cdrom"
    <3>1. at \in CdromInputs
        BY <2>4, <2>9 DEF Targets
    <3>2. PICK d \in ToSet(Vm.cdroms) : at = [index |-> d.index, meant |-> d.iso]
        BY <3>1 DEF CdromInputs
    <3>3. PICK i \in DOMAIN Vm.cdroms : d = Vm.cdroms[i]
        BY DEF ToSet
    <3>4. q.index = Slot(L[i]) /\ q.meant = vm.cdroms[i]
        BY <2>4, <2>6, <3>2, <3>3
    <3>5. q.index + 1 = i
        BY <2>6, <2>7, <3>3, <3>4
    <3> QED
        BY <2>9, <3>4, <3>5
  <2> QED
      BY <2>8, <2>9
<1>5. Calm' => Fresh(q, config, members)
    BY <1>1, <1>4 DEF Fresh
<1>6. UpdatesVm(q, config)
    BY <1>1 DEF UpdatesVm
<1> QED
    BY <1>2, <1>3, <1>5, <1>6, QuietKnown

\* What a request that works becomes.
LEMMA StepOf ==
    ASSUME VmTyped, NEW r \in Requests, NEW new, IsVmRequest(new), Becomes(r, new),
           req[r].stage \in Working, overlapped' = overlapped, cuts' \in Nat, cuts' = 0 => cuts = 0
    PROVE  VmStep(r) /\ req'[r] = IF new.stage = "over" THEN OverVm ELSE new
<1>1. /\ req' = [q \in Requests |-> IF q = r THEN req'[r] ELSE req[q]]
      /\ IsVmRequest(req'[r])
      /\ req'[r] = IF new.stage = "over" THEN OverVm ELSE new
    BY BecomesStep
<1>2. r \in Busy /\ overlapped' \in BOOLEAN
    BY DEF Busy, VmTyped
<1> QED
    BY <1>1, <1>2 DEF VmStep

\* A command that ends, well or dropped.
LEMMA ThenIs ==
    ASSUME VmTyped, NEW r \in Requests, NEW stage, NEW cache0, NEW sizes0,
           Then(r, stage, cache0, sizes0), req[r].stage \in Working, overlapped' = overlapped
    PROVE  /\ VmStep(r)
           /\ \/ req'[r] = OverVm /\ sizes' = sizes /\ cuts' # 0
              \/ /\ sizes' = sizes0
                 /\ req'[r] = IF stage = "over" THEN OverVm ELSE [req[r] EXCEPT !.stage = stage]
<1>1. IsVmRequest(req[r]) /\ cuts \in Nat
    BY DEF VmTyped
<1>2. CASE Goes(r, stage) /\ sizes' = sizes0 /\ cuts' = cuts
  <2>1. /\ IsVmRequest([req[r] EXCEPT !.stage = stage])
        /\ [req[r] EXCEPT !.stage = stage].stage = stage
      BY <1>1, StageIs
  <2> QED
      BY <1>1, <1>2, <2>1, StepOf DEF Goes
<1>3. CASE cuts' = cuts + 1 /\ Goes(r, "over") /\ sizes' = sizes
  <2>1. /\ IsVmRequest([req[r] EXCEPT !.stage = "over"])
        /\ [req[r] EXCEPT !.stage = "over"].stage = "over"
      BY <1>1, StageIs
  <2>2. cuts' \in Nat /\ cuts' # 0
      BY <1>1, <1>3
  <2>3. VmStep(r) /\ req'[r] = IF [req[r] EXCEPT !.stage = "over"].stage = "over"
                               THEN OverVm ELSE [req[r] EXCEPT !.stage = "over"]
      BY <1>3, <2>1, <2>2, StepOf DEF Goes
  <2> QED
      BY <1>3, <2>1, <2>2, <2>3
<1> QED
    BY <1>2, <1>3 DEF Then

\* A request that is at no stage where it has found something.
LEMMA RestIsFresh ==
    ASSUME NEW q, q.stage \notin {"find", "size", "write", "zonecfg", "purge"},
           q.stage = "act" => q.op \notin ConfigOps \cup {"update_zone", "resize_disk"},
           NEW c, NEW m
    PROVE  Fresh(q, c, m) /\ UpdatesVm(q, c)
BY DEF Fresh, Meant, UpdatesVm, ConfigOps

\* It goes there and leaves the VM as it is.
LEMMA GoesKnown ==
    ASSUME KnownInv, NEW r \in Requests, NEW stage, Goes(r, stage), req[r].stage \in Working,
           stage \notin {"find", "size", "write", "zonecfg", "purge"},
           stage = "act" => req[r].op \notin ConfigOps \cup {"update_zone", "resize_disk"},
           UNCHANGED <<config, members, overlapped, cuts>>,
           sizes' \in {sizes, << >>, <<SizeListing>>}
    PROVE  AgreesInv' /\ FreshInv'
<1> DEFINE new == [req[r] EXCEPT !.stage = stage]
<1>1. VmTyped /\ IsVmRequest(req[r]) /\ cuts \in Nat
    BY DEF KnownInv, VmInv, RollbackInv, VmTyped
<1>2. IsVmRequest(new) /\ new.stage = stage /\ new.op = req[r].op
    BY <1>1, StageIs
<1>3. Becomes(r, new)
    BY DEF Goes
<1> HIDE DEF new
<1>4. VmStep(r) /\ req'[r] = IF new.stage = "over" THEN OverVm ELSE new
    BY <1>1, <1>2, <1>3, StepOf
<1>5. OverVm.stage = "over"
    BY OverIsRequest
<1>6. Fresh(req'[r], config, members) /\ UpdatesVm(req'[r], config)
    BY <1>2, <1>4, <1>5, RestIsFresh
<1> QED
    BY <1>4, <1>6, QuietKnown

\* The VM that a handler of a calm VM finds.
LEMMA VmFound ==
    ASSUME KnownInv, IsVm
    PROVE  LET vm == SpecFrom(Read(config))
           IN  /\ Mine(vm, config)
               /\ DOMAIN vm.disks = 1 .. Len(vm.disks) /\ Len(vm.disks) \in Nat
               /\ DOMAIN vm.cdroms = 1 .. Len(vm.cdroms) /\ Len(vm.cdroms) \in Nat
               /\ ZvolsOf(config) = {vm.disks[i].zvol : i \in DOMAIN vm.disks}
<1> DEFINE vm == SpecFrom(Read(config))
<1>1. AttrOK(Read(config)) /\ Mine(vm, config)
    BY VmNow DEF KnownInv, VmInv
<1>2. ZvolsOf(Read(config)) = {vm.disks[i].zvol : i \in DOMAIN vm.disks}
    BY <1>1, ShownIs DEF ShownAs
<1> HIDE DEF vm
<1>3. IsSeq(vm.disks) /\ IsSeq(vm.cdroms)
    BY <1>1 DEF Mine, IsVmSpec
<1>4. /\ DOMAIN vm.disks = 1 .. Len(vm.disks) /\ Len(vm.disks) \in Nat
      /\ DOMAIN vm.cdroms = 1 .. Len(vm.cdroms) /\ Len(vm.cdroms) \in Nat
    BY <1>3 DEF IsSeq
<1> QED
    BY <1>1, <1>2, <1>4, KeysRead DEF vm

\* What a request has found, and what it was asked.
LEMMA FoundIs ==
    ASSUME NEW q, IsVmRequest(q), NEW stage, NEW spec, NEW disk, NEW todo
    PROVE  LET new == Found(q, stage, spec, disk, todo)
           IN  /\ IsVmRequest(new) /\ new.stage = stage /\ new.spec = spec /\ new.disk = disk
               /\ new.op = q.op /\ new.index = q.index /\ new.new = q.new /\ new.name = q.name
               /\ new.purge = q.purge /\ new.todo = todo /\ new.meant = q.meant
BY DEF Found, IsVmRequest, VmFields

\* What has been found is so, where nobody met.
LEMMA FindKnown ==
    ASSUME KnownInv, NEW r \in Requests, FindVm(r)
    PROVE  AgreesInv' /\ FreshInv'
<1> DEFINE q == req[r]
           spec == SpecFrom(Listing.config)
           vm == SpecFrom(Read(config))
<1>1. /\ q.stage = "find" /\ q.stage \in Working
      /\ UNCHANGED <<config, members, sizes, overlapped, cuts>>
    BY DEF FindVm, At, Working
<1>2. VmTyped /\ IsVmRequest(q) /\ cuts \in Nat /\ Posed(q, config)
    BY DEF KnownInv, VmInv, RollbackInv, VmTyped, HandledInv, Carries
<1>3. q.op \in VmOps => IsVm
    BY <1>1, <1>2 DEF Posed, IsVm, VmOps, ZoneOps, ConfigOps, SnapshotOps
<1>4. Calm => Listing.config = Read(config) /\ spec = vm
    BY CalmListing
<1>5. q.index \in Nat
    BY <1>2 DEF Posed
<1>6. Calm => Meant(q, vm)
    BY DEF KnownInv, FreshInv, Fresh
<1>7. IsVm => /\ Mine(vm, config)
              /\ DOMAIN vm.disks = 1 .. Len(vm.disks) /\ Len(vm.disks) \in Nat
              /\ DOMAIN vm.cdroms = 1 .. Len(vm.cdroms) /\ Len(vm.cdroms) \in Nat
              /\ ZvolsOf(config) = {vm.disks[i].zvol : i \in DOMAIN vm.disks}
    BY VmFound
<1>8. ASSUME NEW stage \in {"show", "act", "look", "over"}, Goes(r, stage),
             stage = "act" => q.op \notin ConfigOps \cup {"update_zone", "resize_disk"}
      PROVE  AgreesInv' /\ FreshInv'
    BY <1>1, <1>8, GoesKnown
<1>9. ASSUME NEW stage \in {"act", "size", "look"}, NEW spec0, NEW disk, NEW todo,
             Becomes(r, Found(q, stage, spec0, disk, todo)),
             Calm => Fresh(Found(q, stage, spec0, disk, todo), config, members)
      PROVE  AgreesInv' /\ FreshInv'
  <2> DEFINE new == Found(q, stage, spec0, disk, todo)
  <2>1. IsVmRequest(new) /\ new.stage = stage
      BY <1>2, FoundIs
  <2> HIDE DEF new
  <2>2. VmStep(r) /\ req'[r] = new
      BY <1>1, <1>2, <1>9, <2>1, StepOf DEF new
  <2>3. UpdatesVm(new, config)
      BY <2>1 DEF UpdatesVm
  <2>4. Calm' => Fresh(new, config, members)
      BY <1>1, <1>9 DEF new, Calm
  <2> QED
      BY <1>1, <2>2, <2>3, <2>4, QuietKnown
<1>12. ASSUME NEW stage, NEW spec0, NEW disk
       PROVE  /\ [q EXCEPT !.stage = stage, !.spec = spec0]
                    = Found(q, stage, spec0, q.disk, q.todo)
              /\ [[q EXCEPT !.spec = spec0] EXCEPT !.stage = stage]
                    = Found(q, stage, spec0, q.disk, q.todo)
              /\ [q EXCEPT !.stage = stage, !.disk = disk]
                    = Found(q, stage, q.spec, disk, q.todo)
              /\ [[q EXCEPT !.spec = spec0] EXCEPT !.stage = stage, !.disk = disk]
                    = Found(q, stage, spec0, disk, q.todo)
    BY <1>2 DEF IsVmRequest, VmFields, Found
<1>13. ASSUME NEW todo
       PROVE  [q EXCEPT !.stage = "look", !.todo = todo]
                 = Found(q, "look", q.spec, q.disk, todo)
    BY <1>2 DEF IsVmRequest, VmFields, Found
<1>14. CASE q.op \in {"get_vm", "get_zone"}
  <2>1. Goes(r, "show")
      BY <1>14 DEF FindVm
  <2> QED
      BY <1>8, <2>1
<1>15. CASE q.op = "update_zone"
  <2> DEFINE z == ZonePatched(Listing.config, q.name, q.new)
             new == Found(q, "act", z, q.disk, q.todo)
  <2>1. Becomes(r, [q EXCEPT !.stage = "act", !.spec = z])
      BY <1>15 DEF FindVm
  <2>2. Becomes(r, new)
      BY <1>12, <2>1
  <2>3. Calm => z = ZonePatched(Read(config), q.name, q.new)
      BY <1>4
  <2> HIDE DEF z
  <2>4. /\ new.stage = "act" /\ new.spec = z /\ new.op = q.op /\ new.name = q.name
        /\ new.new = q.new
      BY <1>2, FoundIs
  <2>5. Calm => Fresh(new, config, members)
      BY <1>15, <2>3, <2>4, Zenon DEF Fresh, Meant, ConfigOps
  <2> QED
      BY <1>9, <2>2, <2>5
<1>16. CASE q.op \in {"update_vm", "add_disk", "attach_cdrom"}
  <2> DEFINE new == Found(q, "act", spec, q.disk, q.todo)
  <2>1. Goes(r, "over") \/ Becomes(r, [[q EXCEPT !.spec = spec] EXCEPT !.stage = "act"])
      BY <1>16 DEF FindVm
  <2>2. Goes(r, "over") \/ Becomes(r, new)
      BY <1>12, <2>1
  <2> HIDE DEF spec
  <2>3. new.stage = "act" /\ new.spec = spec /\ new.op = q.op
      BY <1>2, FoundIs
  <2>4. Calm => Fresh(new, config, members)
      BY <1>4, <1>16, <2>3 DEF Fresh, Meant, ConfigOps
  <2> QED
      BY <1>8, <1>9, <2>2, <2>4
<1>17. CASE q.op = "detach_cdrom"
  <2> DEFINE new == Found(q, "act", spec, q.disk, q.todo)
  <2>1. \/ Goes(r, "over")
        \/ /\ Becomes(r, [[q EXCEPT !.spec = spec] EXCEPT !.stage = "act"])
           /\ q.index < Len(spec.cdroms)
      BY <1>17 DEF FindVm
  <2>2. Goes(r, "over") \/ (Becomes(r, new) /\ q.index < Len(spec.cdroms))
      BY <1>12, <2>1
  <2>3. IsVm
      BY <1>3, <1>17 DEF VmOps, ConfigOps
  <2> HIDE DEF spec, vm
  <2>4. new.stage = "act" /\ new.spec = spec /\ new.op = q.op /\ new.index = q.index
        /\ new.meant = q.meant
      BY <1>2, FoundIs
  <2> HIDE DEF new
  <2>5. ASSUME Calm, q.index < Len(spec.cdroms) PROVE Fresh(new, config, members)
    <3>1. new.spec = vm
        BY <1>4, <2>4, <2>5
    <3>2. q.index + 1 \in DOMAIN vm.cdroms /\ q.meant = vm.cdroms[q.index + 1]
        BY <1>1, <1>4, <1>5, <1>6, <1>7, <1>17, <2>3, <2>5 DEF Meant
    <3>3. Meant(new, vm)
        BY <1>17, <2>4, <3>2 DEF Meant
    <3> QED
        BY <1>17, <2>4, <3>1, <3>3 DEF Fresh, vm
  <2> QED
      BY <1>8, <1>9, <2>2, <2>5 DEF new
<1>18. CASE q.op = "remove_disk"
  <2> DEFINE disk == spec.disks[q.index + 1]
             new == Found(q, "act", spec, disk.zvol, q.todo)
  <2>1. \/ Goes(r, "over")
        \/ /\ Becomes(r, [[q EXCEPT !.spec = spec] EXCEPT !.stage = "act", !.disk = disk.zvol])
           /\ q.index < Len(spec.disks) /\ ~disk.boot
      BY <1>18 DEF FindVm
  <2>2. Goes(r, "over") \/ (Becomes(r, new) /\ q.index < Len(spec.disks) /\ ~disk.boot)
      BY <1>12, <2>1
  <2>3. IsVm
      BY <1>3, <1>18 DEF VmOps, ConfigOps
  <2> HIDE DEF spec, vm
  <2>4. /\ new.stage = "act" /\ new.spec = spec /\ new.op = q.op /\ new.index = q.index
        /\ new.meant = q.meant /\ new.disk = disk.zvol
      BY <1>2, FoundIs
  <2> HIDE DEF new
  <2>5. ASSUME Calm, q.index < Len(spec.disks), ~disk.boot PROVE Fresh(new, config, members)
    <3>1. new.spec = vm /\ new.disk = vm.disks[q.index + 1].zvol
        BY <1>4, <2>4, <2>5
    <3>2. /\ q.index + 1 \in DOMAIN vm.disks /\ ~vm.disks[q.index + 1].boot
          /\ q.meant \in {vm.disks[q.index + 1].zvol, NoDisk}
        BY <1>1, <1>4, <1>5, <1>6, <1>7, <1>18, <2>3, <2>5 DEF Meant
    <3>3. q.index + 1 \in DOMAIN vm.disks \ {1}
        BY <1>7, <2>3, <3>2 DEF Mine
    <3>4. Meant(new, vm)
        BY <1>18, <2>4, <3>1, <3>2, <3>3 DEF Meant
    <3> QED
        BY <1>18, <2>4, <3>1, <3>4 DEF Fresh, vm
  <2> QED
      BY <1>8, <1>9, <2>2, <2>5 DEF new
<1>19. CASE q.op = "resize_disk"
  <2> DEFINE disk == spec.disks[q.index + 1]
             new == Found(q, "size", q.spec, disk.zvol, q.todo)
  <2>1. \/ Goes(r, "over")
        \/ /\ Becomes(r, [q EXCEPT !.stage = "size", !.disk = disk.zvol])
           /\ q.index < Len(spec.disks)
      BY <1>19 DEF FindVm
  <2>2. Goes(r, "over") \/ (Becomes(r, new) /\ q.index < Len(spec.disks))
      BY <1>12, <2>1
  <2>3. IsVm
      BY <1>3, <1>19 DEF VmOps
  <2> HIDE DEF spec, vm
  <2>4. /\ new.stage = "size" /\ new.op = q.op /\ new.index = q.index
        /\ new.meant = q.meant /\ new.disk = disk.zvol
      BY <1>2, FoundIs
  <2> HIDE DEF new
  <2>5. ASSUME Calm, q.index < Len(spec.disks) PROVE Fresh(new, config, members)
    <3>1. new.disk = vm.disks[q.index + 1].zvol
        BY <1>4, <2>4, <2>5
    <3>2. /\ q.index + 1 \in DOMAIN vm.disks
          /\ q.meant \in {vm.disks[q.index + 1].zvol, NoDisk}
        BY <1>1, <1>4, <1>5, <1>6, <1>7, <1>19, <2>3, <2>5 DEF Meant
    <3>3. new.disk \in ZvolsOf(config)
        BY <1>7, <2>3, <3>1, <3>2
    <3>4. Meant(new, vm)
        BY <1>19, <2>4, <3>1, <3>2 DEF Meant
    <3> QED
        BY <1>19, <2>4, <3>3, <3>4 DEF Fresh, vm
  <2> QED
      BY <1>8, <1>9, <2>2, <2>5 DEF new
<1>20. CASE q.op \in {"create_snapshot", "delete_snapshot"}
  <2>1. \E stage \in {"act", "look"} : Goes(r, stage)
      BY <1>20 DEF FindVm
  <2> QED
      BY <1>8, <1>20, <2>1 DEF ConfigOps
<1>21. CASE q.op = "rollback_snapshot"
  <2> DEFINE todo == <<Dataset>> \o [i \in DOMAIN spec.disks |-> spec.disks[i].zvol]
             new == Found(q, "look", q.spec, q.disk, todo)
  <2>1. Goes(r, "over") \/ Becomes(r, [q EXCEPT !.stage = "look", !.todo = todo])
      BY <1>21 DEF FindVm
  <2>2. Goes(r, "over") \/ Becomes(r, new)
      BY <1>13, <2>1
  <2> HIDE DEF todo
  <2>3. new.stage = "look" /\ new.op = q.op
      BY <1>2, FoundIs
  <2>4. Fresh(new, config, members)
      BY <2>3, RestIsFresh
  <2> QED
      BY <1>8, <1>9, <2>2, <2>4
<1>22. CASE q.op \in {"start_vm", "stop_vm"}
  <2>1. \E stage \in {"act", "over"} : Goes(r, stage)
      BY <1>22 DEF FindVm
  <2> QED
      BY <1>8, <1>22, <2>1 DEF ConfigOps
<1> QED
  <2>1. q.op \in Ops
      BY <1>2 DEF IsVmRequest
  <2> QED
      BY <1>14, <1>15, <1>16, <1>17, <1>18, <1>19, <1>20, <1>21, <1>22, <2>1
         DEF Ops, VmOps, ZoneOps, ConfigOps, SnapshotOps

\* The size is that of the disk that was found: the disk only grows.
LEMMA SizeKnown ==
    ASSUME KnownInv, NEW r \in Requests, Size(r)
    PROVE  AgreesInv' /\ FreshInv'
<1> DEFINE q == req[r]
           vm == SpecFrom(Read(config))
           shown == ToSet(Zvols(FromZoneConfig(Listing.config))) \cap DOMAIN SizeListing
           current == IF q.disk \in shown THEN SizeListing[q.disk] ELSE 0
           stage == IF q.new > current THEN "act" ELSE "over"
           new == [q EXCEPT !.stage = stage]
<1>1. /\ q.stage = "size" /\ q.op = "resize_disk" /\ q.stage \in Working
      /\ Becomes(r, new)
      /\ UNCHANGED <<config, members, overlapped, cuts>>
      /\ sizes' \in {sizes, << >>, <<SizeListing>>}
    BY DEF Size, View, Doing, At, Goes, Working
<1>2. VmTyped /\ IsVmRequest(q) /\ cuts \in Nat /\ Posed(q, config)
    BY DEF KnownInv, VmInv, RollbackInv, VmTyped, HandledInv, Carries
<1>3. IsVm
    BY <1>1, <1>2 DEF Posed, IsVm, ZoneOps
<1>4. IsVmRequest(new) /\ new.stage = stage /\ new.op = q.op /\ new.disk = q.disk /\ new.new = q.new
      /\ new.meant = q.meant
    BY <1>2, StageIs
<1> HIDE DEF new
<1>5. VmStep(r) /\ req'[r] = IF new.stage = "over" THEN OverVm ELSE new
    BY <1>1, <1>2, <1>4, StepOf
<1>6. stage = "act" => q.new > current
    OBVIOUS
<1>7. stage \in {"act", "over"}
    OBVIOUS
<1>8. ASSUME Calm, stage = "act" PROVE Fresh(new, config, members)
  <2>1. Fresh(q, config, members) /\ sizes \in {<< >>, <<SizesNow>>}
      /\ ZvolsOf(config) \subseteq DOMAIN members
      BY <1>3, <1>8 DEF KnownInv, FreshInv
  <2>2. q.disk \in ZvolsOf(config) /\ Meant(q, vm)
      BY <1>1, <2>1 DEF Fresh
  <2>3. Listing.config = Read(config)
      BY <1>8, CalmListing
  <2>4. AttrOK(Read(config)) /\ Alike(config, config) /\ IsVm
      BY <1>3, VmNow DEF KnownInv, VmInv, HandledInv
  <2>5. ToSet(Zvols(FromZoneConfig(Listing.config))) = ZvolsOf(config)
      BY <2>3, <2>4, ShownIs, KeysRead DEF ShownAs
  <2>6. SizeListing = SizesNow
      BY <2>1 DEF SizeListing
  <2>7. q.disk # Dataset
    <3>1. ZvolsOf(config) \subseteq Disks
      <4>1. HasDisks(config, config.attr[Bootdisk])
          BY <2>4 DEF Alike, IsVm
      <4> QED
          BY <4>1 DEF HasDisks, ZvolsOf
    <3>2. Dataset \notin Disks
        BY VmsAssumption DEF Dataset, Disks
    <3> QED
        BY <2>2, <3>1, <3>2
  <2>8. q.disk \in DOMAIN members \ {Dataset}
      BY <2>1, <2>2, <2>7
  <2>9. q.disk \in shown /\ SizeListing[q.disk] = members[q.disk].size
      BY <2>2, <2>5, <2>6, <2>8 DEF SizesNow
  <2>10. q.new > members[q.disk].size
      BY <1>6, <1>8, <2>9
  <2>11. Meant(new, vm)
      BY <1>1, <1>4, <1>8, <2>2 DEF Meant
  <2> HIDE DEF vm, stage
  <2> QED
      BY <1>1, <1>4, <1>8, <2>8, <2>10, <2>11 DEF Fresh, vm, ConfigOps
<1>9. OverVm.stage = "over"
    BY OverIsRequest
<1> HIDE DEF stage
<1>10. Calm' => Fresh(req'[r], config, members)
    BY <1>1, <1>4, <1>5, <1>7, <1>8, <1>9, IdleIsFresh DEF Calm, Working
<1>11. UpdatesVm(req'[r], config)
    BY <1>4, <1>5, <1>7, <1>9 DEF UpdatesVm
<1> QED
    BY <1>1, <1>5, <1>10, <1>11, QuietKnown

\* The rest that finds nothing of the configuration.
LEMMA LooksKnown ==
    ASSUME KnownInv, NEW r \in Requests,
           Show(r) \/ Look(r) \/ StartVm(r) \/ StopVm(r) \/ Note(r) \/ Fail(r)
    PROVE  AgreesInv' /\ FreshInv'
<1>1. UNCHANGED <<config, members, overlapped, cuts>>
    BY DEF Show, Look, StartVm, StopVm, Note, Fail
<1>2. sizes' \in {sizes, << >>, <<SizeListing>>}
    BY DEF Show, View, Look, StartVm, StopVm, Note, Fail
<1>3. CASE Show(r) \/ Note(r) \/ Fail(r)
  <2>1. Goes(r, "over") /\ req[r].stage \in Working
      BY <1>3 DEF Show, Note, Fail, At, Working
  <2> QED
      BY <1>1, <1>2, <2>1, GoesKnown
<1>4. CASE StartVm(r) \/ StopVm(r)
  <2>1. Goes(r, "note") /\ req[r].stage \in Working
      BY <1>4 DEF StartVm, StopVm, Doing, At, Working
  <2> QED
      BY <1>1, <1>2, <2>1, GoesKnown
<1>5. CASE Look(r)
  <2>1. req[r].stage = "look" /\ req[r].stage \in Working
      BY <1>5 DEF Look, At, Working
  <2>2. \E stage \in {"act", "over"} : Goes(r, stage)
      BY <1>5 DEF Look
  <2>3. req[r].op \in SnapshotOps
      BY <2>1 DEF KnownInv, VmInv, HandledInv, Carries, Holds
  <2> QED
      BY <1>1, <1>2, <2>1, <2>2, <2>3, GoesKnown DEF SnapshotOps, ConfigOps
<1> QED
    BY <1>3, <1>4, <1>5

\* The commands are made of what the request wants.
LEMMA SpecKnown ==
    ASSUME KnownInv, NEW r \in Requests, NEW wanted, WriteSpec(r, wanted),
           req[r].op \in ConfigOps \cup {"update_zone"},
           req[r].stage = IF req[r].op = "add_disk" THEN "write" ELSE "act",
           Calm => wanted = Wanted(req[r], config),
           IsVm => \E vm : Mine(vm, config) /\ wanted = ToZoneSpec(vm),
           Calm /\ req[r].op \in ConfigOps =>
              Mine(WantedOf(req[r], SpecFrom(Read(config))), config)
    PROVE  AgreesInv' /\ FreshInv'
<1> DEFINE q == req[r]
           script == RenderUpdate(Read(config), wanted)
           new == [q EXCEPT !.stage = "zonecfg", !.spec = script]
           vm == SpecFrom(Read(config))
<1>1. /\ Becomes(r, new)
      /\ UNCHANGED <<config, members, sizes, overlapped, cuts>>
    BY DEF WriteSpec
<1>2. VmTyped /\ IsVmRequest(q) /\ cuts \in Nat
    BY DEF KnownInv, VmInv, RollbackInv, VmTyped
<1>3. script = RenderUpdate(Read(config), wanted)
    OBVIOUS
<1> HIDE DEF script
<1>4. /\ IsVmRequest(new) /\ new.stage = "zonecfg" /\ new.spec = script
      /\ new.op = q.op /\ new.index = q.index /\ new.new = q.new
      /\ new.name = q.name /\ new.disk = q.disk /\ new.meant = q.meant
    BY <1>2 DEF IsVmRequest, VmFields
<1> HIDE DEF new
<1>5. VmStep(r) /\ req'[r] = new
    BY <1>1, <1>2, <1>4, StepOf DEF Working
<1>6. IsVm => UpdatesVm(new, config)
    BY <1>3, <1>4 DEF UpdatesVm
<1>7. ASSUME Calm PROVE Fresh(new, config, members)
  <2>1. Fresh(q, config, members)
      BY <1>7 DEF KnownInv, FreshInv
  <2>2. Wanted(new, config) = Wanted(q, config) /\ WantedOf(new, vm) = WantedOf(q, vm)
      BY <1>4 DEF Wanted, WantedOf
  <2>3. new.spec = RenderUpdate(Read(config), Wanted(new, config))
      BY <1>3, <1>4, <1>7, <2>2
  <2>4. Meant(q, vm)
      BY <2>1 DEF Fresh
  <2>5. q.op = "add_disk" => Len(vm.disks) \in DOMAIN members
      BY <2>1 DEF Fresh
  <2>8. q.op \in ConfigOps => Mine(WantedOf(new, vm), config)
      BY <1>7, <2>2
  <2> HIDE DEF vm
  <2>6. Meant(new, vm)
      BY <1>4, <2>4 DEF Meant, ConfigOps
  <2>7. new.op \in ConfigOps \cup {"update_zone"}
      BY <1>4
  <2> QED
      BY <1>4, <2>3, <2>5, <2>6, <2>7, <2>8 DEF Fresh, vm
<1>8. Calm' => Fresh(new, config, members)
    BY <1>1, <1>7 DEF Calm
<1> QED
    BY <1>1, <1>5, <1>6, <1>8, QuietKnown

\* A handler writes what it found, changed as asked.
LEMMA WriteKnown ==
    ASSUME KnownInv, NEW r \in Requests,
           \/ UpdateZone(r) \/ UpdateVm(r) \/ AddDisk(r) \/ RemoveDisk(r)
           \/ AttachCdrom(r) \/ DetachCdrom(r)
    PROVE  AgreesInv' /\ FreshInv'
<1> DEFINE q == req[r]
           vm == WantedOf(q, q.spec)
<1>1. Posed(q, config) /\ (Calm => Fresh(q, config, members)) /\ HandledInv
    BY DEF KnownInv, VmInv, HandledInv, Carries, FreshInv
<1>2. CASE UpdateZone(r)
  <2>1. WriteSpec(r, q.spec) /\ q.stage = "act" /\ q.op = "update_zone"
      BY <1>2 DEF UpdateZone, Doing, At
  <2>2. Calm => q.spec = Wanted(q, config)
      BY <1>1, <2>1 DEF Fresh, Wanted
  <2>3. ~IsVm
      BY <1>1, <2>1 DEF Posed, IsVm, Working, VmOps, ConfigOps, SnapshotOps
  <2>4. q.op \notin ConfigOps
      BY <2>1 DEF ConfigOps
  <2> QED
      BY <2>1, <2>2, <2>3, <2>4, SpecKnown
<1>3. CASE UpdateVm(r) \/ AddDisk(r) \/ RemoveDisk(r) \/ AttachCdrom(r) \/ DetachCdrom(r)
  <2>1. /\ Mine(vm, config) /\ WriteVm(r, vm) /\ q.op \in ConfigOps
        /\ q.stage = IF q.op = "add_disk" THEN "write" ELSE "act"
      BY <1>1, <1>3, WantsMine
  <2>2. Calm => q.spec = SpecFrom(Read(config))
      BY <1>1, <2>1 DEF Fresh
  <2>3. Calm => ToZoneSpec(vm) = Wanted(q, config)
      BY <2>1, <2>2 DEF Wanted, ConfigOps
  <2>5. Calm => Mine(WantedOf(q, SpecFrom(Read(config))), config)
      BY <2>1, <2>2
  <2> HIDE DEF vm
  <2>4. WriteSpec(r, ToZoneSpec(vm))
      BY <2>1 DEF WriteVm
  <2> QED
      BY <2>1, <2>3, <2>4, <2>5, SpecKnown
<1> QED
    BY <1>2, <1>3

\* A part that occurs once, removed, is gone.
LEMMA RemovedIsGone ==
    ASSUME NEW s, IsSeq(s), NEW n \in DOMAIN s, \A i, j \in DOMAIN s : s[i] = s[j] => i = j
    PROVE  IsWithout(RemoveAt(s, n), s, s[n]) /\ ToSet(RemoveAt(s, n)) = ToSet(s) \ {s[n]}
<1> DEFINE t == RemoveAt(s, n)
<1>1. DOMAIN s = 1 .. Len(s) /\ Len(s) \in Nat
    BY DEF IsSeq
<1>2. n \in 1 .. Len(s)
    BY <1>1
<1>3. /\ IsSeq(t) /\ Len(t) = Len(s) - 1
      /\ \A i \in 1 .. Len(s) - 1 : t[i] = s[IF i < n THEN i ELSE i + 1]
    BY <1>2, RemovedFrom
<1> HIDE DEF t
<1>4. DOMAIN t = 1 .. Len(s) - 1
    BY <1>3 DEF IsSeq
<1>5. ASSUME NEW i \in DOMAIN t PROVE t[i] \in ToSet(s) \ {s[n]}
  <2> DEFINE j == IF i < n THEN i ELSE i + 1
  <2>1. i \in 1 .. Len(s) - 1 /\ i \in Nat /\ n \in Nat
      BY <1>1, <1>2, <1>4
  <2>2. j \in 1 .. Len(s) /\ j # n
      BY <1>1, <2>1
  <2>3. t[i] = s[j]
      BY <1>3, <2>1
  <2> QED
      BY <1>1, <2>2, <2>3 DEF ToSet
<1>6. ASSUME NEW j \in DOMAIN s, j # n PROVE s[j] \in ToSet(t)
  <2> DEFINE i == IF j < n THEN j ELSE j - 1
  <2>1. j \in 1 .. Len(s) /\ n \in 1 .. Len(s) /\ j \in Nat /\ n \in Nat
      BY <1>1
  <2>2. i \in 1 .. Len(s) - 1 /\ (IF i < n THEN i ELSE i + 1) = j
      BY <1>1, <1>6, <2>1
  <2>3. t[i] = s[j]
      BY <1>3, <2>2
  <2> QED
      BY <1>4, <2>2, <2>3 DEF ToSet
<1>7. ToSet(t) = ToSet(s) \ {s[n]}
  <2>1. ToSet(t) \subseteq ToSet(s) \ {s[n]}
      BY <1>5 DEF ToSet
  <2>2. ToSet(s) \ {s[n]} \subseteq ToSet(t)
      BY <1>6 DEF ToSet
  <2> QED
      BY <2>1, <2>2
<1> QED
    BY <1>7 DEF IsWithout, t

\* The zvols of a VM that a handler has, and of what it makes of it.
LEMMA WantedIs ==
    ASSUME NEW q, q.op \in ConfigOps, NEW vm, IsVmSpec(vm),
           q.op = "remove_disk" => q.index + 1 \in DOMAIN vm.disks
    PROVE  LET w == WantedOf(q, vm)
           IN  /\ Zvols(w) = CASE q.op = "add_disk" -> Append(Zvols(vm), Len(vm.disks))
                               [] q.op = "remove_disk" -> RemoveAt(Zvols(vm), q.index + 1)
                               [] OTHER -> Zvols(vm)
               /\ w.cdroms = CASE q.op = "attach_cdrom" -> Append(vm.cdroms, q.new)
                               [] q.op = "detach_cdrom" -> RemoveAt(vm.cdroms, q.index + 1)
                               [] OTHER -> vm.cdroms
               /\ w.vcpus = IF q.op = "update_vm" /\ q.name # "nics" THEN q.new ELSE vm.vcpus
               /\ w.nics = IF q.op = "update_vm" /\ q.name = "nics" THEN <<q.new>> ELSE vm.nics
               /\ IsSeq(Zvols(vm)) /\ Len(Zvols(vm)) = Len(vm.disks)
<1> DEFINE w == WantedOf(q, vm)
<1>1. /\ vm = [f \in {"vcpus", "disks", "nics", "cdroms", "attrs"} |-> vm[f]]
      /\ IsSeq(vm.disks) /\ DOMAIN vm.disks = 1 .. Len(vm.disks) /\ Len(vm.disks) \in Nat
    BY DEF IsVmSpec, IsSeq
<1>2. /\ IsSeq(Zvols(vm)) /\ Len(Zvols(vm)) = Len(vm.disks)
      /\ DOMAIN Zvols(vm) = 1 .. Len(vm.disks)
      /\ \A i \in 1 .. Len(vm.disks) : Zvols(vm)[i] = vm.disks[i].zvol
    BY <1>1 DEF Zvols, IsSeq
<1>3. /\ w.cdroms = CASE q.op = "attach_cdrom" -> Append(vm.cdroms, q.new)
                      [] q.op = "detach_cdrom" -> RemoveAt(vm.cdroms, q.index + 1)
                      [] OTHER -> vm.cdroms
      /\ w.vcpus = IF q.op = "update_vm" /\ q.name # "nics" THEN q.new ELSE vm.vcpus
      /\ w.nics = IF q.op = "update_vm" /\ q.name = "nics" THEN <<q.new>> ELSE vm.nics
      /\ w.disks = CASE q.op = "add_disk" ->
                           Append(vm.disks, [zvol |-> Len(vm.disks), boot |-> FALSE])
                     [] q.op = "remove_disk" -> RemoveAt(vm.disks, q.index + 1)
                     [] OTHER -> vm.disks
    BY <1>1 DEF WantedOf, ConfigOps
<1> HIDE DEF w
<1>4. CASE q.op = "add_disk"
  <2> DEFINE x == [zvol |-> Len(vm.disks), boot |-> FALSE]
  <2>1. x.zvol = Len(vm.disks) /\ w.disks = Append(vm.disks, x)
      BY <1>3, <1>4
  <2> HIDE DEF x
  <2>2. /\ DOMAIN w.disks = 1 .. Len(vm.disks) + 1
        /\ \A i \in 1 .. Len(vm.disks) : w.disks[i] = vm.disks[i]
        /\ w.disks[Len(vm.disks) + 1] = x
      BY <1>1, <2>1, Appended
  <2> DEFINE s == Append(Zvols(vm), Len(vm.disks))
  <2>3. /\ IsSeq(s) /\ DOMAIN s = 1 .. Len(vm.disks) + 1
        /\ \A i \in 1 .. Len(vm.disks) : s[i] = Zvols(vm)[i]
        /\ s[Len(vm.disks) + 1] = Len(vm.disks)
      BY <1>2, Appended
  <2>4. s = [i \in DOMAIN s |-> s[i]]
      BY <2>3 DEF IsSeq
  <2> HIDE DEF s
  <2>5. \A i \in DOMAIN s : w.disks[i].zvol = s[i]
      BY <1>1, <1>2, <2>1, <2>2, <2>3
  <2>6. Zvols(w) = s
      BY <2>2, <2>3, <2>4, <2>5 DEF Zvols
  <2> QED
      BY <1>2, <1>3, <1>4, <2>6 DEF s, w
<1>5. CASE q.op = "remove_disk"
  <2> DEFINE n == q.index + 1
             s == RemoveAt(Zvols(vm), n)
  <2>1. n \in 1 .. Len(vm.disks) /\ w.disks = RemoveAt(vm.disks, n)
      BY <1>1, <1>3, <1>5
  <2> HIDE DEF n
  <2>2. /\ IsSeq(w.disks) /\ Len(w.disks) = Len(vm.disks) - 1
        /\ \A i \in 1 .. Len(vm.disks) - 1 : w.disks[i] = vm.disks[IF i < n THEN i ELSE i + 1]
      BY <1>1, <2>1, RemovedFrom
  <2>3. /\ IsSeq(s) /\ Len(s) = Len(vm.disks) - 1
        /\ \A i \in 1 .. Len(vm.disks) - 1 : s[i] = Zvols(vm)[IF i < n THEN i ELSE i + 1]
      BY <1>2, <2>1, RemovedFrom
  <2> HIDE DEF s
  <2>4. /\ DOMAIN w.disks = 1 .. Len(vm.disks) - 1 /\ DOMAIN s = 1 .. Len(vm.disks) - 1
        /\ s = [i \in DOMAIN s |-> s[i]]
      BY <2>2, <2>3 DEF IsSeq
  <2>5. ASSUME NEW i \in DOMAIN s PROVE w.disks[i].zvol = s[i]
    <3> DEFINE j == IF i < n THEN i ELSE i + 1
    <3>1. j \in 1 .. Len(vm.disks)
        BY <1>1, <2>1, <2>4
    <3>2. w.disks[i] = vm.disks[j] /\ s[i] = Zvols(vm)[j]
        BY <2>2, <2>3, <2>4
    <3> HIDE DEF j
    <3> QED
        BY <1>2, <3>1, <3>2
  <2>6. Zvols(w) = s
      BY <2>4, <2>5 DEF Zvols
  <2> QED
      BY <1>2, <1>3, <1>5, <2>6 DEF s, n, w
<1>6. CASE q.op \notin {"add_disk", "remove_disk"}
  <2>1. w.disks = vm.disks
      BY <1>3, <1>6
  <2>2. Zvols(w) = Zvols(vm)
      BY <2>1 DEF Zvols
  <2> QED
      BY <1>2, <1>3, <1>6, <2>2 DEF w
<1> QED
    BY <1>4, <1>5, <1>6

\* No disk and no image is there twice.
LEMMA FoundApart ==
    ASSUME KnownInv, IsVm, ~overlapped
    PROVE  LET vm == SpecFrom(Read(config))
           IN  /\ \A i, j \in DOMAIN Zvols(vm) : Zvols(vm)[i] = Zvols(vm)[j] => i = j
               /\ \A i, j \in DOMAIN vm.cdroms : vm.cdroms[i] = vm.cdroms[j] => i = j
<1> DEFINE c == Read(config)
           vm == SpecFrom(c)
           K == KeysOf(c, DiskKinds)
           L == KeysOf(c, CdromKinds)
<1>1. AttrOK(c) /\ Agrees(config)
    BY VmNow DEF KnownInv, VmInv, AgreesInv
<1>2. /\ KeysIn(c, DiskKinds) = KeysIn(config, DiskKinds)
      /\ KeysIn(c, CdromKinds) = KeysIn(config, CdromKinds)
      /\ c.attr = config.attr
    BY KeysRead, ReadIs
<1>3. SpecOf(c, vm)
    BY <1>1, SpecFound
<1>4. IsOrder(KeysIn(c, DiskKinds)) /\ IsOrder(KeysIn(c, CdromKinds))
    BY <1>1, KeysAreListed DEF Kinds
<1> HIDE DEF c, vm
<1>5. /\ Lists(K, KeysIn(c, DiskKinds)) /\ Lists(L, KeysIn(c, CdromKinds))
      /\ IsSeq(vm.disks) /\ Len(vm.disks) = Len(K)
      /\ \A i \in 1 .. Len(K) : vm.disks[i].zvol = c.attr[K[i]]
      /\ IsSeq(vm.cdroms) /\ Len(vm.cdroms) = Len(L)
      /\ \A i \in 1 .. Len(L) : vm.cdroms[i] = c.attr[L[i]]
    BY <1>3 DEF SpecOf
<1> HIDE DEF K, L
<1>6. /\ \A j, k \in KeysIn(c, DiskKinds) : c.attr[j] = c.attr[k] => j = k
      /\ \A j, k \in KeysIn(c, CdromKinds) : c.attr[j] = c.attr[k] => j = k
    BY <1>1, <1>2 DEF Agrees
<1>7. ASSUME NEW S, IsOrder(S), NEW M, Lists(M, S), NEW i \in 1 .. Len(M), NEW j \in 1 .. Len(M),
             M[i] = M[j]
      PROVE  i = j
  <2>1. M[i] \in S /\ ~Sooner(M[i], M[j]) /\ ~Sooner(M[j], M[i])
      BY <1>7 DEF Lists, IsOrder
  <2>2. ~(i < j) /\ ~(j < i) /\ Len(M) \in Nat
      BY <1>7, <2>1 DEF Lists, IsSeq
  <2> QED
      BY <2>2
<1>8. /\ DOMAIN vm.disks = 1 .. Len(K) /\ DOMAIN vm.cdroms = 1 .. Len(L)
      /\ DOMAIN Zvols(vm) = 1 .. Len(K)
      /\ \A i \in 1 .. Len(K) : Zvols(vm)[i] = c.attr[K[i]]
    BY <1>5 DEF IsSeq, Zvols
<1>9. ASSUME NEW i \in 1 .. Len(K), NEW j \in 1 .. Len(K), Zvols(vm)[i] = Zvols(vm)[j] PROVE i = j
  <2>1. K[i] = K[j]
      BY <1>5, <1>6, <1>8, <1>9 DEF Lists
  <2> QED
      BY <1>4, <1>5, <1>7, <2>1
<1>10. ASSUME NEW i \in 1 .. Len(L), NEW j \in 1 .. Len(L), vm.cdroms[i] = vm.cdroms[j] PROVE i = j
  <2>1. L[i] \in KeysIn(c, CdromKinds) /\ L[j] \in KeysIn(c, CdromKinds)
      BY <1>5 DEF Lists
  <2>2. c.attr[L[i]] = c.attr[L[j]]
      BY <1>5, <1>10
  <2>3. L[i] = L[j]
      BY <1>6, <2>1, <2>2
  <2> QED
      BY <1>4, <1>5, <1>7, <2>3
<1> QED
    BY <1>8, <1>9, <1>10 DEF vm, c

\* What was written is found again.
LEMMA WrittenFound ==
    ASSUME NEW w, NEW now, Mine(w, now), NEW d, Written(w, d), AttrOK(d)
    PROVE  LET vm == SpecFrom(Read(d))
           IN  /\ Zvols(vm) = Zvols(w) /\ vm.cdroms = w.cdroms
               /\ vm.vcpus = w.vcpus /\ vm.nics = w.nics
               /\ ZvolsOf(d) = ToSet(Zvols(w)) /\ AttrOK(Read(d))
<1> DEFINE c == Read(d)
           vm == SpecFrom(c)
           K == KeysOf(c, DiskKinds)
           L == KeysOf(c, CdromKinds)
<1>1. c.attr = d.attr /\ c.anet = d.anet
    BY ReadIs
<1>2. K = DiskList(w) /\ L = CdromList(w)
    BY KeysRead DEF Written
<1>3. AttrOK(c)
    BY <1>1 DEF AttrOK
<1>4. SpecOf(c, vm) /\ ShownAs(c, FromZoneConfig(c), vm)
    BY <1>3, SpecFound, ShownIs
<1>14. ZvolsOf(c) = ZvolsOf(d)
    BY KeysRead
<1> HIDE DEF c, vm
<1>5. /\ IsSeq(vm.disks) /\ Len(vm.disks) = Len(K)
      /\ \A i \in 1 .. Len(K) : vm.disks[i].zvol = c.attr[K[i]]
      /\ IsSeq(vm.cdroms) /\ Len(vm.cdroms) = Len(L)
      /\ \A i \in 1 .. Len(L) : vm.cdroms[i] = c.attr[L[i]]
      /\ vm.nics = c.anet
      /\ vm.vcpus = IF Vcpus \in DOMAIN c.attr THEN c.attr[Vcpus] ELSE 1
      /\ ZvolsOf(c) = {vm.disks[i].zvol : i \in DOMAIN vm.disks}
    BY <1>4 DEF SpecOf, ShownAs
<1> HIDE DEF K, L
<1>6. /\ DOMAIN w.disks = 1 .. Len(w.disks) /\ Len(w.disks) \in Nat
      /\ DOMAIN w.cdroms = 1 .. Len(w.cdroms) /\ Len(w.cdroms) \in Nat
      /\ w.cdroms = [i \in 1 .. Len(w.cdroms) |-> w.cdroms[i]]
    BY DEF Mine, IsVmSpec, IsSeq
<1>7. /\ Len(K) = Len(w.disks) /\ Len(L) = Len(w.cdroms)
      /\ \A i \in 1 .. Len(w.disks) : K[i] = DiskKey(w, i)
      /\ \A i \in 1 .. Len(w.cdroms) : L[i] = CdromAttr(i - 1)
    BY <1>2, <1>6 DEF DiskList, CdromList
<1>15. /\ \A i \in 1 .. Len(w.disks) : d.attr[DiskKey(w, i)] = w.disks[i].zvol
       /\ \A i \in 1 .. Len(w.cdroms) : d.attr[CdromAttr(i - 1)] = w.cdroms[i]
       /\ Vcpus \in DOMAIN d.attr /\ d.attr[Vcpus] = w.vcpus /\ d.anet = w.nics
    BY DEF Written
<1>16. ASSUME NEW i \in 1 .. Len(w.disks) PROVE vm.disks[i].zvol = w.disks[i].zvol
    BY <1>1, <1>5, <1>7, <1>15
<1>17. ASSUME NEW i \in 1 .. Len(w.cdroms) PROVE vm.cdroms[i] = w.cdroms[i]
    BY <1>1, <1>5, <1>7, <1>15
<1>8. /\ \A i \in 1 .. Len(w.disks) : vm.disks[i].zvol = w.disks[i].zvol
      /\ \A i \in 1 .. Len(w.cdroms) : vm.cdroms[i] = w.cdroms[i]
    BY <1>16, <1>17
<1>9. DOMAIN vm.disks = DOMAIN w.disks /\ DOMAIN vm.cdroms = DOMAIN w.cdroms
      /\ vm.cdroms = [i \in 1 .. Len(w.cdroms) |-> vm.cdroms[i]]
    BY <1>5, <1>6, <1>7 DEF IsSeq
<1>10. Zvols(vm) = Zvols(w)
    BY <1>6, <1>8, <1>9 DEF Zvols
<1>11. vm.cdroms = w.cdroms
    BY <1>6, <1>8, <1>9
<1>12. vm.vcpus = w.vcpus /\ vm.nics = w.nics
    BY <1>1, <1>5, <1>15
<1>13. ZvolsOf(d) = ToSet(Zvols(w))
  <2>1. ZvolsOf(d) = {vm.disks[i].zvol : i \in DOMAIN vm.disks}
      BY <1>5, <1>14
  <2>2. ToSet(Zvols(vm)) = {vm.disks[i].zvol : i \in DOMAIN vm.disks}
    <3>1. DOMAIN Zvols(vm) = DOMAIN vm.disks /\ \A i \in DOMAIN vm.disks : Zvols(vm)[i] = vm.disks[i].zvol
        BY DEF Zvols
    <3> QED
        BY <3>1 DEF ToSet
  <2> QED
      BY <1>10, <2>1, <2>2
<1> QED
    BY <1>3, <1>10, <1>11, <1>12, <1>13 DEF vm, c

\* What the commands make of the configuration.
LEMMA RunWrites ==
    ASSUME HandledInv, NEW r \in Requests, RunZonecfg(r), IsVm, NEW vm, Mine(vm, config),
           req[r].spec = RenderUpdate(Read(config), ToZoneSpec(vm))
    PROVE  Written(vm, config') /\ Agrees(config')
<1>1. /\ Zonecfg(config, req[r].spec).ok
      /\ config' = Zonecfg(config, req[r].spec).config
    BY DEF RunZonecfg
<1>2. UpdatedTo(ToZoneSpec(vm), config, config, config')
    BY <1>1, UpdateRuns
<1> QED
    BY <1>2, WrittenBack, WrittenAgrees DEF IsVm

\* What a request wants is what the configuration becomes, where nobody met.
LEMMA WantedWritten ==
    ASSUME KnownInv, NEW r \in Requests, RunZonecfg(r), IsVm, Calm
    PROVE  LET q == req[r]
               vm == SpecFrom(Read(config))
               w == WantedOf(q, vm)
           IN  /\ q.op \in ConfigOps /\ Mine(vm, config) /\ Mine(w, config) /\ Meant(q, vm)
               /\ Written(w, config') /\ AttrOK(config')
               /\ q.op = "add_disk" => Len(vm.disks) \in DOMAIN members
               /\ q.op = "remove_disk" => q.index + 1 \in DOMAIN vm.disks
               /\ q.op = "detach_cdrom" => q.index + 1 \in DOMAIN vm.cdroms
<1> DEFINE q == req[r]
           vm == SpecFrom(Read(config))
           w == WantedOf(q, vm)
<1>1. /\ q.stage = "zonecfg" /\ Posed(q, config) /\ HandledInv
      /\ Fresh(q, config, members)
    BY DEF RunZonecfg, At, KnownInv, VmInv, HandledInv, Carries, FreshInv
<1>2. q.op \in ConfigOps
    BY <1>1 DEF Fresh, Posed, Working, IsVm, VmOps, ConfigOps, SnapshotOps
<1>3. /\ q.spec = RenderUpdate(Read(config), Wanted(q, config)) /\ Mine(w, config)
      /\ Meant(q, vm) /\ (q.op = "add_disk" => Len(vm.disks) \in DOMAIN members)
    BY <1>1, <1>2 DEF Fresh
<1>4. Wanted(q, config) = ToZoneSpec(w)
    BY <1>2 DEF Wanted, ConfigOps
<1>5. Mine(vm, config)
    BY VmFound
<1> HIDE DEF w, vm
<1>6. Written(w, config')
    BY <1>1, <1>3, <1>4, RunWrites
<1>7. AttrOK(config')
    BY <1>1, RunHandled DEF HandledInv, Alike
<1>8. /\ q.op = "remove_disk" => q.index + 1 \in DOMAIN vm.disks
      /\ q.op = "detach_cdrom" => q.index + 1 \in DOMAIN vm.cdroms
    BY <1>1, <1>3 DEF Meant
<1> QED
    BY <1>2, <1>3, <1>5, <1>6, <1>7, <1>8 DEF w, vm

\* The zvols of what a request wants.
LEMMA WantedZvols ==
    ASSUME NEW q, q.op \in ConfigOps, NEW vm, IsVmSpec(vm),
           q.op = "remove_disk" => q.index + 1 \in DOMAIN vm.disks,
           \A i, j \in DOMAIN Zvols(vm) : Zvols(vm)[i] = Zvols(vm)[j] => i = j
    PROVE  LET w == WantedOf(q, vm)
           IN  /\ ToSet(Zvols(w)) \subseteq
                     ToSet(Zvols(vm)) \cup (IF q.op = "add_disk" THEN {Len(vm.disks)} ELSE {})
               /\ q.op = "remove_disk" => vm.disks[q.index + 1].zvol \notin ToSet(Zvols(w))
<1> DEFINE w == WantedOf(q, vm)
           n == q.index + 1
<1>1. /\ Zvols(w) = CASE q.op = "add_disk" -> Append(Zvols(vm), Len(vm.disks))
                      [] q.op = "remove_disk" -> RemoveAt(Zvols(vm), n)
                      [] OTHER -> Zvols(vm)
      /\ IsSeq(Zvols(vm)) /\ Len(Zvols(vm)) = Len(vm.disks)
    BY WantedIs
<1> HIDE DEF w, n
<1>2. CASE q.op = "add_disk"
  <2> DEFINE s == Append(Zvols(vm), Len(vm.disks))
  <2>1. /\ DOMAIN Zvols(vm) = 1 .. Len(Zvols(vm)) /\ DOMAIN s = 1 .. Len(Zvols(vm)) + 1
        /\ \A i \in 1 .. Len(Zvols(vm)) : s[i] = Zvols(vm)[i]
        /\ s[Len(Zvols(vm)) + 1] = Len(vm.disks)
      BY <1>1, Appended
  <2>2. Zvols(w) = s /\ Len(Zvols(vm)) \in Nat
      BY <1>1, <1>2 DEF IsSeq
  <2> HIDE DEF s
  <2>3. \A i \in 1 .. Len(Zvols(vm)) + 1 : i \in 1 .. Len(Zvols(vm)) \/ i = Len(Zvols(vm)) + 1
      BY <2>2
  <2>4. ToSet(s) \subseteq ToSet(Zvols(vm)) \cup {Len(vm.disks)}
      BY <2>1, <2>3 DEF ToSet
  <2> QED
      BY <1>2, <2>2, <2>4 DEF w
<1>3. CASE q.op = "remove_disk"
  <2>1. n \in DOMAIN Zvols(vm) /\ Zvols(vm)[n] = vm.disks[n].zvol
      BY <1>3 DEF Zvols, n
  <2>2. ToSet(RemoveAt(Zvols(vm), n)) = ToSet(Zvols(vm)) \ {Zvols(vm)[n]}
      BY <1>1, <2>1, RemovedIsGone
  <2>3. Zvols(w) = RemoveAt(Zvols(vm), n)
      BY <1>1, <1>3
  <2> QED
      BY <1>3, <2>1, <2>2, <2>3 DEF w, n
<1>4. CASE q.op \notin {"add_disk", "remove_disk"}
    BY <1>1, <1>4 DEF w
<1> QED
    BY <1>2, <1>3, <1>4

\* A script leaves the VM that was wanted, whole.
LEMMA RunKnown ==
    ASSUME KnownInv, NEW r \in Requests, RunZonecfg(r)
    PROVE  AgreesInv' /\ FreshInv'
<1> DEFINE q == req[r]
           stage == IF q.purge THEN "purge" ELSE "show"
           new == [q EXCEPT !.stage = stage]
           vm == SpecFrom(Read(config))
           w == WantedOf(q, vm)
<1>1. /\ q.stage = "zonecfg" /\ q.stage \in Working /\ Then(r, stage, << >>, sizes)
      /\ UNCHANGED <<members, overlapped>>
    BY DEF RunZonecfg, At, Working
<1>2. /\ VmTyped /\ SoloVm /\ HandledInv /\ IsVmRequest(q) /\ Posed(q, config)
    BY DEF KnownInv, VmInv, RollbackInv, VmTyped, HandledInv, Carries
<1>3. /\ VmStep(r)
      /\ \/ req'[r] = OverVm /\ sizes' = sizes /\ cuts' # 0
         \/ sizes' = sizes /\ req'[r] = new
    BY <1>1, <1>2, ThenIs
<1>4. /\ IsVmRequest(new) /\ new.stage = stage /\ new.op = q.op /\ new.index = q.index
      /\ new.disk = q.disk /\ new.meant = q.meant
    BY <1>2, StageIs
<1> HIDE DEF new
<1>5. OverVm.stage = "over" /\ stage \in {"purge", "show"}
    BY OverIsRequest
<1>6. req'[r].stage \in {"over", "purge", "show"}
    BY <1>3, <1>4, <1>5
<1>7. (IsVm' <=> IsVm) /\ HandledInv'
    BY <1>2, RunHandled, RunIs DEF UpdatedTo, IsVm
<1>8. ASSUME ~overlapped', NEW p \in Requests, p # r
      PROVE  p \notin Busy' /\ req'[p].stage \notin Working
  <2>1. p \notin Busy'
      BY <1>2, <1>3, <1>8, OthersRest
  <2> QED
      BY <2>1, <1>8 DEF Busy
<1>9. AgreesInv'
  <2> SUFFICES ASSUME ~overlapped', IsVm'
               PROVE  Agrees(config') /\ \A p \in Requests : UpdatesVm(req'[p], config')
      BY DEF AgreesInv
  <2>1. ~overlapped /\ IsVm
      BY <1>1, <1>7
  <2>2. UpdatesVm(q, config)
      BY <2>1 DEF KnownInv, AgreesInv
  <2>3. PICK v : Mine(v, config) /\ q.spec = RenderUpdate(Read(config), ToZoneSpec(v))
      BY <1>1, <2>2 DEF UpdatesVm
  <2>4. Agrees(config')
      BY <1>2, <2>1, <2>3, RunWrites
  <2>5. ASSUME NEW p \in Requests PROVE UpdatesVm(req'[p], config')
    <3>1. CASE p = r
        BY <1>6, <3>1 DEF UpdatesVm
    <3>2. CASE p # r
        BY <1>8, <3>2, IdleIsFresh
    <3> QED
        BY <3>1, <3>2
  <2> QED
      BY <2>4, <2>5
<1>10. ASSUME Calm', IsVm
       PROVE  /\ ZvolsOf(config') \subseteq DOMAIN members
              /\ q.op = "remove_disk" => q.disk \notin ZvolsOf(config') /\ q.meant \in {q.disk, NoDisk}
  <2>1. Calm /\ ~overlapped
      BY <1>3, <1>10, CalmBefore
  <2>2. /\ q.op \in ConfigOps /\ Mine(vm, config) /\ Mine(w, config) /\ Meant(q, vm)
        /\ Written(w, config') /\ AttrOK(config')
        /\ q.op = "add_disk" => Len(vm.disks) \in DOMAIN members
        /\ q.op = "remove_disk" => q.index + 1 \in DOMAIN vm.disks
      BY <1>10, <2>1, WantedWritten
  <2>3. ZvolsOf(config') = ToSet(Zvols(w))
      BY <2>2, WrittenFound
  <2>4. ZvolsOf(config) = {vm.disks[i].zvol : i \in DOMAIN vm.disks}
      BY <1>10, VmFound
  <2>5. ZvolsOf(config) \subseteq DOMAIN members
      BY <1>10, <2>1 DEF KnownInv, FreshInv
  <2>6. \A i, j \in DOMAIN Zvols(vm) : Zvols(vm)[i] = Zvols(vm)[j] => i = j
      BY <1>10, <2>1, FoundApart
  <2>7. IsVmSpec(vm)
      BY <2>2 DEF Mine
  <2> HIDE DEF vm
  <2>8. ToSet(Zvols(vm)) = ZvolsOf(config)
    <3>1. DOMAIN Zvols(vm) = DOMAIN vm.disks /\ \A i \in DOMAIN vm.disks : Zvols(vm)[i] = vm.disks[i].zvol
        BY DEF Zvols
    <3> QED
        BY <2>4, <3>1 DEF ToSet
  <2>9. /\ ToSet(Zvols(w)) \subseteq
              ToSet(Zvols(vm)) \cup (IF q.op = "add_disk" THEN {Len(vm.disks)} ELSE {})
        /\ q.op = "remove_disk" => vm.disks[q.index + 1].zvol \notin ToSet(Zvols(w))
      BY <2>2, <2>6, <2>7, WantedZvols
  <2> HIDE DEF w
  <2>10. q.op = "remove_disk" => q.disk = vm.disks[q.index + 1].zvol /\ q.meant \in {q.disk, NoDisk}
      BY <1>1, <2>2 DEF Meant
  <2> QED
      BY <2>2, <2>3, <2>5, <2>8, <2>9, <2>10
<1>11. FreshInv'
  <2> SUFFICES ASSUME Calm'
               PROVE  /\ sizes' \in {<< >>, <<SizesNow'>>}
                      /\ IsVm' => ZvolsOf(config') \subseteq DOMAIN members'
                      /\ \A p \in Requests : Fresh(req'[p], config', members')
      BY DEF FreshInv
  <2>1. Calm /\ ~overlapped'
      BY <1>3, CalmBefore DEF Calm
  <2>2. sizes' = sizes /\ sizes \in {<< >>, <<SizesNow>>} /\ SizesNow' = SizesNow
      BY <1>1, <1>3, <2>1 DEF KnownInv, FreshInv, SizesNow
  <2>3. IsVm' => ZvolsOf(config') \subseteq DOMAIN members'
      BY <1>1, <1>7, <1>10
  <2>4. Fresh(req'[r], config', members')
    <3>1. req'[r] = new
        BY <1>3 DEF Calm
    <3>2. CASE stage = "show"
        BY <1>4, <3>1, <3>2, RestIsFresh
    <3>3. CASE stage = "purge"
      <4>1. q.op = "remove_disk"
          BY <1>2, <3>3 DEF Posed
      <4>2. IsVm
          BY <1>1, <1>2, <4>1 DEF Posed, ZoneOps, IsVm
      <4>3. new.disk \notin ZvolsOf(config') /\ new.meant \in {new.disk, NoDisk}
          BY <1>4, <1>10, <4>1, <4>2
      <4>4. new.op = "remove_disk" /\ new.stage = "purge"
          BY <1>4, <3>3, <4>1
      <4>5. \A v : Meant(new, v)
          BY <4>3, <4>4 DEF Meant
      <4> QED
          BY <3>1, <4>3, <4>4, <4>5 DEF Fresh
    <3> QED
        BY <1>5, <3>2, <3>3
  <2>5. ASSUME NEW p \in Requests PROVE Fresh(req'[p], config', members')
    <3>1. CASE p = r
        BY <2>4, <3>1
    <3>2. CASE p # r
        BY <1>8, <2>1, <3>2, IdleIsFresh
    <3> QED
        BY <3>1, <3>2
  <2> QED
      BY <2>2, <2>3, <2>5
<1> QED
    BY <1>9, <1>11

\* A command that ends, well or dropped, and leaves the configuration as it is.
LEMMA ThenKnown ==
    ASSUME KnownInv, NEW r \in Requests, NEW stage \in {"write", "show", "over"}, NEW cache0, NEW sizes0,
           Then(r, stage, cache0, sizes0), req[r].stage \in Working,
           UNCHANGED <<config, overlapped>>,
           Calm => sizes0 \in {<< >>, <<SizesNow'>>},
           Calm /\ IsVm => ZvolsOf(config) \subseteq DOMAIN members',
           stage = "write" /\ Calm => Fresh([req[r] EXCEPT !.stage = "write"], config, members')
    PROVE  AgreesInv' /\ FreshInv'
<1> DEFINE new == [req[r] EXCEPT !.stage = stage]
<1>1. VmTyped /\ IsVmRequest(req[r])
    BY DEF KnownInv, VmInv, RollbackInv, VmTyped
<1>2. /\ VmStep(r)
      /\ \/ req'[r] = OverVm /\ sizes' = sizes /\ cuts' # 0
         \/ sizes' = sizes0 /\ req'[r] = IF stage = "over" THEN OverVm ELSE new
    BY <1>1, ThenIs
<1>3. new.stage = stage
    BY <1>1, StageIs
<1>4. OverVm.stage = "over"
    BY OverIsRequest
<1>5. ~overlapped' /\ IsVm => UpdatesVm(req'[r], config)
    BY <1>2, <1>3, <1>4 DEF UpdatesVm
<1>6. ASSUME Calm'
      PROVE  /\ sizes' \in {<< >>, <<SizesNow'>>}
             /\ IsVm => ZvolsOf(config) \subseteq DOMAIN members'
             /\ Fresh(req'[r], config, members')
  <2>1. Calm
      BY <1>2, <1>6, CalmBefore
  <2>2. sizes' = sizes0 /\ req'[r] = IF stage = "over" THEN OverVm ELSE new
      BY <1>2, <1>6 DEF Calm
  <2>3. Fresh(req'[r], config, members')
    <3>1. CASE stage = "write"
        BY <2>1, <2>2, <3>1
    <3>2. CASE stage # "write"
      <4>1. req'[r].stage \in {"over", "show"}
          BY <1>3, <1>4, <2>2, <3>2
      <4> QED
          BY <4>1, RestIsFresh
    <3> QED
        BY <3>1, <3>2
  <2> QED
      BY <2>1, <2>2, <2>3
<1> QED
    BY <1>2, <1>5, <1>6, KnownOn

\* The zvol of a new disk is made before the disk is configured.
LEMMA MakeKnown ==
    ASSUME KnownInv, NEW r \in Requests, MakeDisk(r)
    PROVE  AgreesInv' /\ FreshInv'
<1> DEFINE q == req[r]
           d == NewDisk(r)
           new == [q EXCEPT !.stage = "write"]
           vm == SpecFrom(Read(config))
<1>1. /\ q.stage = "act" /\ q.op = "add_disk" /\ q.stage \in Working
      /\ DOMAIN members' = DOMAIN members \cup {d}
      /\ Then(r, "write", cache, << >>)
      /\ UNCHANGED <<config, overlapped>>
    BY DEF MakeDisk, Doing, At, Working
<1>2. IsVmRequest(q)
    BY DEF KnownInv, VmInv, RollbackInv, VmTyped
<1>3. new.stage = "write" /\ new.op = q.op /\ new.spec = q.spec
    BY <1>2, StageIs
<1> HIDE DEF new
<1>4. Calm => /\ IsVm => ZvolsOf(config) \subseteq DOMAIN members
              /\ q.spec = vm
    BY <1>1 DEF KnownInv, FreshInv, Fresh, ConfigOps
<1> HIDE DEF vm
<1>5. Calm => Len(vm.disks) \in DOMAIN members'
    BY <1>1, <1>4 DEF NewDisk
<1>6. Calm => Fresh(new, config, members')
    BY <1>1, <1>3, <1>4, <1>5 DEF Fresh, Meant, ConfigOps, vm
<1> QED
    BY <1>1, <1>4, <1>6, ThenKnown DEF new

\* The members stay, whatever their sizes become.
LEMMA ResizeKnown ==
    ASSUME KnownInv, NEW r \in Requests, ResizeDisk(r)
    PROVE  AgreesInv' /\ FreshInv'
<1>1. /\ req[r].stage \in Working /\ DOMAIN members' = DOMAIN members
      /\ Then(r, "show", cache, << >>)
      /\ UNCHANGED <<config, overlapped>>
    BY DEF ResizeDisk, Doing, At, Working
<1>2. Calm /\ IsVm => ZvolsOf(config) \subseteq DOMAIN members'
    BY <1>1 DEF KnownInv, FreshInv
<1> QED
    BY <1>1, <1>2, ThenKnown

\* What is purged is no disk of the VM.
LEMMA PurgeKnown ==
    ASSUME KnownInv, NEW r \in Requests, Purge(r)
    PROVE  AgreesInv' /\ FreshInv'
<1>1. /\ req[r].stage = "purge" /\ req[r].stage \in Working
      /\ DOMAIN members' = DOMAIN members \ {req[r].disk}
      /\ Then(r, "show", cache, << >>)
      /\ UNCHANGED <<config, overlapped>>
    BY DEF Purge, At, Working
<1>2. Calm /\ IsVm => ZvolsOf(config) \subseteq DOMAIN members /\ req[r].disk \notin ZvolsOf(config)
    BY <1>1 DEF KnownInv, FreshInv, Fresh
<1>3. Calm /\ IsVm => ZvolsOf(config) \subseteq DOMAIN members'
    BY <1>1, <1>2
<1> QED
    BY <1>1, <1>3, ThenKnown

\* What changes data and snapshots alone leaves the sizes.
SameSizes ==
    DOMAIN members' = DOMAIN members /\ \A d \in DOMAIN members : members'[d].size = members[d].size

\* What neither makes, grows nor purges a disk leaves all sizes.
LEMMA SizesStay ==
    ASSUME SameSizes
    PROVE  SizesNow' = SizesNow
BY DEF SameSizes, SizesNow

\* Taking and deleting a snapshot changes none of what is known.
LEMMA SnapshotKnown ==
    ASSUME KnownInv, NEW r \in Requests, CreateSnapshot(r) \/ DeleteSnapshot(r)
    PROVE  AgreesInv' /\ FreshInv' /\ SameSizes
<1>1. /\ req[r].stage \in Working /\ Then(r, "over", cache, sizes)
      /\ UNCHANGED <<config, overlapped>>
    BY DEF CreateSnapshot, DeleteSnapshot, Doing, At, Working
<1>2. \A d \in DOMAIN members : IsMember(members[d])
    BY DEF KnownInv, VmInv, RollbackInv, VmTyped
<1>3. SameSizes
  <2>1. CASE CreateSnapshot(r)
      BY <1>2, <2>1 DEF CreateSnapshot, SameSizes, IsMember
  <2>2. CASE DeleteSnapshot(r)
      BY <1>2, <2>2 DEF DeleteSnapshot, SameSizes, IsMember
  <2> QED
      BY <2>1, <2>2
<1>4. SizesNow' = SizesNow
    BY <1>3, SizesStay
<1>5. Calm => sizes \in {<< >>, <<SizesNow'>>} /\ (IsVm => ZvolsOf(config) \subseteq DOMAIN members')
    BY <1>3, <1>4 DEF KnownInv, FreshInv, SameSizes
<1> QED
    BY <1>1, <1>3, <1>5, ThenKnown

\* Neither does a rollback.
LEMMA RollbackKnown ==
    ASSUME KnownInv, NEW r \in Requests, RollbackSnapshot(r)
    PROVE  AgreesInv' /\ FreshInv' /\ SameSizes
<1> DEFINE q == req[r]
           d == Head(q.todo)
           left == Remaining(q.todo)
           new == [q EXCEPT !.todo = left]
<1>1. /\ q.stage = "act" /\ q.op = "rollback_snapshot" /\ q.stage \in Working
      /\ d \in DOMAIN members
      /\ members' = [members EXCEPT ![d] = RolledBack(members[d], q.name)]
      /\ \/ Becomes(r, new) /\ UNCHANGED <<cache, sizes, cuts>>
         \/ Then(r, "over", cache, << >>)
      /\ UNCHANGED <<config, overlapped>>
    BY DEF RollbackSnapshot, Doing, At, Working
<1>2. /\ VmTyped /\ IsVmRequest(q) /\ cuts \in Nat
      /\ \A e \in DOMAIN members : IsMember(members[e])
    BY DEF KnownInv, VmInv, RollbackInv, VmTyped
<1> HIDE DEF d
<1>3. SameSizes
  <2>1. RolledBack(members[d], q.name).size = members[d].size
      BY <1>1, <1>2 DEF RolledBack, IsMember
  <2> QED
      BY <1>1, <2>1 DEF SameSizes
<1>4. SizesNow' = SizesNow
    BY <1>3, SizesStay
<1>5. /\ Calm => sizes \in {<< >>, <<SizesNow'>>}
      /\ Calm /\ IsVm => ZvolsOf(config) \subseteq DOMAIN members'
    BY <1>3, <1>4 DEF KnownInv, FreshInv, SameSizes
<1>6. CASE Then(r, "over", cache, << >>)
    BY <1>1, <1>3, <1>5, <1>6, ThenKnown
<1>7. CASE Becomes(r, new) /\ UNCHANGED <<cache, sizes, cuts>>
  <2>1. IsVmRequest(new) /\ new.stage = "act" /\ new.op = q.op
      BY <1>1, <1>2 DEF IsVmRequest, VmFields
  <2> HIDE DEF new
  <2>2. VmStep(r) /\ req'[r] = new
      BY <1>1, <1>2, <1>7, <2>1, StepOf
  <2>3. Fresh(new, config, members') /\ UpdatesVm(new, config)
      BY <1>1, <2>1, RestIsFresh DEF ConfigOps
  <2>4. Calm' => Calm
      BY <1>1, <1>7 DEF Calm
  <2> QED
      BY <1>1, <1>3, <1>5, <1>7, <2>2, <2>3, <2>4, KnownOn
<1> QED
    BY <1>1, <1>6, <1>7

\* A request begins.
LEMMA AskStep ==
    ASSUME VmTyped, NEW r \in Requests, Ask(r)
    PROVE  VmStep(r)
<1>1. PICK q : IsVmRequest(q) /\ Becomes(r, q)
    BY AskIs
<1>2. /\ req' = [p \in Requests |-> IF p = r THEN req'[r] ELSE req[p]]
      /\ IsVmRequest(req'[r])
    BY <1>1, BecomesStep
<1>3. overlapped' = (overlapped \/ Busy # {}) /\ cuts' = cuts
    BY DEF Ask
<1> QED
    BY <1>2, <1>3 DEF VmStep, VmTyped

\* What no request does.
LEMMA RestKnown ==
    ASSUME KnownInv, Expire \/ GuestWrites \/ GuestHalts \/ UNCHANGED vmVars
    PROVE  AgreesInv' /\ FreshInv' /\ SameSizes
<1>1. UNCHANGED <<config, req, overlapped, cuts>> /\ sizes' \in {sizes, << >>}
    BY DEF Expire, GuestWrites, GuestHalts, vmVars
<1>2. SameSizes
  <2>1. CASE GuestWrites
    <3>1. \A d \in DOMAIN members : IsMember(members[d])
        BY DEF KnownInv, VmInv, RollbackInv, VmTyped
    <3> QED
        BY <2>1, <3>1 DEF GuestWrites, SameSizes, IsMember
  <2>2. CASE Expire \/ GuestHalts \/ UNCHANGED vmVars
      BY <2>2 DEF Expire, GuestHalts, vmVars, SameSizes
  <2> QED
      BY <2>1, <2>2
<1>3. SizesNow' = SizesNow
    BY <1>2, SizesStay
<1>4. AgreesInv'
    BY <1>1 DEF KnownInv, AgreesInv, IsVm
<1>5. FreshInv'
  <2> SUFFICES ASSUME Calm'
               PROVE  /\ sizes' \in {<< >>, <<SizesNow'>>}
                      /\ IsVm' => ZvolsOf(config') \subseteq DOMAIN members'
                      /\ \A p \in Requests : Fresh(req'[p], config', members')
      BY DEF FreshInv
  <2>1. /\ sizes \in {<< >>, <<SizesNow>>}
        /\ IsVm => ZvolsOf(config) \subseteq DOMAIN members
        /\ \A p \in Requests : Fresh(req[p], config, members)
      BY <1>1 DEF KnownInv, FreshInv, Calm
  <2>2. ASSUME NEW p \in Requests PROVE Fresh(req'[p], config', members')
    <3>1. /\ Fresh(req[p], config, members) /\ req'[p] = req[p] /\ config' = config
          /\ DOMAIN members' = DOMAIN members
          /\ \A d \in DOMAIN members : members'[d].size = members[d].size
        BY <1>1, <1>2, <2>1 DEF SameSizes
    <3>2. req[p].stage = "act" /\ req[p].op = "resize_disk" =>
             req[p].disk \in DOMAIN members' /\ req[p].new > members'[req[p].disk].size
        BY <3>1 DEF Fresh
    <3> QED
        BY <3>1, <3>2 DEF Fresh
  <2> QED
      BY <1>1, <1>2, <1>3, <2>1, <2>2 DEF SameSizes, IsVm
<1> QED
    BY <1>2, <1>4, <1>5

\* Every step keeps what is known.
LEMMA KnownNext ==
    KnownInv /\ [VmNext]_vmVars => AgreesInv' /\ FreshInv'
<1> SUFFICES ASSUME KnownInv, [VmNext]_vmVars PROVE AgreesInv' /\ FreshInv'
    OBVIOUS
<1>1. ASSUME NEW r \in Requests, Ask(r) PROVE AgreesInv' /\ FreshInv'
    BY <1>1, AskStep, AskKnown DEF KnownInv, VmInv, RollbackInv
<1>2. ASSUME NEW r \in Requests,
             \/ FindVm(r) \/ Size(r) \/ Show(r) \/ Look(r)
             \/ RunZonecfg(r) \/ UpdateZone(r) \/ UpdateVm(r) \/ MakeDisk(r) \/ AddDisk(r) \/ ResizeDisk(r)
             \/ RemoveDisk(r) \/ Purge(r) \/ AttachCdrom(r) \/ DetachCdrom(r)
             \/ CreateSnapshot(r) \/ DeleteSnapshot(r) \/ RollbackSnapshot(r)
             \/ StartVm(r) \/ StopVm(r) \/ Note(r) \/ Fail(r)
      PROVE  AgreesInv' /\ FreshInv'
    BY <1>2, FindKnown, SizeKnown, LooksKnown, RunKnown, WriteKnown, MakeKnown, ResizeKnown,
       PurgeKnown, SnapshotKnown, RollbackKnown
<1> QED
    BY <1>1, <1>2, RestKnown DEF VmNext

\* At first the VM agrees, and nothing has been found.
LEMMA KnownInit == VmInit => AgreesInv /\ FreshInv
<1> SUFFICES ASSUME VmInit PROVE AgreesInv /\ FreshInv
    OBVIOUS
<1>1. sizes = << >> /\ \A r \in Requests : req[r].stage = "idle"
    BY DEF VmInit, NewRequest
<1>2. \A r \in Requests : Fresh(req[r], config, members) /\ UpdatesVm(req[r], config)
    BY <1>1, IdleIsFresh DEF Working
<1> QED
    BY <1>1, <1>2, AgreesAtFirst DEF AgreesInv, FreshInv, ZvolsOf

\* The VM as it is shown has one boot disk, and its devices and images are those shown.
LEMMA KnownDisks == KnownInv => DisksExist
<1> SUFFICES ASSUME KnownInv, IsVm
             PROVE  /\ Cardinality(BootDisk(Vm)) = 1
                    /\ \A b \in BootDisk(Vm) : b.zvol \in DOMAIN members
                    /\ ~overlapped => /\ ToSet(config.device) = ToSet(Zvols(Vm))
                                      /\ config.fs = Images(Vm)
                    /\ Calm => ToSet(Zvols(Vm)) \subseteq DOMAIN members
  <2>1. KnownInv => VmTypeOK
      BY HandledTypes DEF KnownInv, VmInv
  <2> QED
      BY <2>1 DEF DisksExist
<1> DEFINE b == [index |-> 0, zvol |-> config.attr[Bootdisk], boot |-> TRUE]
           c == Read(config)
           L == KeysOf(c, CdromKinds)
           spec == SpecFrom(c)
<1>1. BootDisk(Vm) = {b} /\ config.attr[Bootdisk] \in DOMAIN members
    BY OneBootDisk DEF KnownInv, VmInv
<1>2. b.zvol = config.attr[Bootdisk]
    OBVIOUS
<1> HIDE DEF b
<1>3. Cardinality(BootDisk(Vm)) = 1
    BY <1>1, FS_Singleton
<1>4. \A x \in BootDisk(Vm) : x.zvol \in DOMAIN members
    BY <1>1, <1>2
<1>5. AttrOK(c)
    BY VmNow DEF KnownInv, VmInv
<1>6. SpecOf(c, spec) /\ ShownAs(c, Vm, spec) /\ c.attr = config.attr
    BY <1>5, SpecFound, ShownIs, ReadIs DEF Vm
<1>7. ZvolsOf(c) = ZvolsOf(config) /\ KeysOf(config, CdromKinds) = L
    BY KeysRead
<1> HIDE DEF c, spec
<1>8. ToSet(Zvols(Vm)) = ZvolsOf(config) /\ Images(Vm) = spec.cdroms
    BY <1>6, <1>7 DEF ShownAs
<1>9. ASSUME ~overlapped
      PROVE  ToSet(config.device) = ToSet(Zvols(Vm)) /\ config.fs = Images(Vm)
  <2>1. Agrees(config)
      BY <1>9 DEF KnownInv, AgreesInv
  <2>2. ToSet(config.device) = ZvolsOf(config)
      BY <2>1 DEF Agrees, ZvolsOf
  <2> HIDE DEF L
  <2>3. config.fs = [i \in DOMAIN L |-> config.attr[L[i]]]
      BY <1>7, <2>1 DEF Agrees
  <2>4. /\ IsSeq(L) /\ IsSeq(spec.cdroms) /\ Len(spec.cdroms) = Len(L)
        /\ \A i \in 1 .. Len(L) : spec.cdroms[i] = config.attr[L[i]]
      BY <1>6 DEF SpecOf, Lists, L
  <2>5. DOMAIN L = 1 .. Len(L) /\ spec.cdroms = [i \in 1 .. Len(L) |-> spec.cdroms[i]]
      BY <2>4 DEF IsSeq
  <2>6. config.fs = spec.cdroms
      BY <2>3, <2>4, <2>5
  <2> QED
      BY <1>8, <2>2, <2>6
<1>10. Calm => ToSet(Zvols(Vm)) \subseteq DOMAIN members
    BY <1>8 DEF KnownInv, FreshInv
<1> QED
    BY <1>3, <1>4, <1>9, <1>10

-----------------------------------------------------------------------------
(* What changes is what was asked.                                         *)

\* What the API shows of a VM, next to what a handler finds.
LEMMA ShownOf ==
    ASSUME NEW c, AttrOK(c)
    PROVE  LET before == FromZoneConfig(c)
               vm == SpecFrom(c)
           IN  /\ Zvols(before) = Zvols(vm) /\ Images(before) = vm.cdroms
               /\ before.vcpus = vm.vcpus /\ before.nics = vm.nics
BY ShownIs DEF ShownAs, Zvols

\* What commands make of a calm VM is what was asked.
LEMMA VmAsked ==
    ASSUME KnownInv, NEW r \in Requests, RunZonecfg(r), IsVm, Calm
    PROVE  IsAskedOfVm(r, FromZoneConfig(Read(config)), FromZoneConfig(Read(config')))
<1> DEFINE q == req[r]
           vm == SpecFrom(Read(config))
           w == WantedOf(q, vm)
           before == FromZoneConfig(Read(config))
           after == FromZoneConfig(Read(config'))
           n == q.index + 1
<1>1. /\ q.op \in ConfigOps /\ Mine(vm, config) /\ Mine(w, config) /\ Meant(q, vm)
      /\ Written(w, config') /\ AttrOK(config')
      /\ q.op = "add_disk" => Len(vm.disks) \in DOMAIN members
      /\ q.op = "remove_disk" => n \in DOMAIN vm.disks
      /\ q.op = "detach_cdrom" => n \in DOMAIN vm.cdroms
    BY WantedWritten
<1>2. /\ IsVmRequest(q) /\ q.stage = "zonecfg" /\ Posed(q, config)
    BY DEF KnownInv, VmInv, RollbackInv, VmTyped, HandledInv, Carries, RunZonecfg, At
<1>3. AttrOK(Read(config))
    BY VmNow DEF KnownInv, VmInv
<1>4. /\ Zvols(before) = Zvols(vm) /\ Images(before) = vm.cdroms
      /\ before.vcpus = vm.vcpus /\ before.nics = vm.nics
    BY <1>3, ShownOf
<1>5. /\ Zvols(after) = Zvols(w) /\ Images(after) = w.cdroms
      /\ after.vcpus = w.vcpus /\ after.nics = w.nics
    BY <1>1, WrittenFound, ShownOf
<1>6. /\ \A i, j \in DOMAIN Zvols(vm) : Zvols(vm)[i] = Zvols(vm)[j] => i = j
      /\ \A i, j \in DOMAIN vm.cdroms : vm.cdroms[i] = vm.cdroms[j] => i = j
    BY FoundApart DEF Calm
<1> HIDE DEF vm, before, after
<1>7. IsVmSpec(vm) /\ IsSeq(vm.cdroms) /\ IsSeq(vm.disks)
    BY <1>1 DEF Mine, IsVmSpec
<1>8. /\ Zvols(w) = CASE q.op = "add_disk" -> Append(Zvols(vm), Len(vm.disks))
                      [] q.op = "remove_disk" -> RemoveAt(Zvols(vm), n)
                      [] OTHER -> Zvols(vm)
      /\ w.cdroms = CASE q.op = "attach_cdrom" -> Append(vm.cdroms, q.new)
                      [] q.op = "detach_cdrom" -> RemoveAt(vm.cdroms, n)
                      [] OTHER -> vm.cdroms
      /\ w.vcpus = IF q.op = "update_vm" /\ q.name # "nics" THEN q.new ELSE vm.vcpus
      /\ w.nics = IF q.op = "update_vm" /\ q.name = "nics" THEN <<q.new>> ELSE vm.nics
      /\ IsSeq(Zvols(vm)) /\ Len(Zvols(vm)) = Len(vm.disks)
    BY <1>1, <1>7, WantedIs
<1>9. \A i, j \in 1 .. Len(w.disks) : w.disks[i].zvol = w.disks[j].zvol => i = j
    BY <1>1 DEF Written
<1>10. DOMAIN w.disks = 1 .. Len(w.disks)
    BY <1>1 DEF Mine, IsVmSpec, IsSeq
<1> HIDE DEF w
<1>11. q.op = "update_vm" => q.name \in {"vcpus", "nics"}
    BY <1>2 DEF Posed
<1>12. /\ after.vcpus = IF q.op = "update_vm" /\ q.name = "vcpus" THEN q.new ELSE before.vcpus
       /\ after.nics = IF q.op = "update_vm" /\ q.name = "nics" THEN <<q.new>> ELSE before.nics
    BY <1>4, <1>5, <1>8, <1>11
<1>13. q.op = "add_disk" =>
          \E d \in DOMAIN members \ ToSet(Zvols(before)) : Zvols(after) = Append(Zvols(before), d)
  <2> SUFFICES ASSUME q.op = "add_disk"
               PROVE  \E d \in DOMAIN members \ ToSet(Zvols(vm)) : Zvols(w) = Append(Zvols(vm), d)
      BY <1>4, <1>5
  <2> DEFINE d == Len(vm.disks)
             s == Append(Zvols(vm), d)
  <2>1. Zvols(w) = s /\ d \in DOMAIN members /\ d \in Nat
      BY <1>1, <1>7, <1>8 DEF IsSeq
  <2>2. /\ DOMAIN Zvols(vm) = 1 .. d /\ DOMAIN s = 1 .. d + 1
        /\ \A i \in 1 .. d : s[i] = Zvols(vm)[i]
        /\ s[d + 1] = d
      BY <1>8, Appended
  <2> HIDE DEF s, d
  <2>3. \A i \in DOMAIN s : s[i] = w.disks[i].zvol /\ i \in 1 .. Len(w.disks)
      BY <1>10, <2>1 DEF Zvols
  <2>4. d \notin ToSet(Zvols(vm))
    <3> SUFFICES ASSUME NEW i \in 1 .. d, Zvols(vm)[i] = d PROVE FALSE
        BY <2>2 DEF ToSet
    <3>1. i \in DOMAIN s /\ d + 1 \in DOMAIN s /\ s[i] = s[d + 1] /\ i # d + 1
        BY <2>1, <2>2
    <3> QED
        BY <1>9, <2>3, <3>1
  <2> QED
      BY <2>1, <2>4 DEF s
<1>14. q.op = "remove_disk" =>
          /\ q.meant # NoDisk => IsWithout(Zvols(after), Zvols(before), q.meant)
          /\ q.meant = NoDisk =>
                \E d \in ToSet(Zvols(before)) : IsWithout(Zvols(after), Zvols(before), d)
  <2> SUFFICES ASSUME q.op = "remove_disk"
               PROVE  /\ q.meant # NoDisk => IsWithout(Zvols(w), Zvols(vm), q.meant)
                      /\ q.meant = NoDisk => \E d \in ToSet(Zvols(vm)) : IsWithout(Zvols(w), Zvols(vm), d)
      BY <1>4, <1>5
  <2>1. n \in DOMAIN Zvols(vm) /\ Zvols(vm)[n] = vm.disks[n].zvol
      BY <1>1 DEF Zvols
  <2>2. IsWithout(Zvols(w), Zvols(vm), Zvols(vm)[n])
      BY <1>6, <1>8, <2>1, RemovedIsGone
  <2>3. q.meant \in {Zvols(vm)[n], NoDisk}
      BY <1>1, <1>2, <2>1 DEF Meant
  <2>4. Zvols(vm)[n] \in ToSet(Zvols(vm))
      BY <2>1 DEF ToSet
  <2> QED
      BY <2>2, <2>3, <2>4
<1>15. q.op = "detach_cdrom" => IsWithout(Images(after), Images(before), q.meant)
  <2> SUFFICES ASSUME q.op = "detach_cdrom" PROVE IsWithout(w.cdroms, vm.cdroms, q.meant)
      BY <1>4, <1>5
  <2>1. IsWithout(RemoveAt(vm.cdroms, n), vm.cdroms, vm.cdroms[n])
      BY <1>1, <1>6, <1>7, RemovedIsGone
  <2>2. q.meant = vm.cdroms[n]
      BY <1>1, <1>2 DEF Meant
  <2> QED
      BY <1>8, <2>1, <2>2
<1>16. q.op \notin {"add_disk", "remove_disk"} => Zvols(after) = Zvols(before)
    BY <1>4, <1>5, <1>8
<1>17. q.op = "attach_cdrom" => Images(after) = Append(Images(before), q.new)
    BY <1>4, <1>5, <1>8
<1>18. q.op \notin {"attach_cdrom", "detach_cdrom"} => Images(after) = Images(before)
    BY <1>4, <1>5, <1>8
<1>19. IsAskedOfVm(r, before, after)
    BY <1>12, <1>13, <1>14, <1>15, <1>16, <1>17, <1>18 DEF IsAskedOfVm
<1> QED
    BY <1>19 DEF before, after

\* What a patched setting is, and that the others are what they were.
LEMMA PatchedIs ==
    ASSUME NEW c, IsConfig(c), NEW name \in Settings, NEW value
    PROVE  LET z == ZonePatched(c, name, value)
               wanted == IF value = 0 THEN << >> ELSE <<value>>
               has(s) == IF AttrOf(s) \in DOMAIN z.attr THEN <<z.attr[AttrOf(s)]>> ELSE << >>
               had(s) == IF AttrOf(s) \in DOMAIN c.attr THEN <<c.attr[AttrOf(s)]>> ELSE << >>
           IN  /\ \A s \in {"anet", "capped-memory"} : z[s] = IF s = name THEN wanted ELSE c[s]
               /\ \A s \in {"hostname", "resolvers"} : has(s) = IF s = name THEN wanted ELSE had(s)
<1> DEFINE z == ZonePatched(c, name, value)
           wanted == IF value = 0 THEN << >> ELSE <<value>>
           has(s) == IF AttrOf(s) \in DOMAIN z.attr THEN <<z.attr[AttrOf(s)]>> ELSE << >>
           had(s) == IF AttrOf(s) \in DOMAIN c.attr THEN <<c.attr[AttrOf(s)]>> ELSE << >>
           key == AttrOf(name)
<1>1. /\ c = [f \in Fields |-> c[f]]
      /\ {"anet", "capped-memory", "attr"} \subseteq Fields
    BY DEF IsConfig, Fields, Rewritten, Caps
<1>2. CASE name \in {"anet", "capped-memory"}
  <2>1. z = [c EXCEPT ![name] = wanted]
      BY <1>2 DEF ZonePatched
  <2> HIDE DEF wanted
  <2>2. z.attr = c.attr /\ \A s \in {"anet", "capped-memory"} : z[s] = IF s = name THEN wanted ELSE c[s]
      BY <1>1, <1>2, <2>1
  <2> HIDE DEF z
  <2> QED
      BY <1>2, <2>2 DEF z, wanted
<1>3. CASE name \in {"hostname", "resolvers"}
  <2> DEFINE a == IF value = 0 THEN [k \in DOMAIN c.attr \ {key} |-> c.attr[k]]
                  ELSE Only(key, value) ++ c.attr
  <2>1. z = [c EXCEPT !.attr = a]
      BY <1>3 DEF ZonePatched
  <2> HIDE DEF a
  <2>2. z.attr = a /\ \A s \in {"anet", "capped-memory"} : z[s] = c[s]
      BY <1>1, <2>1
  <2>3. \A s : s # name => AttrOf(s) # key
      BY DEF AttrOf
  <2> HIDE DEF key
  <2>4. /\ DOMAIN a = IF value = 0 THEN DOMAIN c.attr \ {key} ELSE {key} \cup DOMAIN c.attr
        /\ value # 0 => a[key] = value
        /\ \A k \in DOMAIN c.attr \ {key} : a[k] = c.attr[k]
    <3>1. CASE value = 0
        BY <3>1 DEF a
    <3>2. CASE value # 0
      <4> DEFINE o == Only(key, value)
      <4>1. DOMAIN o = {key} /\ o[key] = value
          BY DEF Only
      <4> HIDE DEF o
      <4>2. a = o ++ c.attr
          BY <3>2 DEF o, a
      <4>3. DOMAIN a = {key} \cup DOMAIN c.attr
          BY <4>1, <4>2, OverDomain
      <4>4. a[key] = value
          BY <4>1, <4>2, OverFirst
      <4>5. \A k \in DOMAIN c.attr \ {key} : a[k] = c.attr[k]
          BY <4>1, <4>2, OverSecond
      <4> QED
          BY <3>2, <4>3, <4>4, <4>5
    <3> QED
        BY <3>1, <3>2
  <2>5. ASSUME NEW s \in {"hostname", "resolvers"}, s # name
        PROVE  has(s) = had(s)
    <3>1. AttrOf(s) # key
        BY <2>3, <2>5
    <3> QED
        BY <2>2, <2>4, <3>1
  <2>6. has(name) = wanted
      BY <2>2, <2>4 DEF key
  <2> QED
      BY <1>3, <2>2, <2>5, <2>6
<1> QED
    BY <1>2, <1>3 DEF Settings

\* What commands make of a calm zone is what was asked.
LEMMA ZoneAsked ==
    ASSUME KnownInv, NEW r \in Requests, RunZonecfg(r), ~IsVm, Calm
    PROVE  IsAskedOfZone(r, ToZone(Read(config)), ToZone(Read(config')))
<1> DEFINE q == req[r]
           c == Read(config)
           s == ZonePatched(c, q.name, q.new)
           d == config'
           wanted == IF q.new = 0 THEN << >> ELSE <<q.new>>
           had(k) == IF AttrOf(k) \in DOMAIN c.attr THEN <<c.attr[AttrOf(k)]>> ELSE << >>
           has(k) == IF AttrOf(k) \in DOMAIN s.attr THEN <<s.attr[AttrOf(k)]>> ELSE << >>
<1>1. /\ q.stage = "zonecfg" /\ Posed(q, config) /\ HandledInv
      /\ Fresh(q, config, members)
      /\ Zonecfg(config, q.spec).ok /\ d = Zonecfg(config, q.spec).config
    BY DEF RunZonecfg, At, KnownInv, VmInv, HandledInv, Carries, FreshInv
<1>2. q.op = "update_zone" /\ q.name \in Settings
    BY <1>1 DEF Fresh, Posed, Working, IsVm, ZoneOps, ConfigOps
<1>3. q.spec = RenderUpdate(Read(config), s)
    BY <1>1, <1>2 DEF Fresh, Wanted
<1>4. UpdatedTo(s, config, config, d)
    BY <1>1, <1>3, UpdateRuns
<1>5. Alike(config, config) /\ Alike(c, config) /\ c.brand # "bhyve"
    BY <1>1, ReadAlike, ReadIs DEF HandledInv, IsVm
<1>6. IsConfig(c) /\ IsConfig(config)
    BY <1>5 DEF Alike
<1>7. Alike(s, config)
    BY <1>2, <1>5, PatchedAlike
<1>8. IsConfig(s)
    BY <1>7 DEF Alike
<1>9. c.attr = config.attr
    BY ReadIs
<1>10. /\ \A k \in {"anet", "capped-memory"} : s[k] = IF k = q.name THEN wanted ELSE c[k]
       /\ \A k \in {"hostname", "resolvers"} : has(k) = IF k = q.name THEN wanted ELSE had(k)
    BY <1>2, <1>6, PatchedIs
<1>11. c["capped-memory"] = IF config["capped-memory"] = << >> THEN << >>
                            ELSE <<Last(config["capped-memory"])>>
    BY <1>6 DEF Read, FinishResource, Caps, Fields, Rewritten
<1>12. /\ Read(d).anet = d.anet /\ Read(d).attr = d.attr
       /\ Read(d)["capped-memory"] = IF d["capped-memory"] = << >> THEN << >>
                                     ELSE <<Last(d["capped-memory"])>>
    BY ReadIs DEF Read, FinishResource, Caps, Fields, Rewritten
<1>13. \A x : Last(<<x>>) = x /\ <<x>> # << >>
    BY DEF Last
<1> HIDE DEF s, c, d
<1>14. d.anet = s.anet /\ d["capped-memory"] = s["capped-memory"]
  <2>1. \A kind \in Rewritten : IsSeq(s[kind])
      BY <1>8 DEF IsConfig
  <2>2. \A kind \in {"anet", "capped-memory"} :
           d[kind] = (IF config[kind] = << >> THEN config[kind] ELSE << >>) \o s[kind]
      BY <1>4 DEF UpdatedTo, Rewritten, Caps
  <2>3. \A kind \in {"anet", "capped-memory"} : d[kind] = << >> \o s[kind] /\ IsSeq(s[kind])
      BY <2>1, <2>2 DEF Rewritten, Caps
  <2> QED
      BY <2>3, NothingBefore
<1>15. Read(d).anet = IF "anet" = q.name THEN wanted ELSE c.anet
    BY <1>10, <1>12, <1>14
<1>16. Read(d)["capped-memory"] = IF "capped-memory" = q.name THEN wanted ELSE c["capped-memory"]
  <2>1. s["capped-memory"] \in {<< >>} \cup {<<x>> : x \in {q.new, Last(config["capped-memory"])}}
      BY <1>10, <1>11
  <2>2. Read(d)["capped-memory"] = s["capped-memory"]
      BY <1>12, <1>13, <1>14, <2>1
  <2> QED
      BY <1>10, <2>2
<1>17. ASSUME NEW k \in {"hostname", "resolvers"}
       PROVE  (IF AttrOf(k) \in DOMAIN d.attr THEN <<d.attr[AttrOf(k)]>> ELSE << >>)
                  = IF k = q.name THEN wanted ELSE had(k)
  <2>1. IsManaged(AttrOf(k))
      BY DEF IsManaged, AttrOf
  <2> DEFINE key == AttrOf(k)
  <2> HIDE DEF key
  <2>2. /\ DOMAIN d.attr = DOMAIN s.attr \cup (DOMAIN config.attr \ {j \in DOMAIN config.attr : IsManaged(j)})
        /\ \A j \in DOMAIN s.attr : d.attr[j] = s.attr[j]
      BY <1>4 DEF UpdatedTo
  <2>3. (key \in DOMAIN d.attr <=> key \in DOMAIN s.attr) /\ (key \in DOMAIN s.attr => d.attr[key] = s.attr[key])
      BY <2>1, <2>2 DEF key
  <2>4. (IF key \in DOMAIN d.attr THEN <<d.attr[key]>> ELSE << >>) = has(k)
      BY <2>3 DEF key
  <2> QED
      BY <1>10, <2>4 DEF key
<1> DEFINE before == ToZone(c)
           after == ToZone(Read(d))
<1>18. /\ before = [k \in Settings |-> IF k \in {"anet", "capped-memory"} THEN c[k] ELSE had(k)]
       /\ after = [k \in Settings |-> IF k \in {"anet", "capped-memory"} THEN Read(d)[k]
                     ELSE IF AttrOf(k) \in DOMAIN d.attr THEN <<d.attr[AttrOf(k)]>> ELSE << >>]
    BY <1>12 DEF ToZone, Settings
<1> HIDE DEF before, after, had, has, wanted
<1>19. \A k \in Settings : after[k] = IF k = q.name THEN wanted ELSE before[k]
    BY <1>15, <1>16, <1>17, <1>18 DEF Settings
<1>20. /\ before = [k \in Settings |-> before[k]]
       /\ after = [k \in Settings |-> after[k]]
    BY <1>18
<1>21. after = [before EXCEPT ![q.name] = wanted]
    BY <1>2, <1>19, <1>20
<1> QED
    BY <1>2, <1>21 DEF IsAskedOfZone, before, after, wanted, c, d

\* A command that is not dropped leaves all calm only where all was.
LEMMA CalmThen ==
    ASSUME KnownInv, NEW r \in Requests, NEW stage, NEW cache0, NEW sizes0,
           Then(r, stage, cache0, sizes0), req[r].stage \in Working, overlapped' = overlapped, Calm'
    PROVE  Calm
<1>1. VmTyped
    BY DEF KnownInv, VmInv, RollbackInv
<1>2. VmStep(r)
    BY <1>1, ThenIs
<1> QED
    BY <1>2, CalmBefore

\* The configuration becomes what was asked.
LEMMA ConfigAsked ==
    ASSUME KnownInv, [VmNext]_vmVars, config' # config, Calm'
    PROVE  IsAsked
<1>1. PICK r \in Requests : RunZonecfg(r)
    BY OnlyRunsChange DEF KnownInv, VmInv
<1>2. Calm
  <2>1. /\ req[r].stage \in Working /\ overlapped' = overlapped
        /\ Then(r, IF req[r].purge THEN "purge" ELSE "show", << >>, sizes)
      BY <1>1 DEF RunZonecfg, At, Working
  <2> QED
      BY <2>1, CalmThen
<1>3. CASE IsVm
  <2>1. IsAskedOfVm(r, FromZoneConfig(Read(config)), FromZoneConfig(Read(config')))
      BY <1>1, <1>2, <1>3, VmAsked
  <2> QED
      BY <1>3, <2>1 DEF IsAsked
<1>4. CASE ~IsVm
  <2>1. IsAskedOfZone(r, ToZone(Read(config)), ToZone(Read(config')))
      BY <1>1, <1>2, <1>4, ZoneAsked
  <2> QED
      BY <1>4, <2>1 DEF IsAsked
<1> QED
    BY <1>3, <1>4

\* Zvols of the VM as it is shown.
LEMMA ShownZvols ==
    ASSUME KnownInv, IsVm
    PROVE  ToSet(Zvols(Vm)) = ZvolsOf(config)
<1>1. AttrOK(Read(config))
    BY VmNow DEF KnownInv, VmInv
<1>2. ShownAs(Read(config), Vm, SpecFrom(Read(config)))
    BY <1>1, ShownIs DEF Vm
<1> QED
    BY <1>2, KeysRead DEF ShownAs

\* What is purged was to be; what grows was to.
LEMMA PurgeAsked ==
    ASSUME KnownInv, NEW r \in Requests, Purge(r), Calm', NEW d \in DOMAIN members
    PROVE  /\ d \notin DOMAIN members' => IsPurged(r, d)
           /\ d \in DOMAIN members' => members'[d].size = members[d].size
<1> DEFINE q == req[r]
           vm == SpecFrom(Read(config))
<1>1. /\ q.stage = "purge" /\ q.stage \in Working /\ overlapped' = overlapped
      /\ Then(r, "show", cache, << >>)
      /\ members' = [e \in DOMAIN members \ {q.disk} |-> members[e]]
    BY DEF Purge, At, Working
<1>2. Calm
    BY <1>1, CalmThen
<1>3. Posed(q, config) /\ Holds(q, config) /\ Fresh(q, config, members)
    BY <1>2 DEF KnownInv, VmInv, HandledInv, Carries, FreshInv
<1>4. q.op = "remove_disk" /\ q.purge
    BY <1>1, <1>3 DEF Holds
<1>5. IsVm
    BY <1>1, <1>3, <1>4 DEF Posed, ZoneOps, IsVm
<1>6. q.disk \notin ToSet(Zvols(Vm))
    BY <1>1, <1>3, <1>5, ShownZvols DEF Fresh
<1>7. Meant(q, vm)
    BY <1>3 DEF Fresh
<1>8. q.meant \in {q.disk, NoDisk}
    BY <1>1, <1>4, <1>7 DEF Meant
<1>9. d \notin DOMAIN members' => d = q.disk
    BY <1>1
<1>10. d \notin DOMAIN members' => IsPurged(r, d)
    BY <1>4, <1>6, <1>8, <1>9 DEF IsPurged
<1> QED
    BY <1>1, <1>10

\* What grows was to.
LEMMA ResizeAsked ==
    ASSUME KnownInv, NEW r \in Requests, ResizeDisk(r), Calm', NEW d \in DOMAIN members
    PROVE  /\ d \in DOMAIN members'
           /\ members'[d].size # members[d].size => IsGrown(r, d)
<1> DEFINE q == req[r]
           vm == SpecFrom(Read(config))
           e == q.disk
<1>1. /\ q.stage = "act" /\ q.op = "resize_disk" /\ q.stage \in Working /\ overlapped' = overlapped
      /\ Then(r, "show", cache, << >>)
      /\ e \in DOMAIN members /\ members' = [members EXCEPT ![e].size = q.new]
    BY DEF ResizeDisk, Doing, At, Working
<1>2. Calm
    BY <1>1, CalmThen
<1>3. /\ Fresh(q, config, members)
      /\ members = [x \in DOMAIN members |-> members[x]] /\ IsMember(members[e])
    BY <1>1, <1>2 DEF KnownInv, FreshInv, VmInv, RollbackInv, VmTyped
<1>4. q.new > members[e].size /\ Meant(q, vm)
    BY <1>1, <1>3 DEF Fresh
<1> HIDE DEF e, vm
<1>5. q.meant \in {q.disk, NoDisk} /\ e = q.disk
    BY <1>1, <1>4 DEF Meant, e
<1>6. /\ DOMAIN members' = DOMAIN members
      /\ d # e => members'[d] = members[d]
      /\ members'[e].size = q.new
    BY <1>1, <1>3 DEF IsMember
<1>7. members'[d].size # members[d].size => d = e
    BY <1>6
<1> QED
    BY <1>1, <1>4, <1>5, <1>6, <1>7 DEF IsGrown

\* Members change, but for data and snapshots, by these three alone.
LEMMA MembersChange ==
    ASSUME KnownInv, [VmNext]_vmVars
    PROVE  \/ SameSizes
           \/ \E r \in Requests : MakeDisk(r) \/ Purge(r) \/ ResizeDisk(r)
<1>1. ASSUME members' = members PROVE SameSizes
    BY <1>1 DEF SameSizes
<1>2. ASSUME NEW r \in Requests, CreateSnapshot(r) \/ DeleteSnapshot(r) \/ RollbackSnapshot(r)
      PROVE  SameSizes
    BY <1>2, SnapshotKnown, RollbackKnown
<1>3. ASSUME Expire \/ GuestWrites \/ GuestHalts \/ UNCHANGED vmVars PROVE SameSizes
    BY <1>3, RestKnown
<1>4. ASSUME NEW r \in Requests,
             \/ Ask(r) \/ FindVm(r) \/ Size(r) \/ Show(r) \/ Look(r)
             \/ RunZonecfg(r) \/ UpdateZone(r) \/ UpdateVm(r) \/ AddDisk(r)
             \/ RemoveDisk(r) \/ AttachCdrom(r) \/ DetachCdrom(r)
             \/ StartVm(r) \/ StopVm(r) \/ Note(r) \/ Fail(r)
      PROVE  members' = members
    BY <1>4 DEF Ask, FindVm, Size, Show, Look, RunZonecfg, UpdateZone, UpdateVm, AddDisk, RemoveDisk,
       AttachCdrom, DetachCdrom, StartVm, StopVm, Note, Fail, WriteVm, WriteSpec
<1> QED
    BY <1>1, <1>2, <1>3, <1>4 DEF VmNext

\* So members change only as was asked.
LEMMA MembersAsked ==
    ASSUME KnownInv, [VmNext]_vmVars, Calm', NEW d \in DOMAIN members
    PROVE  /\ d \notin DOMAIN members' => \E r \in Requests : IsPurged(r, d)
           /\ d \in DOMAIN members' /\ members'[d].size # members[d].size =>
                 \E r \in Requests : IsGrown(r, d)
<1>1. CASE SameSizes
    BY <1>1 DEF SameSizes
<1>2. ASSUME NEW r \in Requests, MakeDisk(r)
      PROVE  d \in DOMAIN members' /\ members'[d].size = members[d].size
    BY <1>2 DEF MakeDisk
<1>3. ASSUME NEW r \in Requests, Purge(r)
      PROVE  /\ d \notin DOMAIN members' => IsPurged(r, d)
             /\ d \in DOMAIN members' => members'[d].size = members[d].size
    BY <1>3, PurgeAsked
<1>4. ASSUME NEW r \in Requests, ResizeDisk(r)
      PROVE  d \in DOMAIN members' /\ (members'[d].size # members[d].size => IsGrown(r, d))
    BY <1>4, ResizeAsked
<1> QED
    BY <1>1, <1>2, <1>3, <1>4, MembersChange

\* Every step changes what was asked, and nothing else.
LEMMA KnownAsked ==
    ASSUME KnownInv, [VmNext]_vmVars
    PROVE  /\ config' # config => Foreign(config') = Foreign(config)
           /\ Calm' =>
                /\ config' # config => IsAsked
                /\ \A d \in DOMAIN members :
                      /\ d \notin DOMAIN members' => \E r \in Requests : IsPurged(r, d)
                      /\ d \in DOMAIN members' /\ members'[d].size # members[d].size =>
                            \E r \in Requests : IsGrown(r, d)
<1>1. config' # config => Foreign(config') = Foreign(config)
    BY OnlyRunsChange, ForeignKept DEF KnownInv, VmInv
<1> QED
    BY <1>1, ConfigAsked, MembersAsked

\* The three inductive invariants hold throughout, together.
LEMMA KnownInvariant == VmSpec => []KnownInv
<1>1. VmInit => KnownInv
    BY HandledInit, RollbackInit, KnownInit DEF KnownInv, VmInv
<1>2. KnownInv /\ [VmNext]_vmVars => KnownInv'
    <2> SUFFICES ASSUME KnownInv, [VmNext]_vmVars PROVE KnownInv'
        OBVIOUS
    <2>1. HandledInv /\ RollbackInv
        BY DEF KnownInv, VmInv
    <2> QED
        BY <2>1, HandledNext, RollbackNext, KnownNext DEF KnownInv, VmInv
<1> QED
    BY <1>1, <1>2, PTL DEF VmSpec

\* A VM keeps one boot disk and its zvol; unless requests met, its devices and mounts are its
\* disks and images; and unless one was dropped, every disk of it is a zvol on the host.
THEOREM DisksAreThere == VmSpec => []DisksExist
BY KnownInvariant, KnownDisks, PTL

\* Unless requests met or one was dropped, a step changes of the VM or the zone what one
\* request was asked to, on the disk that was meant; and what is not mandraked's it never does.
THEOREM OnlyAsked == VmSpec => OnlyWhatIsAsked
<1>1. KnownInv /\ [VmNext]_vmVars =>
        [/\ config' # config => Foreign(config') = Foreign(config)
         /\ Calm' =>
              /\ config' # config => IsAsked
              /\ \A d \in DOMAIN members :
                    /\ d \notin DOMAIN members' => \E r \in Requests : IsPurged(r, d)
                    /\ d \in DOMAIN members' /\ members'[d].size # members[d].size =>
                          \E r \in Requests : IsGrown(r, d)]_vmVars
    BY KnownAsked
<1> QED
    BY <1>1, KnownInvariant, PTL DEF VmSpec, OnlyWhatIsAsked
=============================================================================
