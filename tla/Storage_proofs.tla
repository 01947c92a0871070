-------------------------- MODULE Storage_proofs ---------------------------
(***************************************************************************)
(* Proofs about Storage, for any requests, bounds, paths and layouts.      *)
(*                                                                         *)
(* Identified      Spec => []Identity                                      *)
(* RowsStay        Spec => MetadataStays                                   *)
(* AskedFor        Spec => VanishesByAsking                                *)
(*                                                                         *)
(* An id carries the path it was given at, and is given once: what is      *)
(* destroyed under a path takes its ids with it, and no handler that is    *)
(* still to give an id gives one that anything else remembers.  What holds *)
(* while requests keep out of each other's way rests on a listing being    *)
(* what the host has.                                                      *)
(***************************************************************************)
EXTENDS Storage, SequenceTheorems, TLAPS

\* Strings.  The provers do not know of a string that it is one.
Part == STRING \cup {"rpool", "ROOT", "a", "b", "@1", "mandrake"}
Path == Seq(Part) \ {<< >>}

Takes == {"destroy_pool", "destroy_dataset", "destroy_snapshot", "rollback"}
Destroys == Takes \ {"rollback"}
Makes == {"create_pool", "create_dataset", "create_snapshot", "clone"}
Lists == {"list_datasets", "list_snapshots"}

-----------------------------------------------------------------------------
(* Ids.                                                                    *)

\* What request r, being q, may still give an object as its id, if it goes on.
ToGive(r, q, i) ==
    \/ i.by = r /\ q.stage \in {"idle", "read", "name"}
    \/ i.by = MaxRequests + r /\ q.stage \in {"idle", "read", "name", "children"}
    \/ /\ i.by = r /\ q.stage \in {"act", "mark"}
       /\ IF q.op = "create_snapshot" THEN IsSnapshot(i.path)
          ELSE q.op \in Makes /\ i.path = q.to

\* An id no request will give: it has been given, or never is.
Given(requests, i) == \A r \in Requests : ~ToGive(r, requests[r], i)

\* Id i is of path p.
Of(i, p) == i = Id(i.by, p)

IsId(requests, i, p) == (i = NoId \/ Of(i, p)) /\ Given(requests, i)

IsListing(requests, now, listing, snapshots) ==
    \A p \in DOMAIN listing :
        /\ p \in Path /\ (IsSnapshot(p) <=> snapshots)
        /\ IsId(requests, listing[p].id, p)
        /\ listing[p].born \in Nat /\ listing[p].born < now

-----------------------------------------------------------------------------
(* Types.                                                                  *)

IsObject(x) == x = [id |-> x.id, born |-> x.born, clones |-> x.clones]
IsPool(x) == x = [scan |-> x.scan, layout |-> x.layout]
IsRequest(q) ==
    q = [op |-> q.op, stage |-> q.stage, id |-> q.id, to |-> q.to, flag |-> q.flag,
         path |-> q.path, seen |-> q.seen, doomed |-> q.doomed]

TreeType ==
    /\ tree = [p \in DOMAIN tree |-> tree[p]]
    /\ \A p \in DOMAIN tree :
          /\ p \in Path /\ IsObject(tree[p]) /\ IsId(req, tree[p].id, p)
          /\ tree[p].born \in Nat /\ tree[p].born < clock
          /\ tree[p].clones \subseteq Places

PoolsType ==
    /\ pools = [p \in DOMAIN pools |-> pools[p]]
    /\ \A p \in DOMAIN pools :
          IsPool(pools[p]) /\ pools[p].scan \in {"none", "running", "finished", "canceled"}

CacheType ==
    /\ cache = [k \in Kinds |-> cache[k]]
    /\ IsListing(req, clock, cache["datasets"], FALSE)
    /\ IsListing(req, clock, cache["snapshots"], TRUE)

KnownType ==
    \A k \in known :
        /\ k = [id |-> k.id, path |-> k.path, born |-> k.born]
        /\ k.path \in Path /\ Of(k.id, k.path) /\ Given(req, k.id)
        /\ k.born \in Nat /\ k.born < clock

Typed ==
    /\ TreeType /\ PoolsType /\ CacheType /\ KnownType
    /\ overlapped \in BOOLEAN /\ cuts \in Nat /\ clock \in Nat \ {0}

-----------------------------------------------------------------------------
(* Requests.                                                               *)

\* Where a request can be, by what it does.
Placed(q) ==
    /\ IsRequest(q) /\ q.op \in Ops /\ q.stage \in Stages /\ q.flag \in BOOLEAN
    /\ q.stage \in {"idle", "over"} => q.op = "list_datasets"
    /\ q.stage \in {"name", "children"} => q.op \notin MakingOps
    /\ q.stage = "children" => q.op = "destroy_dataset"
    /\ q.stage = "act" => q.op \notin Lists
    /\ q.stage = "mark" => q.op \in {"create_snapshot", "clone"}
    /\ q.stage = "note" => q.op \in Makes \cup Destroys \cup {"update_dataset"}
    /\ q.op \in {"clone", "create_dataset"} => q.to \in Places
    /\ q.op \in {"create_pool", "create_snapshot"} => q.to \in Path
    /\ q.op = "create_pool" => Len(q.to) = 1

\* What a request that takes may take.
MayBeTaken(q) ==
    CASE q.op = "destroy_pool" -> Len(q.path) = 1 /\ q.path[1] # "rpool"
      [] q.op = "destroy_dataset" -> ~Protected(q.path)
      [] q.op = "destroy_snapshot" -> ~IsPrefix(<<"rpool", "ROOT">>, q.path)
      [] q.op = "rollback" -> ~Protected(Dataset(q.path))

\* The ids of what it destroys are of what is destroyed.
IsDoomed(requests, q, i) ==
    /\ Given(requests, i) /\ i.path \in Path
    /\ i.path = q.path \/ (q.op # "destroy_snapshot" /\ IsStrictPrefix(q.path, i.path))

Target(q) == IF q.op = "clone" THEN q.to ELSE q.path

\* What a request has in hand.
Holds(r) ==
    LET q == req[r]
    IN  /\ q.op \in Takes \cup {"update_dataset"} => \E k \in known : k.id = q.id
        /\ q.stage = "name" => IsListing(req, clock, q.seen, q.op \in SnapshotOps)
        /\ q.stage \in {"act", "children", "note"} /\ q.op \in Takes =>
              q.path \in Path /\ Of(q.id, q.path) /\ MayBeTaken(q)
        /\ q.stage \in {"act", "children", "note"} /\ q.op \in Destroys =>
              \A i \in q.doomed : IsDoomed(req, q, i)
        /\ q.stage = "act" /\ q.op \in MakingOps => q.path = q.to /\ q.id = Id(r, q.to)
        /\ q.stage = "mark" /\ q.op = "create_snapshot" => q.path \in Path /\ IsSnapshot(q.path)
        /\ q.stage = "note" /\ q.op \in Makes => q.path \in Path /\ q.id = Id(r, q.path)

RequestType ==
    /\ req = [r \in Requests |-> req[r]]
    /\ \A r \in Requests : Placed(req[r]) /\ Holds(r)

\* The rows a handler is about to remove are of nothing that is there.
Spares(r) ==
    At(r, "note") /\ req[r].op \in Destroys =>
        \A p \in DOMAIN tree : tree[p].id \notin req[r].doomed

-----------------------------------------------------------------------------
(* While requests keep out of each other's way.                            *)

Solo == ~overlapped => \A q, r \in Busy : q = r

\* A listing of objects that is cached is what the host has.
Fresh == \A k \in {"datasets", "snapshots"} : cache[k] \in {Unknown, Fetched(k)}

\* What clients have been told of an object is of that object, or of none.
Told ==
    \A k \in known : k.path \in DOMAIN tree =>
        (tree[k.path].id = k.id <=> tree[k.path].born = k.born)

\* What the request in its handler has in hand is so.
Sure(r) ==
    LET q == req[r]
    IN  /\ q.stage = "name" => q.seen = Fetched(KindOf(q.op))
        /\ q.stage \in {"act", "children"} /\ q.op \in Takes =>
              q.path \in DOMAIN tree /\ tree[q.path].id = q.id
        /\ q.stage = "mark" =>
              /\ cache["datasets"] = Unknown /\ cache["snapshots"] = Unknown
              /\ Target(q) \in DOMAIN tree => tree[Target(q)].id = NoId
        /\ q.stage = "note" /\ q.op \in Makes =>
              (q.path \in DOMAIN tree => tree[q.path].id = q.id)

CalmInv == Calm => Fresh /\ Told /\ \A r \in Requests : Sure(r)

Inv == Typed /\ RequestType /\ (\A r \in Requests : Spares(r)) /\ Solo /\ CalmInv

-----------------------------------------------------------------------------
(* Lemmas about paths.                                                     *)

LEMMA PlacesArePaths == \A p \in Places : p \in Path /\ ~IsSnapshot(p)
<1>1. ASSUME NEW p \in Seq(STRING)
      PROVE  p \in Seq(Part)
  <2>1. \A i \in 1 .. Len(p) : p[i] \in Part
      BY DEF Part
  <2> QED
      BY <2>1
<1> QED
    BY <1>1, StorageAssumption DEF Path

\* Sequences of up to three elements.
LEMMA ShortSequences ==
    ASSUME NEW S, NEW x \in S, NEW y \in S, NEW z \in S
    PROVE  {<<x>>, <<x, y>>, <<x, y, z>>} \subseteq Seq(S) \ {<< >>}
<1>1. <<x>> \in Seq(S) /\ <<x, y>> \in Seq(S) /\ <<x, y, z>> \in Seq(S)
    OBVIOUS
<1>2. <<x>> # << >> /\ <<x, y>> # << >> /\ <<x, y, z>> # << >>
    OBVIOUS
<1> QED
    BY <1>1, <1>2

LEMMA PrefixProperties ==
    ASSUME NEW S, NEW s \in Seq(S), NEW t \in Seq(S)
    PROVE  IsPrefix(s, t) <=> Len(s) <= Len(t) /\ \A i \in 1 .. Len(s) : s[i] = t[i]
<1>1. SubSeq(s, 1, Len(s)) = s
    BY SubSeqFull
<1>2. CASE Len(s) <= Len(t)
  <2>1. \A i \in 1 .. Len(s) : t[i] \in S
      BY <1>2
  <2>2. /\ SubSeq(t, 1, Len(s)) \in Seq(S) /\ Len(SubSeq(t, 1, Len(s))) = Len(s)
        /\ \A i \in 1 .. Len(s) : SubSeq(t, 1, Len(s))[i] = t[i]
      BY <1>2, <2>1, SubSeqProperties
  <2> DEFINE u == SubSeq(t, 1, Len(s))
  <2> HIDE DEF u
  <2>3. u \in Seq(S) /\ Len(u) = Len(s) /\ \A i \in 1 .. Len(s) : u[i] = t[i]
      BY <2>2 DEF u
  <2>4. (s = u) <=> \A i \in 1 .. Len(s) : s[i] = t[i]
      BY <2>3, SeqEqual
  <2> QED
      BY <1>1, <1>2, <2>4 DEF IsPrefix, u
<1> QED
    BY <1>2 DEF IsPrefix

\* What is below something that is not protected is not either.
LEMMA ProtectedBelow ==
    ASSUME NEW q \in Path, NEW p \in Path, IsPrefix(q, p), ~Protected(q)
    PROVE  ~Protected(p)
<1>0. q \in Seq(Part) /\ p \in Seq(Part) /\ q # << >> /\ p # << >>
    BY DEF Path
<1>1. Len(q) <= Len(p) /\ \A i \in 1 .. Len(q) : q[i] = p[i]
    BY <1>0, PrefixProperties
<1>2. Len(q) >= 2 /\ Len(p) >= 2 /\ Len(p) # 1
  <2>1. Len(q) \in Nat \ {0} /\ Len(p) \in Nat \ {0}
      BY <1>0, EmptySeq
  <2>2. Len(q) # 1
      BY DEF Protected
  <2>3. \A n, m \in Nat \ {0} : n # 1 /\ n <= m => n >= 2 /\ m >= 2 /\ m # 1
      OBVIOUS
  <2> QED
      BY <1>1, <2>1, <2>2, <2>3
<1>3. ASSUME NEW x \in Part, NEW y \in Part
      PROVE  /\ IsPrefix(<<x, y>>, q) <=> x = q[1] /\ y = q[2]
             /\ IsPrefix(<<x, y>>, p) <=> x = p[1] /\ y = p[2]
  <2> DEFINE t == <<x, y>>
  <2>1. t \in Seq(Part)
      BY ShortSequences
  <2>2. t[1] = x /\ t[2] = y /\ Len(t) = 2
      OBVIOUS
  <2> HIDE DEF t
  <2>3. /\ IsPrefix(t, q) <=> Len(t) <= Len(q) /\ \A i \in 1 .. Len(t) : t[i] = q[i]
        /\ IsPrefix(t, p) <=> Len(t) <= Len(p) /\ \A i \in 1 .. Len(t) : t[i] = p[i]
      BY <1>0, <2>1, PrefixProperties
  <2>4. /\ IsPrefix(t, q) <=> t[1] = q[1] /\ t[2] = q[2]
        /\ IsPrefix(t, p) <=> t[1] = p[1] /\ t[2] = p[2]
      BY <1>0, <1>2, <2>2, <2>3
  <2> QED
      BY <2>2, <2>4 DEF t
<1>4. q[1] = p[1] /\ q[2] = p[2]
    BY <1>1, <1>2
<1>5. "rpool" \in Part /\ "ROOT" \in Part /\ "mandrake" \in Part
    BY DEF Part
<1>6. ASSUME NEW x, NEW y, p = <<x, y>>
      PROVE  q = p
  <2>1. Len(p) = 2
      BY <1>6
  <2>2. q \in Seq(Part) /\ p \in Seq(Part) /\ Len(q) = Len(p)
      BY <1>1, <1>2, <2>1 DEF Path
  <2> QED
      BY <1>1, <2>2, SeqEqual
<1>7. \A x, y \in Part : IsPrefix(<<x, y>>, p) => IsPrefix(<<x, y>>, q)
    BY <1>3, <1>4
<1>8. ~IsPrefix(<<"rpool", "ROOT">>, p) /\ ~IsPrefix(<<"rpool", "mandrake">>, p)
    BY <1>5, <1>7 DEF Protected
<1>9. p # <<"rpool", "dump">> /\ p # <<"rpool", "swap">>
    BY <1>6 DEF Protected
<1> QED
    BY <1>2, <1>8, <1>9 DEF Protected

-----------------------------------------------------------------------------
(* Lemmas about requests.                                                  *)

\* Request r, and no other, goes on, and gives no more ids than before.
Moves(r) ==
    /\ req' = [q \in Requests |-> req'[q]]
    /\ \A q \in Requests : q # r => req'[q] = req[q]
    /\ \A i : ToGive(r, req'[r], i) => ToGive(r, req[r], i)

\* What Goto does to the request, and that it leaves the others alone.
LEMMA Going ==
    ASSUME RequestType, NEW r \in Requests, NEW stage, Goto(r, stage)
    PROVE  /\ req' = [q \in Requests |-> req'[q]]
           /\ \A q \in Requests : q # r => req'[q] = req[q]
           /\ IsRequest(req'[r]) /\ req'[r].stage = stage
           /\ stage = "over" => req'[r] = [NewRequest EXCEPT !.stage = "over"]
           /\ stage # "over" =>
                 /\ req'[r].op = req[r].op /\ req'[r].id = req[r].id
                 /\ req'[r].to = req[r].to /\ req'[r].flag = req[r].flag
                 /\ req'[r].path = req[r].path /\ req'[r].seen = req[r].seen
                 /\ req'[r].doomed = req[r].doomed
<1> DEFINE new == [IF stage = "over" THEN NewRequest ELSE req[r] EXCEPT !.stage = stage]
<1>1. req' = [req EXCEPT ![r] = new]
    BY DEF Goto
<1>2. req = [q \in Requests |-> req[q]]
    BY DEF RequestType
<1> HIDE DEF new
<1>3. req' = [q \in Requests |-> IF q = r THEN new ELSE req[q]]
    BY <1>1, <1>2, Zenon
<1>4. req'[r] = new /\ \A q \in Requests : q # r => req'[q] = req[q]
    BY <1>3
<1>5. req' = [q \in Requests |-> req'[q]]
    BY <1>3, <1>4
<1>6. CASE stage = "over"
  <2>1. new = [NewRequest EXCEPT !.stage = "over"]
      BY <1>6 DEF new
  <2>2. IsRequest(new) /\ new.stage = "over"
      BY <2>1 DEF NewRequest, IsRequest
  <2> QED
      BY <1>4, <1>5, <1>6, <2>1, <2>2
<1>7. CASE stage # "over"
  <2>1. new = [req[r] EXCEPT !.stage = stage]
      BY <1>7 DEF new
  <2>2. IsRequest(req[r])
      BY DEF RequestType, Placed
  <2>3. new = [op |-> req[r].op, stage |-> stage, id |-> req[r].id, to |-> req[r].to,
               flag |-> req[r].flag, path |-> req[r].path, seen |-> req[r].seen,
               doomed |-> req[r].doomed]
      BY <2>1, <2>2 DEF IsRequest
  <2> QED
      BY <1>4, <1>5, <1>7, <2>3 DEF IsRequest
<1> QED
    BY <1>6, <1>7

\* A request that is over holds nothing.
LEMMA OverHolds ==
    ASSUME NEW r \in Requests, req'[r] = [NewRequest EXCEPT !.stage = "over"]
    PROVE  /\ Placed(req'[r]) /\ Holds(r)' /\ Spares(r)' /\ Sure(r)'
           /\ req'[r].stage = "over" /\ \A i : ~ToGive(r, req'[r], i)
<1>1. /\ req'[r].op = "list_datasets" /\ req'[r].stage = "over" /\ req'[r].flag = FALSE
      /\ IsRequest(req'[r])
    BY DEF NewRequest, IsRequest
<1>2. Placed(req'[r])
    BY <1>1 DEF Placed, Ops, PoolOps, DatasetOps, SnapshotOps, MakingOps, Stages
<1>3. Holds(r)' /\ Spares(r)' /\ Sure(r)'
    BY <1>1 DEF Holds, Spares, Sure, At, Takes, Destroys
<1>4. \A i : ~ToGive(r, req'[r], i)
    BY <1>1 DEF ToGive
<1> QED
    BY <1>1, <1>2, <1>3, <1>4

\* An id that has been given stays so.
LEMMA GivenStays ==
    ASSUME NEW r \in Requests, Moves(r), NEW i, Given(req, i)
    PROVE  Given(req', i)
BY DEF Given, Moves

LEMMA ListingStays ==
    ASSUME NEW r \in Requests, Moves(r), clock \in Nat, clock' \in Nat, clock <= clock',
           NEW listing, NEW snapshots, IsListing(req, clock, listing, snapshots)
    PROVE  IsListing(req', clock', listing, snapshots)
<1>1. \A i : Given(req, i) => Given(req', i)
    BY GivenStays
<1> QED
    BY <1>1 DEF IsListing, IsId

\* The other requests hold what they held.
LEMMA OthersHold ==
    ASSUME RequestType, NEW r \in Requests, Moves(r), Placed(req'[r]), Holds(r)',
           clock \in Nat, clock' \in Nat, clock <= clock', known \subseteq known'
    PROVE  RequestType'
<1>1. ASSUME NEW q \in Requests, q # r
      PROVE  Placed(req'[q]) /\ Holds(q)'
  <2>1. req'[q] = req[q] /\ Placed(req[q]) /\ Holds(q)
      BY <1>1 DEF Moves, RequestType
  <2>2. \A i : Given(req, i) => Given(req', i)
      BY GivenStays
  <2>3. \A i : IsDoomed(req, req[q], i) => IsDoomed(req', req[q], i)
      BY <2>2 DEF IsDoomed
  <2>4. IsListing(req, clock, req[q].seen, req[q].op \in SnapshotOps) =>
            IsListing(req', clock', req[q].seen, req[q].op \in SnapshotOps)
      BY ListingStays
  <2> HIDE <2>2
  <2>5. Holds(q)'
      BY <2>1, <2>3, <2>4 DEF Holds
  <2> QED
      BY <2>1, <2>5
<1>2. req' = [q \in Requests |-> req'[q]]
    BY DEF Moves
<1>3. \A q \in Requests : Placed(req'[q]) /\ Holds(q)'
    BY <1>1
<1> QED
    BY <1>2, <1>3 DEF RequestType

\* No id that comes to be stored is one that another request is about to forget.
LEMMA OthersSpare ==
    ASSUME RequestType, \A q \in Requests : Spares(q), NEW r \in Requests, Moves(r), Spares(r)',
           \A p \in DOMAIN tree' : \/ p \in DOMAIN tree /\ tree'[p].id = tree[p].id
                                   \/ tree'[p].id = NoId
                                   \/ ~Given(req, tree'[p].id)
    PROVE  \A q \in Requests : Spares(q)'
<1>1. ASSUME NEW q \in Requests, q # r, At(q, "note"), req[q].op \in Destroys,
             NEW p \in DOMAIN tree'
      PROVE  tree'[p].id \notin req[q].doomed
  <2>1. \A i \in req[q].doomed : Given(req, i) /\ i.path \in Path
      BY <1>1 DEF RequestType, Holds, IsDoomed, At
  <2>2. CASE p \in DOMAIN tree /\ tree'[p].id = tree[p].id
      BY <1>1, <2>2 DEF Spares
  <2>3. CASE tree'[p].id = NoId
      BY <2>1, <2>3 DEF NoId, Id, Path
  <2>4. CASE ~Given(req, tree'[p].id)
      BY <2>1, <2>4
  <2> QED
      BY <2>2, <2>3, <2>4
<1>2. \A q \in Requests : q # r => req'[q] = req[q]
    BY DEF Moves
<1> QED
    BY <1>1, <1>2 DEF Spares, At

\* While there is one request in its handler, nothing is asked of the others.
LEMMA OthersSure ==
    ASSUME Solo, NEW r \in Requests, req[r].stage \in Working,
           \A q \in Requests : q # r => req'[q] = req[q],
           overlapped' = overlapped
    PROVE  /\ ~overlapped' => \A q \in Requests : q # r => Sure(q)'
           /\ Solo'
<1>1. ASSUME ~overlapped, NEW q \in Requests, q # r
      PROVE  req'[q].stage \notin Working
    BY <1>1 DEF Solo, Busy
<1>2. ASSUME ~overlapped, NEW q \in Requests, q # r
      PROVE  Sure(q)'
  <2>1. req'[q].stage \notin Working
      BY <1>1, <1>2
  <2>2. req'[q].stage \notin {"name", "act", "children", "mark", "note"}
      BY <2>1 DEF Working
  <2> QED
      BY <2>2 DEF Sure
<1>3. Solo'
    BY <1>1 DEF Solo, Busy
<1> QED
    BY <1>2, <1>3

-----------------------------------------------------------------------------
(* Lemmas about ids and listings.                                          *)

\* What belongs to no request is given.
LEMMA Nobodys ==
    ASSUME NEW requests, NEW i, i.by \in {0, Found}
    PROVE  Given(requests, i)
BY StorageAssumption DEF Given, ToGive, Requests, Found

\* An id of request r is given when r is not to give it.
LEMMA NotOthers ==
    ASSUME NEW requests, NEW r \in Requests, NEW i, i.by \in {r, MaxRequests + r},
           ~ToGive(r, requests[r], i)
    PROVE  Given(requests, i)
<1>1. ASSUME NEW q \in Requests, q # r
      PROVE  i.by # q /\ i.by # MaxRequests + q
    BY <1>1, StorageAssumption DEF Requests
<1>2. \A q \in Requests : q # r => ~ToGive(q, requests[q], i)
    BY <1>1 DEF ToGive
<1> QED
    BY <1>2 DEF Given

LEMMA NoIdProperties ==
    /\ \A requests : Given(requests, NoId)
    /\ \A p \in Path : NoId.path # p
    /\ \A i : \A p \in Path : Of(i, p) => i # NoId /\ i.path = p
<1>1. NoId.by = 0 /\ NoId.path = << >>
    BY DEF NoId, Id
<1>2. \A requests : Given(requests, NoId)
    BY <1>1, Nobodys
<1>3. \A i : \A p \in Path : Of(i, p) => i.path = p
    BY DEF Of, Id
<1> QED
    BY <1>1, <1>2, <1>3 DEF Path

LEMMA IdProperties ==
    ASSUME NEW by, NEW p
    PROVE  Of(Id(by, p), p) /\ Id(by, p).by = by /\ Id(by, p).path = p
BY DEF Of, Id

\* A listing of what there is.
LEMMA FetchedProperties ==
    ASSUME TreeType
    PROVE  /\ IsListing(req, clock, Fetched("datasets"), FALSE)
           /\ IsListing(req, clock, Fetched("snapshots"), TRUE)
           /\ \A kind \in {"datasets", "snapshots"} :
                 /\ DOMAIN Fetched(kind) =
                        {p \in DOMAIN tree : IsSnapshot(p) <=> kind = "snapshots"}
                 /\ \A p \in DOMAIN Fetched(kind) :
                       Fetched(kind)[p].id = tree[p].id /\ Fetched(kind)[p].born = tree[p].born
<1>1. ASSUME NEW kind \in {"datasets", "snapshots"}
      PROVE  /\ DOMAIN Fetched(kind) =
                    {p \in DOMAIN tree : IsSnapshot(p) <=> kind = "snapshots"}
             /\ \A p \in DOMAIN Fetched(kind) :
                   Fetched(kind)[p].id = tree[p].id /\ Fetched(kind)[p].born = tree[p].born
    BY DEF Fetched
<1>2. ASSUME NEW kind \in {"datasets", "snapshots"}
      PROVE  IsListing(req, clock, Fetched(kind), kind = "snapshots")
  <2> SUFFICES ASSUME NEW p \in DOMAIN Fetched(kind)
               PROVE  /\ p \in Path /\ (IsSnapshot(p) <=> kind = "snapshots")
                      /\ IsId(req, Fetched(kind)[p].id, p)
                      /\ Fetched(kind)[p].born \in Nat /\ Fetched(kind)[p].born < clock
      BY DEF IsListing
  <2>1. p \in DOMAIN tree /\ (IsSnapshot(p) <=> kind = "snapshots")
      BY <1>1
  <2> QED
      BY <1>1, <2>1 DEF TreeType
<1>3. IsListing(req, clock, Fetched("datasets"), FALSE)
    BY <1>2 DEF IsListing
<1>4. IsListing(req, clock, Fetched("snapshots"), TRUE)
    BY <1>2 DEF IsListing
<1> QED
    BY <1>1, <1>3, <1>4

LEMMA ListingProperties ==
    ASSUME Typed
    PROVE  /\ IsListing(req, clock, Listing("datasets"), FALSE)
           /\ IsListing(req, clock, Listing("snapshots"), TRUE)
BY FetchedProperties DEF Typed, CacheType, Listing

LEMMA UnknownIsListing ==
    ASSUME NEW requests, NEW now, NEW snapshots
    PROVE  IsListing(requests, now, Unknown, snapshots)
BY DEF IsListing, Unknown

\* What is left as it is keeps its type.
LEMMA Kept ==
    ASSUME Typed, NEW r \in Requests, Moves(r), clock' \in Nat, clock <= clock'
    PROVE  /\ tree' = tree => TreeType'
           /\ pools' = pools => PoolsType'
           /\ known' = known => KnownType'
           /\ /\ cache' = [k \in Kinds |-> cache'[k]]
              /\ \A k \in {"datasets", "snapshots"} : cache'[k] \in {Unknown, cache[k], Listing(k)}
              => CacheType'
           /\ overlapped' \in BOOLEAN /\ cuts' \in Nat /\ TreeType' /\ PoolsType' /\ KnownType' /\ CacheType'
              => Typed'
<1>1. \A i : Given(req, i) => Given(req', i)
    BY GivenStays
<1>2. \A i, p : IsId(req, i, p) => IsId(req', i, p)
    BY <1>1 DEF IsId
<1>3. clock \in Nat /\ clock' \in Nat \ {0}
    BY DEF Typed
<1>4. tree' = tree => TreeType'
    BY <1>2, <1>3 DEF Typed, TreeType
<1>5. pools' = pools => PoolsType'
    BY DEF Typed, PoolsType
<1>6. known' = known => KnownType'
    BY <1>1, <1>3 DEF Typed, KnownType
<1>7. ASSUME cache' = [k \in Kinds |-> cache'[k]],
             \A k \in {"datasets", "snapshots"} : cache'[k] \in {Unknown, cache[k], Listing(k)}
      PROVE  CacheType'
  <2>1. /\ IsListing(req, clock, cache'["datasets"], FALSE)
        /\ IsListing(req, clock, cache'["snapshots"], TRUE)
      BY <1>7, ListingProperties, UnknownIsListing DEF Typed, CacheType
  <2>2. /\ IsListing(req', clock', cache'["datasets"], FALSE)
        /\ IsListing(req', clock', cache'["snapshots"], TRUE)
      BY <1>3, <2>1, ListingStays
  <2> QED
      BY <1>7, <2>2 DEF CacheType
<1> QED
    BY <1>3, <1>4, <1>5, <1>6, <1>7 DEF Typed

-----------------------------------------------------------------------------
(* The commands.                                                           *)

Over == [NewRequest EXCEPT !.stage = "over"]

\* The handler of request r goes on after its command, or has been dropped in it.
GoesOn(r, stage) ==
    /\ cache' = Cleared /\ cuts' = cuts
    /\ req'[r].stage = stage /\ IsRequest(req'[r])
    /\ stage = "over" => req'[r] = Over
    /\ stage # "over" =>
          /\ req'[r].op = req[r].op /\ req'[r].id = req[r].id /\ req'[r].to = req[r].to
          /\ req'[r].flag = req[r].flag /\ req'[r].doomed = req[r].doomed
          /\ IF req[r].op = "create_snapshot"
             THEN req'[r].path \in Path /\ IsSnapshot(req'[r].path)
             ELSE req'[r].path = req[r].path
Dropped(r) == cuts' = cuts + 1 /\ cache' = cache /\ req'[r] = Over

Ran(r, stage) ==
    /\ req' = [q \in Requests |-> req'[q]]
    /\ \A q \in Requests : q # r => req'[q] = req[q]
    /\ GoesOn(r, stage) \/ Dropped(r)
    /\ clock' = clock + 1
    /\ UNCHANGED <<meta, known, overlapped>>

\* Where it can go.
Next1(op) ==
    CASE op = "scrub" -> "poll"
      [] op \in {"stop_scrub", "rollback"} -> "over"
      [] op \in {"create_snapshot", "clone"} -> "mark"
      [] OTHER -> "note"

\* What a command leaves is as it was, or new, with no id or with the one that the request
\* has for what it makes.
Grown(r) ==
    /\ tree' = [p \in DOMAIN tree' |-> tree'[p]]
    /\ \A p \in DOMAIN tree' :
          /\ IsObject(tree'[p]) /\ tree'[p].clones \subseteq Places
          /\ \/ p \in DOMAIN tree /\ tree'[p].id = tree[p].id /\ tree'[p].born = tree[p].born
             \/ /\ p \in Path /\ tree'[p].born = clock
                /\ \/ tree'[p].id = NoId
                   \/ req[r].op \in MakingOps /\ p = req[r].to /\ tree'[p].id = req[r].id

LEMMA RanMoves ==
    ASSUME RequestType, NEW r \in Requests, At(r, "act"), Ran(r, Next1(req[r].op))
    PROVE  Moves(r)
<1>1. CASE req'[r] = Over
  <2>1. \A i : ~ToGive(r, req'[r], i)
      BY <1>1, OverHolds DEF Over
  <2> QED
      BY <2>1 DEF Moves, Ran
<1>2. CASE GoesOn(r, Next1(req[r].op)) /\ req'[r] # Over
  <2>1. /\ req'[r].op = req[r].op /\ req'[r].to = req[r].to
        /\ req'[r].stage \in {"poll", "mark", "note"}
      BY <1>2 DEF GoesOn, Next1
  <2>2. \A i : ToGive(r, req'[r], i) => ToGive(r, req[r], i)
      BY <2>1 DEF ToGive, At
  <2> QED
      BY <2>2 DEF Moves, Ran
<1> QED
    BY <1>1, <1>2 DEF Ran, Dropped

LEMMA RanHolds ==
    ASSUME RequestType, Typed, NEW r \in Requests, At(r, "act"), Ran(r, Next1(req[r].op))
    PROVE  RequestType'
<1>1. Moves(r)
    BY RanMoves
<1>2. clock \in Nat /\ clock' \in Nat /\ clock <= clock' /\ known' = known
    BY DEF Typed, Ran
<1>3. Placed(req[r]) /\ Holds(r) /\ req[r].stage = "act"
    BY DEF RequestType, At
<1>4. CASE req'[r] = Over
  <2>1. Placed(req'[r]) /\ Holds(r)'
      BY <1>4, OverHolds DEF Over
  <2> QED
      BY <1>1, <1>2, <2>1, OthersHold
<1>5. CASE GoesOn(r, Next1(req[r].op)) /\ req'[r] # Over
  <2>1. /\ req'[r].stage = Next1(req[r].op) /\ IsRequest(req'[r])
        /\ req'[r].op = req[r].op /\ req'[r].id = req[r].id /\ req'[r].to = req[r].to
        /\ req'[r].flag = req[r].flag /\ req'[r].doomed = req[r].doomed
        /\ IF req[r].op = "create_snapshot"
           THEN req'[r].path \in Path /\ IsSnapshot(req'[r].path)
           ELSE req'[r].path = req[r].path
      BY <1>5 DEF GoesOn
  <2>2. /\ Next1(req[r].op) \in {"poll", "mark", "note", "over"}
        /\ Next1(req[r].op) = "over" => FALSE
        /\ Next1(req[r].op) = "mark" => req[r].op \in {"create_snapshot", "clone"}
        /\ Next1(req[r].op) = "note" =>
              req[r].op \in {"create_pool", "create_dataset", "update_dataset"} \cup Destroys
    <3>1. Next1(req[r].op) # "over"
        BY <1>5, <2>1 DEF GoesOn
    <3> QED
        BY <1>3, <3>1 DEF Next1, Placed, Ops, PoolOps, DatasetOps, SnapshotOps, MakingOps, Lists,
                          Destroys, Takes
  <2>3. Placed(req'[r])
      BY <1>3, <2>1, <2>2 DEF Placed, Stages, Makes
  <2>4. \A i : Given(req, i) => Given(req', i)
      BY <1>1, GivenStays
  <2>5. req[r].op \in Destroys => \A i \in req'[r].doomed : IsDoomed(req', req'[r], i)
    <3>1. req[r].op \in Destroys => req'[r].path = req[r].path
        BY <2>1 DEF Destroys, Takes
    <3> QED
        BY <1>3, <2>1, <2>4, <3>1 DEF Holds, IsDoomed
  <2>6. req[r].op \in Takes => MayBeTaken(req'[r]) /\ req'[r].path = req[r].path
      BY <1>3, <2>1 DEF Holds, MayBeTaken, Takes
  <2>7. req[r].op \in {"create_pool", "create_dataset"} =>
            req[r].path \in Path /\ req[r].id = Id(r, req[r].path)
      BY <1>3, PlacesArePaths DEF Holds, MakingOps, Placed
  <2>8. Holds(r)'
    <3>1. req'[r].op \in Takes \cup {"update_dataset"} => \E k \in known' : k.id = req'[r].id
        BY <1>2, <1>3, <2>1 DEF Holds
    <3>2. req'[r].stage \in {"act", "children", "note"} /\ req'[r].op \in Takes =>
              req'[r].path \in Path /\ Of(req'[r].id, req'[r].path) /\ MayBeTaken(req'[r])
        BY <1>3, <2>1, <2>6 DEF Holds
    <3>3. req'[r].stage = "note" /\ req'[r].op \in Makes =>
              req'[r].path \in Path /\ req'[r].id = Id(r, req'[r].path)
        BY <2>1, <2>2, <2>7 DEF Makes, Destroys, Takes
    <3>4. req'[r].stage \notin {"name", "act"}
        BY <2>1, <2>2
    <3> QED
        BY <2>1, <2>5, <3>1, <3>2, <3>3, <3>4 DEF Holds
  <2> QED
      BY <1>1, <1>2, <2>3, <2>8, OthersHold
<1> QED
    BY <1>4, <1>5 DEF Ran, Dropped

LEMMA RanTyped ==
    ASSUME RequestType, Typed, NEW r \in Requests, At(r, "act"), Ran(r, Next1(req[r].op)),
           Grown(r), PoolsType'
    PROVE  Typed'
<1>1. Moves(r)
    BY RanMoves
<1>2. /\ clock \in Nat /\ clock' = clock + 1 /\ clock' \in Nat /\ clock <= clock'
      /\ known' = known /\ overlapped' = overlapped /\ overlapped \in BOOLEAN
      /\ cuts \in Nat /\ cuts' \in {cuts, cuts + 1}
    BY DEF Typed, Ran, GoesOn, Dropped
<1>3. KnownType'
    BY <1>1, <1>2, Kept
<1>4. CacheType'
  <2>1. CASE cache' = cache
    <3>1. cache' = [k \in Kinds |-> cache'[k]]
        BY <2>1 DEF Typed, CacheType
    <3> QED
        BY <1>1, <1>2, <2>1, <3>1, Kept
  <2>2. CASE cache' = Cleared
    <3>1. cache' = [k \in Kinds |-> cache'[k]] /\ \A k \in Kinds : cache'[k] = Unknown
        BY <2>2 DEF Cleared
    <3>2. \A k \in {"datasets", "snapshots"} : cache'[k] = Unknown
        BY <3>1 DEF Kinds
    <3> QED
        BY <1>1, <1>2, <3>1, <3>2, Kept
  <2> QED
      BY <2>1, <2>2 DEF Ran, GoesOn, Dropped
<1>5. TreeType'
  <2>1. ASSUME NEW p \in DOMAIN tree'
        PROVE  p \in Path /\ tree'[p].born \in Nat /\ tree'[p].born < clock' /\ IsId(req', tree'[p].id, p)
    <3>1. \A i : Given(req, i) => Given(req', i)
        BY <1>1, GivenStays
    <3>2. CASE p \in DOMAIN tree /\ tree'[p].id = tree[p].id /\ tree'[p].born = tree[p].born
      <4>1. p \in Path /\ IsId(req, tree[p].id, p) /\ tree[p].born \in Nat /\ tree[p].born < clock
          BY <3>2 DEF Typed, TreeType
      <4> QED
          BY <1>2, <3>1, <3>2, <4>1 DEF IsId
    <3>3. CASE p \in Path /\ tree'[p].born = clock /\ tree'[p].id = NoId
        BY <1>2, <3>3, NoIdProperties DEF IsId
    <3>4. CASE /\ p \in Path /\ tree'[p].born = clock
               /\ req[r].op \in MakingOps /\ p = req[r].to /\ tree'[p].id = req[r].id
      <4>1. tree'[p].id = Id(r, p)
          BY <3>4 DEF RequestType, Holds, At
      <4>2. req'[r].stage \in {"note", "over"}
          BY <3>4 DEF Ran, GoesOn, Dropped, Over, Next1, MakingOps, NewRequest
      <4>3. ~ToGive(r, req'[r], Id(r, p))
          BY <4>2 DEF ToGive
      <4>4. Given(req', Id(r, p)) /\ Of(Id(r, p), p)
          BY <4>3, NotOthers, IdProperties
      <4> QED
          BY <1>2, <3>4, <4>1, <4>4 DEF IsId
    <3> QED
        BY <3>2, <3>3, <3>4 DEF Grown
  <2> QED
      BY <2>1 DEF TreeType, Grown
<1> QED
    BY <1>1, <1>2, <1>3, <1>4, <1>5, Kept

\* The command of a request keeps the invariant: what is destroyed is gone with its ids, and
\* what is made has the id it was to have.
LEMMA RanInv ==
    ASSUME Inv, NEW r \in Requests, At(r, "act"), Ran(r, Next1(req[r].op)), Grown(r), PoolsType',
           req[r].op \in Destroys => \A p \in DOMAIN tree' : tree'[p].id \notin req[r].doomed,
           req[r].op \in MakingOps /\ req[r].path \in DOMAIN tree' =>
               tree'[req[r].path].id = req[r].id,
           GoesOn(r, "mark") /\ Target(req'[r]) \in DOMAIN tree' =>
               tree'[Target(req'[r])].id = NoId
    PROVE  Inv'
<1>1. Moves(r)
    BY RanMoves DEF Inv
<1>2. RequestType' /\ Typed'
    BY RanHolds, RanTyped DEF Inv
<1>3. ASSUME req[r].op \in MakingOps
      PROVE  ~Given(req, req[r].id)
  <2>1. req[r].id = Id(r, req[r].to)
      BY <1>3 DEF Inv, RequestType, Holds, At
  <2>2. ToGive(r, req[r], req[r].id)
      BY <1>3, <2>1, IdProperties DEF ToGive, At, MakingOps, Makes
  <2> QED
      BY <2>2 DEF Given
<1>4. \A p \in DOMAIN tree' : \/ p \in DOMAIN tree /\ tree'[p].id = tree[p].id
                              \/ tree'[p].id = NoId
                              \/ ~Given(req, tree'[p].id)
    BY <1>3 DEF Grown
<1>5. Spares(r)'
  <2>1. CASE req'[r] = Over
      BY <2>1, OverHolds DEF Over
  <2>2. CASE GoesOn(r, Next1(req[r].op)) /\ req'[r] # Over
      BY <2>2 DEF Spares, GoesOn
  <2> QED
      BY <2>1, <2>2 DEF Ran, Dropped
<1>6. \A q \in Requests : Spares(q)'
    BY <1>1, <1>2, <1>4, <1>5, OthersSpare DEF Inv
<1>7. /\ ~overlapped' => \A q \in Requests : q # r => Sure(q)'
      /\ Solo'
    BY OthersSure DEF Inv, Ran, At, Working
<1>8. ASSUME Calm'
      PROVE  Fresh' /\ Told' /\ \A q \in Requests : Sure(q)'
  <2>1. Calm /\ GoesOn(r, Next1(req[r].op))
      BY <1>8 DEF Calm, Ran, GoesOn, Dropped, Inv, Typed
  <2>2. Fresh' /\ cache'["datasets"] = Unknown /\ cache'["snapshots"] = Unknown
      BY <2>1 DEF Fresh, GoesOn, Cleared, Kinds
  <2>3. Told'
    <3> SUFFICES ASSUME NEW k \in known, k.path \in DOMAIN tree'
                 PROVE  tree'[k.path].id = k.id <=> tree'[k.path].born = k.born
        BY DEF Told, Ran
    <3>1. k.path \in Path /\ Of(k.id, k.path) /\ Given(req, k.id) /\ k.born \in Nat /\ k.born < clock
        BY DEF Inv, Typed, KnownType
    <3>2. k.id # NoId
        BY <3>1, NoIdProperties
    <3>3. CASE /\ k.path \in DOMAIN tree /\ tree'[k.path].id = tree[k.path].id
               /\ tree'[k.path].born = tree[k.path].born
        BY <2>1, <3>3 DEF Inv, CalmInv, Told
    <3>4. CASE /\ tree'[k.path].born = clock
               /\ \/ tree'[k.path].id = NoId
                  \/ req[r].op \in MakingOps /\ tree'[k.path].id = req[r].id
      <4>1. clock \in Nat
          BY DEF Inv, Typed
      <4> QED
          BY <1>3, <3>1, <3>2, <3>4, <4>1
    <3> QED
        BY <3>3, <3>4 DEF Grown
  <2>4. Sure(r)'
    <3>1. CASE req'[r] = Over
        BY <3>1, OverHolds DEF Over
    <3>2. CASE req'[r] # Over
      <4>1. /\ req'[r].stage = Next1(req[r].op) /\ req'[r].op = req[r].op
            /\ req'[r].id = req[r].id
            /\ req[r].op \in MakingOps => req'[r].path = req[r].path
          BY <2>1, <3>2 DEF GoesOn, MakingOps
      <4>2. req'[r].stage \in {"mark", "note", "poll", "over"}
          BY <4>1 DEF Next1
      <4>3. req'[r].stage = "mark" =>
                (Target(req'[r]) \in DOMAIN tree' => tree'[Target(req'[r])].id = NoId)
          BY <2>1, <4>1
      <4>4. req'[r].stage = "note" /\ req'[r].op \in Makes => req[r].op \in MakingOps
          BY <4>1 DEF Next1, Makes, MakingOps
      <4>5. req'[r].stage = "note" /\ req'[r].op \in Makes =>
                (req'[r].path \in DOMAIN tree' => tree'[req'[r].path].id = req'[r].id)
          BY <4>1, <4>4
      <4> QED
          BY <2>2, <4>2, <4>3, <4>5 DEF Sure
    <3> QED
        BY <3>1, <3>2
  <2> QED
      BY <1>7, <1>8, <2>2, <2>3, <2>4 DEF Calm
<1> QED
    BY <1>2, <1>6, <1>7, <1>8 DEF Inv, CalmInv

\* The ways a command's handler can go on.
LEMMA ActedRan ==
    ASSUME RequestType, NEW r \in Requests, At(r, "act"), Acted(r, Next1(req[r].op)),
           req[r].op # "create_snapshot"
    PROVE  Ran(r, Next1(req[r].op))
<1>1. CASE cache' = Invalidate /\ Goto(r, Next1(req[r].op)) /\ UNCHANGED cuts
  <2>1. GoesOn(r, Next1(req[r].op))
      BY <1>1, Going DEF GoesOn, Invalidate, Over
  <2>2. /\ req' = [q \in Requests |-> req'[q]]
        /\ \A q \in Requests : q # r => req'[q] = req[q]
      BY <1>1, Going
  <2> QED
      BY <2>1, <2>2 DEF Ran, Acted
<1>2. CASE /\ cuts < MaxCuts
           /\ cuts' = cuts + 1 /\ Goto(r, "over") /\ UNCHANGED cache
  <2>1. /\ req' = [q \in Requests |-> req'[q]]
        /\ \A q \in Requests : q # r => req'[q] = req[q]
        /\ req'[r] = Over
      BY <1>2, Going DEF Over
  <2> QED
      BY <1>2, <2>1 DEF Ran, Acted, Dropped
<1> QED
    BY <1>1, <1>2 DEF Acted

\* Nothing is made.
LEMMA Shrunk ==
    ASSUME TreeType, NEW r, tree' = [p \in DOMAIN tree' |-> tree[p]], DOMAIN tree' \subseteq DOMAIN tree
    PROVE  Grown(r) /\ \A p \in DOMAIN tree' : tree'[p] = tree[p]
<1>1. \A p \in DOMAIN tree' : p \in DOMAIN tree /\ tree'[p] = tree[p]
    OBVIOUS
<1>2. tree' = [p \in DOMAIN tree' |-> tree'[p]]
    BY <1>1
<1> QED
    BY <1>1, <1>2 DEF Grown, TreeType

LEMMA DropProperties ==
    ASSUME TreeType, NEW r, NEW paths, tree' = Drop(tree, paths)
    PROVE  /\ Grown(r) /\ DOMAIN tree' = DOMAIN tree \ paths
           /\ \A p \in DOMAIN tree' : tree'[p] = tree[p]
<1>1. DOMAIN tree' = DOMAIN tree \ paths
    BY DEF Drop
<1>2. tree' = [p \in DOMAIN tree' |-> tree[p]]
    BY <1>1 DEF Drop
<1> QED
    BY <1>1, <1>2, Shrunk

LEMMA UnchangedGrown ==
    ASSUME TreeType, NEW r, tree' = tree
    PROVE  Grown(r)
BY DEF Grown, TreeType

\* An object whose id is of something to be destroyed is part of it.
LEMMA DoomedIsPart ==
    ASSUME Inv, NEW r \in Requests, At(r, "act"), req[r].op \in Destroys,
           NEW p \in DOMAIN tree, tree[p].id \in req[r].doomed
    PROVE  /\ p \in {req[r].path} \cup Below(tree, req[r].path)
           /\ req[r].op = "destroy_snapshot" => p = req[r].path
<1>1. IsDoomed(req, req[r], tree[p].id)
    BY DEF Inv, RequestType, Holds, At
<1>2. IsId(req, tree[p].id, p) /\ p \in Path
    BY DEF Inv, Typed, TreeType
<1>3. tree[p].id # NoId
    BY <1>1, NoIdProperties DEF IsDoomed
<1>4. tree[p].id.path = p
    BY <1>2, <1>3, NoIdProperties DEF IsId
<1> QED
    BY <1>1, <1>4 DEF IsDoomed, Below

LEMMA CreatePoolInv ==
    ASSUME Inv, NEW r \in Requests, CreatePool(r)
    PROVE  Inv'
<1>1. At(r, "act") /\ req[r].op = "create_pool"
    BY DEF CreatePool, Doing
<1>2. Ran(r, Next1(req[r].op))
    BY <1>1, ActedRan DEF CreatePool, Inv, Next1
<1>3. req[r].path = req[r].to /\ req[r].path \in Path
    BY <1>1 DEF Inv, RequestType, Holds, Placed, At, MakingOps
<1>4. /\ DOMAIN tree' = DOMAIN tree \cup {req[r].path}
      /\ tree' = [p \in DOMAIN tree' |-> tree'[p]]
      /\ tree'[req[r].path] = Object(req[r].id, clock)
      /\ \A p \in DOMAIN tree' : p # req[r].path => tree'[p] = tree[p]
    BY DEF CreatePool, CreatedPool, Put
<1>5. Grown(r)
  <2>1. ASSUME NEW p \in DOMAIN tree', p # req[r].path
        PROVE  p \in DOMAIN tree /\ tree'[p] = tree[p] /\ IsObject(tree[p]) /\ tree[p].clones \subseteq Places
      BY <1>4, <2>1 DEF Inv, Typed, TreeType
  <2>2. /\ IsObject(tree'[req[r].path]) /\ tree'[req[r].path].clones = {}
        /\ tree'[req[r].path].id = req[r].id /\ tree'[req[r].path].born = clock
      BY <1>4 DEF Object, IsObject
  <2> QED
      BY <1>1, <1>3, <1>4, <2>1, <2>2 DEF Grown, MakingOps
<1>6. PoolsType'
  <2>1. PICK layout \in Layouts :
            pools' = [q \in DOMAIN pools \cup {req[r].path[1]} |->
                        IF q = req[r].path[1] THEN [scan |-> "none", layout |-> layout] ELSE pools[q]]
      BY DEF CreatePool
  <2>2. pools' = [q \in DOMAIN pools' |-> pools'[q]]
      BY <2>1
  <2>3. \A q \in DOMAIN pools' : \/ q \in DOMAIN pools /\ pools'[q] = pools[q]
                                 \/ pools'[q] = [scan |-> "none", layout |-> layout]
      BY <2>1
  <2> QED
      BY <2>2, <2>3 DEF PoolsType, IsPool, Inv, Typed
<1>7. tree'[req[r].path].id = req[r].id
    BY <1>4 DEF Object
<1>8. ~GoesOn(r, "mark") /\ req[r].op \notin Destroys
    BY <1>1, <1>2 DEF Ran, GoesOn, Next1, Dropped, Over, NewRequest, Destroys, Takes
<1> QED
    BY <1>1, <1>2, <1>5, <1>6, <1>7, <1>8, RanInv

LEMMA CreateDatasetInv ==
    ASSUME Inv, NEW r \in Requests, CreateDataset(r)
    PROVE  Inv'
<1> DEFINE made == {q \in Prefixes(req[r].path) \ {<< >>} : q \notin DOMAIN tree}
           new(q) == Object(IF q = req[r].path THEN req[r].id ELSE NoId, clock)
<1>1. At(r, "act") /\ req[r].op = "create_dataset"
    BY DEF CreateDataset, Doing
<1>2. Ran(r, Next1(req[r].op))
    BY <1>1, ActedRan DEF CreateDataset, Inv, Next1
<1>3. req[r].path = req[r].to /\ req[r].path \in Path /\ req[r].id = Id(r, req[r].path)
    BY <1>1, PlacesArePaths DEF Inv, RequestType, Holds, Placed, At, MakingOps
<1>4. /\ DOMAIN tree' = DOMAIN tree \cup made
      /\ tree' = [p \in DOMAIN tree' |-> tree'[p]]
      /\ \A p \in made : tree'[p] = new(p)
      /\ \A p \in DOMAIN tree' : p \notin made => tree'[p] = tree[p]
    BY DEF CreateDataset, Created, Put
<1>5. made \subseteq Path
  <2>1. ASSUME NEW q \in Prefixes(req[r].path)
        PROVE  q \in Seq(Part)
    <3>1. PICK l \in 0 .. Len(req[r].path) : q = SubSeq(req[r].path, 1, l)
        BY DEF Prefixes
    <3>2. \A i \in 1 .. l : req[r].path[i] \in Part
        BY <1>3, <3>1 DEF Path
    <3> QED
        BY <3>1, <3>2, SubSeqProperties
  <2> QED
      BY <2>1 DEF Path
<1>6. \A p \in made : /\ IsObject(new(p)) /\ new(p).clones = {} /\ new(p).born = clock
                      /\ new(p).id = (IF p = req[r].path THEN req[r].id ELSE NoId)
    BY DEF Object, IsObject
<1> HIDE DEF made, new
<1>7. Grown(r)
  <2>1. ASSUME NEW p \in DOMAIN tree', p \notin made
        PROVE  p \in DOMAIN tree /\ tree'[p] = tree[p] /\ IsObject(tree[p]) /\ tree[p].clones \subseteq Places
      BY <1>4, <2>1 DEF Inv, Typed, TreeType
  <2>2. \A p \in made : /\ IsObject(tree'[p]) /\ tree'[p].clones = {} /\ tree'[p].born = clock
                        /\ tree'[p].id = (IF p = req[r].path THEN req[r].id ELSE NoId)
      BY <1>4, <1>6
  <2>3. \A p \in made : p \in Path /\ (tree'[p].id = NoId \/ (p = req[r].to /\ tree'[p].id = req[r].id))
      BY <1>3, <1>5, <2>2
  <2> QED
      BY <1>1, <1>4, <2>1, <2>2, <2>3 DEF Grown, MakingOps
<1>8. tree'[req[r].path].id = req[r].id
  <2>1. req[r].path \in Prefixes(req[r].path) \ {<< >>}
    <3>1. SubSeq(req[r].path, 1, Len(req[r].path)) = req[r].path
        BY <1>3, SubSeqFull DEF Path
    <3>2. Len(req[r].path) \in 0 .. Len(req[r].path)
        BY <1>3 DEF Path
    <3> QED
        BY <1>3, <3>1, <3>2 DEF Prefixes, Path
  <2>2. req[r].path \notin DOMAIN tree
      BY DEF CreateDataset, CanCreate
  <2>3. req[r].path \in made
      BY <2>1, <2>2 DEF made
  <2> QED
      BY <1>4, <1>6, <2>3
<1>9. PoolsType'
    BY DEF CreateDataset, PoolsType, Inv, Typed
<1>10. ~GoesOn(r, "mark") /\ req[r].op \notin Destroys
    BY <1>1, <1>2 DEF Ran, GoesOn, Next1, Dropped, Over, NewRequest, Destroys, Takes
<1> QED
    BY <1>1, <1>2, <1>7, <1>8, <1>9, <1>10, RanInv

\* A command that makes nothing, and destroys what it is to.
LEMMA DestroyInv ==
    ASSUME Inv, NEW r \in Requests, At(r, "act"), Acted(r, Next1(req[r].op)),
           req[r].op \notin Makes, Grown(r), PoolsType',
           req[r].op \in Destroys =>
               /\ DOMAIN tree' \subseteq DOMAIN tree
               /\ \A p \in DOMAIN tree' : tree'[p] = tree[p]
               /\ req[r].path \notin DOMAIN tree'
               /\ req[r].op # "destroy_snapshot" =>
                      DOMAIN tree' \cap Below(tree, req[r].path) = {}
    PROVE  Inv'
<1>1. Ran(r, Next1(req[r].op))
    BY ActedRan DEF Inv, Makes
<1>2. ASSUME req[r].op \in Destroys, NEW p \in DOMAIN tree'
      PROVE  tree'[p].id \notin req[r].doomed
    BY <1>2, DoomedIsPart
<1>3. ~GoesOn(r, "mark") /\ req[r].op \notin MakingOps
    BY <1>1 DEF Ran, GoesOn, Next1, Dropped, Over, NewRequest, Makes, MakingOps
<1> QED
    BY <1>1, <1>2, <1>3, RanInv

LEMMA DestroysInv ==
    ASSUME Inv, NEW r \in Requests, DestroyPool(r) \/ DestroyDataset(r) \/ DestroySnapshot(r)
    PROVE  Inv'
<1>0. TreeType /\ PoolsType
    BY DEF Inv, Typed
<1>1. CASE DestroyPool(r)
  <2>1. /\ At(r, "act") /\ req[r].op = "destroy_pool" /\ Acted(r, "note")
        /\ tree' = Drop(tree, {req[r].path} \cup Below(tree, req[r].path))
      BY <1>1 DEF DestroyPool, Doing, DestroyedPool
  <2>2. PoolsType'
      BY <1>0, <1>1 DEF DestroyPool, PoolsType
  <2>3. /\ Grown(r) /\ DOMAIN tree' = DOMAIN tree \ ({req[r].path} \cup Below(tree, req[r].path))
        /\ \A p \in DOMAIN tree' : tree'[p] = tree[p]
      BY <1>0, <2>1, DropProperties
  <2> QED
      BY <2>1, <2>2, <2>3, DestroyInv DEF Next1, Makes
<1>2. CASE DestroyDataset(r)
  <2>1. /\ At(r, "act") /\ req[r].op = "destroy_dataset" /\ Acted(r, "note")
        /\ tree' = Drop(tree, {req[r].path} \cup Below(tree, req[r].path))
      BY <1>2 DEF DestroyDataset, Doing, Destroyed
  <2>2. PoolsType'
      BY <1>0, <1>2 DEF DestroyDataset, PoolsType
  <2>3. /\ Grown(r) /\ DOMAIN tree' = DOMAIN tree \ ({req[r].path} \cup Below(tree, req[r].path))
        /\ \A p \in DOMAIN tree' : tree'[p] = tree[p]
      BY <1>0, <2>1, DropProperties
  <2> QED
      BY <2>1, <2>2, <2>3, DestroyInv DEF Next1, Makes
<1>3. CASE DestroySnapshot(r)
  <2>1. /\ At(r, "act") /\ req[r].op = "destroy_snapshot" /\ Acted(r, "note")
        /\ tree' = Drop(tree, {req[r].path})
      BY <1>3 DEF DestroySnapshot, Doing, DestroyedSnapshot
  <2>2. PoolsType'
      BY <1>0, <1>3 DEF DestroySnapshot, PoolsType
  <2>3. /\ Grown(r) /\ DOMAIN tree' = DOMAIN tree \ {req[r].path}
        /\ \A p \in DOMAIN tree' : tree'[p] = tree[p]
      BY <1>0, <2>1, DropProperties
  <2> QED
      BY <2>1, <2>2, <2>3, DestroyInv DEF Next1, Makes
<1> QED
    BY <1>1, <1>2, <1>3

\* A scan's state is all that changes of a pool.
LEMMA ScanProperties ==
    ASSUME PoolsType, NEW p \in DOMAIN pools, NEW state \in {"running", "finished", "canceled"},
           Scan(p, state)
    PROVE  PoolsType' /\ DOMAIN pools' = DOMAIN pools
<1>1. pools' = [q \in DOMAIN pools |-> IF q = p THEN [pools[p] EXCEPT !.scan = state] ELSE pools[q]]
    BY DEF Scan, PoolsType
<1>2. IsPool([pools[p] EXCEPT !.scan = state]) /\ [pools[p] EXCEPT !.scan = state].scan = state
    BY DEF PoolsType, IsPool
<1> QED
    BY <1>1, <1>2 DEF PoolsType

LEMMA QuietCommandsInv ==
    ASSUME Inv, NEW r \in Requests,
           StartScrub(r) \/ StopScrub(r) \/ UpdateDataset(r) \/ Rollback(r)
    PROVE  Inv'
<1>0. TreeType /\ PoolsType
    BY DEF Inv, Typed
<1>1. CASE StartScrub(r)
  <2>1. At(r, "act") /\ req[r].op = "scrub" /\ Acted(r, "poll") /\ tree' = tree
      BY <1>1 DEF StartScrub, Doing
  <2>2. PoolsType' /\ Grown(r)
      BY <1>0, <1>1, <2>1, ScanProperties, UnchangedGrown DEF StartScrub
  <2> QED
      BY <2>1, <2>2, DestroyInv DEF Next1, Makes, Destroys, Takes
<1>2. CASE StopScrub(r)
  <2>1. At(r, "act") /\ req[r].op = "stop_scrub" /\ Acted(r, "over") /\ tree' = tree
      BY <1>2 DEF StopScrub, Doing
  <2>2. PoolsType' /\ Grown(r)
      BY <1>0, <1>2, <2>1, ScanProperties, UnchangedGrown DEF StopScrub
  <2> QED
      BY <2>1, <2>2, DestroyInv DEF Next1, Makes, Destroys, Takes
<1>3. CASE UpdateDataset(r)
  <2>1. At(r, "act") /\ req[r].op = "update_dataset" /\ Acted(r, "note") /\ tree' = tree
      BY <1>3 DEF UpdateDataset, Doing
  <2>2. PoolsType' /\ Grown(r)
      BY <1>0, <1>3, <2>1, UnchangedGrown DEF UpdateDataset, PoolsType
  <2> QED
      BY <2>1, <2>2, DestroyInv DEF Next1, Makes, Destroys, Takes
<1>4. CASE Rollback(r)
  <2>1. /\ At(r, "act") /\ req[r].op = "rollback" /\ Acted(r, "over")
        /\ tree' = Drop(tree, Newer(tree, req[r].path))
      BY <1>4 DEF Rollback, Doing, RolledBack
  <2>2. PoolsType' /\ Grown(r)
      BY <1>0, <1>4, <2>1, DropProperties DEF Rollback, PoolsType
  <2> QED
      BY <2>1, <2>2, DestroyInv DEF Next1, Makes, Destroys, Takes
<1> QED
    BY <1>1, <1>2, <1>3, <1>4

LEMMA SnapIsSnapshot ==
    ASSUME NEW p \in Path, NEW name \in SnapshotNames
    PROVE  Snap(p, name) \in Path /\ IsSnapshot(Snap(p, name))
<1>1. name \in Part /\ p \in Seq(Part)
    BY StorageAssumption DEF Path, Part
<1>2. /\ Append(p, name) \in Seq(Part) /\ Append(p, name) # << >>
      /\ Len(Append(p, name)) = Len(p) + 1 /\ Append(p, name)[Len(p) + 1] = name
  <2> DEFINE s == Append(p, name)
  <2>1. s \in Seq(Part) /\ s # << >> /\ Len(s) = Len(p) + 1 /\ s[Len(p) + 1] = name
      BY <1>1, AppendProperties, ZenonT(40)
  <2> QED
      BY <2>1
<1> QED
    BY <1>2 DEF Snap, IsSnapshot, Last, Path

LEMMA CreateSnapshotInv ==
    ASSUME Inv, NEW r \in Requests, CreateSnapshot(r)
    PROVE  Inv'
<1>0. /\ At(r, "act") /\ req[r].op = "create_snapshot" /\ Next1(req[r].op) = "mark"
      /\ TreeType /\ RequestType
    BY DEF CreateSnapshot, Doing, Next1, Inv, Typed
<1>1. PICK name \in SnapshotNames :
          /\ CanSnapshot(tree, req[r].to, name, req[r].flag)
          /\ tree' = Snapshotted(tree, req[r].to, name, req[r].flag, NoId, clock)
          /\ clock' = clock + 1
          /\ UNCHANGED <<pools, meta, known, overlapped>>
          /\ \/ /\ cache' = Invalidate /\ UNCHANGED cuts
                /\ req' = [req EXCEPT ![r].stage = "mark", ![r].path = Snap(req[r].to, name)]
             \/ /\ cuts < MaxCuts
                /\ cuts' = cuts + 1 /\ Goto(r, "over") /\ UNCHANGED cache
    BY DEF CreateSnapshot
<1> DEFINE made == {Snap(q, name) : q \in Snapped(tree, req[r].to, req[r].flag)}
<1>2. Snapped(tree, req[r].to, req[r].flag) \subseteq DOMAIN tree /\ req[r].to \in DOMAIN tree
    BY <1>1 DEF CanSnapshot, Snapped, ChildrenOf, Below
<1>3. made \subseteq Path /\ req[r].to \in Path
    BY <1>0, <1>2, SnapIsSnapshot DEF TreeType
<1>4. Snap(req[r].to, name) \in made
    BY DEF Snapped
<1>5. /\ DOMAIN tree' = DOMAIN tree \cup made
      /\ tree' = [p \in DOMAIN tree' |-> tree'[p]]
      /\ \A p \in made : tree'[p] = Object(NoId, clock)
      /\ \A p \in DOMAIN tree' : p \notin made => tree'[p] = tree[p]
    BY <1>1 DEF Snapshotted, Put
<1> HIDE DEF made
<1>6. /\ IsObject(Object(NoId, clock)) /\ Object(NoId, clock).clones = {}
      /\ Object(NoId, clock).born = clock /\ Object(NoId, clock).id = NoId
    BY DEF Object, IsObject
<1>7. Grown(r)
  <2>1. ASSUME NEW p \in DOMAIN tree', p \notin made
        PROVE  p \in DOMAIN tree /\ tree'[p] = tree[p] /\ IsObject(tree[p]) /\ tree[p].clones \subseteq Places
      BY <1>0, <1>5, <2>1 DEF TreeType
  <2> QED
      BY <1>3, <1>5, <1>6, <2>1 DEF Grown
<1>8. Snap(req[r].to, name) \in Path /\ IsSnapshot(Snap(req[r].to, name))
    BY <1>3, SnapIsSnapshot
<1>9. CASE /\ cache' = Invalidate /\ UNCHANGED cuts
           /\ req' = [req EXCEPT ![r].stage = "mark", ![r].path = Snap(req[r].to, name)]
  <2> DEFINE new == [req[r] EXCEPT !.stage = "mark", !.path = Snap(req[r].to, name)]
  <2>1. req = [q \in Requests |-> req[q]] /\ IsRequest(req[r])
      BY <1>0 DEF RequestType, Placed
  <2>2. req' = [q \in Requests |-> IF q = r THEN new ELSE req[q]]
      BY <1>9, <2>1
  <2>a. new = [op |-> req[r].op, stage |-> "mark", id |-> req[r].id, to |-> req[r].to,
               flag |-> req[r].flag, path |-> Snap(req[r].to, name), seen |-> req[r].seen,
               doomed |-> req[r].doomed]
    <3> DEFINE marked == [req[r] EXCEPT !.stage = "mark"]
    <3>1. marked = [op |-> req[r].op, stage |-> "mark", id |-> req[r].id, to |-> req[r].to,
                    flag |-> req[r].flag, path |-> req[r].path, seen |-> req[r].seen,
                    doomed |-> req[r].doomed]
        BY <2>1 DEF IsRequest
    <3>2. new = [marked EXCEPT !.path = Snap(req[r].to, name)]
        OBVIOUS
    <3> HIDE DEF marked, new
    <3> QED
        BY <3>1, <3>2
  <2> HIDE DEF new
  <2>3. /\ IsRequest(new) /\ new.stage = "mark" /\ new.path = Snap(req[r].to, name)
        /\ new.op = req[r].op /\ new.id = req[r].id /\ new.to = req[r].to
        /\ new.flag = req[r].flag /\ new.doomed = req[r].doomed
      BY <2>a DEF IsRequest
  <2>4. /\ req' = [q \in Requests |-> req'[q]]
        /\ \A q \in Requests : q # r => req'[q] = req[q]
        /\ req'[r] = new
      BY <2>2
  <2>5. GoesOn(r, "mark")
      BY <1>0, <1>8, <1>9, <2>3, <2>4 DEF GoesOn, Invalidate
  <2>6. Ran(r, Next1(req[r].op))
      BY <1>0, <1>1, <2>4, <2>5 DEF Ran
  <2>7. tree'[Target(req'[r])].id = NoId
      BY <1>0, <1>4, <1>5, <1>6, <2>3, <2>4 DEF Target
  <2> QED
      BY <1>0, <1>1, <1>7, <2>6, <2>7, RanInv DEF Destroys, Takes, MakingOps, PoolsType, Inv, Typed
<1>10. CASE cuts' = cuts + 1 /\ Goto(r, "over") /\ UNCHANGED cache
  <2>1. /\ req' = [q \in Requests |-> req'[q]]
        /\ \A q \in Requests : q # r => req'[q] = req[q]
        /\ req'[r] = Over
      BY <1>0, <1>10, Going DEF Over
  <2>2. Ran(r, Next1(req[r].op))
      BY <1>1, <1>10, <2>1 DEF Ran, Dropped
  <2>3. ~GoesOn(r, "mark")
      BY <2>1 DEF GoesOn, Over, NewRequest
  <2> QED
      BY <1>0, <1>1, <1>7, <2>2, <2>3, RanInv DEF Destroys, Takes, MakingOps, PoolsType, Inv, Typed
<1> QED
    BY <1>1, <1>9, <1>10

LEMMA CloneInv ==
    ASSUME Inv, NEW r \in Requests, Clone(r)
    PROVE  Inv'
<1>0. /\ At(r, "act") /\ req[r].op = "clone" /\ Next1(req[r].op) = "mark"
      /\ TreeType /\ RequestType
    BY DEF Clone, Doing, Next1, Inv, Typed
<1>1. Ran(r, Next1(req[r].op))
    BY <1>0, ActedRan DEF Clone
<1>2. req[r].to \in Places /\ req[r].to \in Path
    BY <1>0, PlacesArePaths DEF RequestType, Placed
<1>3. req[r].path \in DOMAIN tree /\ req[r].to \notin DOMAIN tree
    BY DEF Clone, CanClone
<1> DEFINE origin == [tree[req[r].path] EXCEPT !.clones = @ \cup {req[r].to}]
<1>a. origin = [id |-> tree[req[r].path].id, born |-> tree[req[r].path].born,
                clones |-> tree[req[r].path].clones \cup {req[r].to}]
  <2>1. IsObject(tree[req[r].path])
      BY <1>0, <1>3 DEF TreeType
  <2> QED
      BY <2>1 DEF IsObject
<1> HIDE DEF origin
<1>4. /\ IsObject(origin) /\ origin.id = tree[req[r].path].id
      /\ origin.born = tree[req[r].path].born
      /\ origin.clones = tree[req[r].path].clones \cup {req[r].to}
    BY <1>a DEF IsObject
<1>5. [tree EXCEPT ![req[r].path].clones = @ \cup {req[r].to}] =
          [p \in DOMAIN tree |-> IF p = req[r].path THEN origin ELSE tree[p]]
    BY <1>0 DEF TreeType, origin
<1>6. /\ DOMAIN tree' = DOMAIN tree \cup {req[r].to}
      /\ tree' = [p \in DOMAIN tree' |-> tree'[p]]
      /\ tree'[req[r].to] = Object(NoId, clock)
      /\ \A p \in DOMAIN tree : tree'[p] = (IF p = req[r].path THEN origin ELSE tree[p])
    BY <1>3, <1>5 DEF Clone, Cloned, Put
<1>7. Grown(r)
  <2>1. ASSUME NEW p \in DOMAIN tree
        PROVE  /\ IsObject(tree'[p]) /\ tree'[p].clones \subseteq Places
               /\ tree'[p].id = tree[p].id /\ tree'[p].born = tree[p].born
      BY <1>0, <1>2, <1>4, <1>6 DEF TreeType
  <2>2. /\ IsObject(tree'[req[r].to]) /\ tree'[req[r].to].clones = {}
        /\ tree'[req[r].to].id = NoId /\ tree'[req[r].to].born = clock
      BY <1>6 DEF Object, IsObject
  <2> QED
      BY <1>2, <1>6, <2>1, <2>2 DEF Grown
<1>8. GoesOn(r, "mark") => tree'[Target(req'[r])].id = NoId
    BY <1>0, <1>6 DEF GoesOn, Target, Object
<1>9. PoolsType'
    BY DEF Clone, PoolsType, Inv, Typed
<1> QED
    BY <1>0, <1>1, <1>7, <1>8, <1>9, RanInv DEF Destroys, Takes, MakingOps

LEMMA CommandInv ==
    ASSUME Inv, NEW r \in Requests, Command(r)
    PROVE  Inv'
BY CreatePoolInv, CreateDatasetInv, DestroysInv, QuietCommandsInv, CreateSnapshotInv, CloneInv
   DEF Command


-----------------------------------------------------------------------------
(* Finding the object.                                                     *)

\* A field of a request is changed alone.
LEMMA OneField ==
    ASSUME NEW q, IsRequest(q), NEW x, NEW k
    PROVE  /\ k = [q EXCEPT !.stage = x] =>
                 /\ IsRequest(k) /\ k.op = q.op /\ k.stage = x /\ k.id = q.id /\ k.to = q.to
                 /\ k.flag = q.flag /\ k.path = q.path /\ k.seen = q.seen /\ k.doomed = q.doomed
           /\ k = [q EXCEPT !.seen = x] =>
                 /\ IsRequest(k) /\ k.op = q.op /\ k.stage = q.stage /\ k.id = q.id /\ k.to = q.to
                 /\ k.flag = q.flag /\ k.path = q.path /\ k.seen = x /\ k.doomed = q.doomed
           /\ k = [q EXCEPT !.path = x] =>
                 /\ IsRequest(k) /\ k.op = q.op /\ k.stage = q.stage /\ k.id = q.id /\ k.to = q.to
                 /\ k.flag = q.flag /\ k.path = x /\ k.seen = q.seen /\ k.doomed = q.doomed
           /\ k = [q EXCEPT !.id = x] =>
                 /\ IsRequest(k) /\ k.op = q.op /\ k.stage = q.stage /\ k.id = x /\ k.to = q.to
                 /\ k.flag = q.flag /\ k.path = q.path /\ k.seen = q.seen /\ k.doomed = q.doomed
           /\ k = [q EXCEPT !.doomed = x] =>
                 /\ IsRequest(k) /\ k.op = q.op /\ k.stage = q.stage /\ k.id = q.id /\ k.to = q.to
                 /\ k.flag = q.flag /\ k.path = q.path /\ k.seen = q.seen /\ k.doomed = x
           /\ k = [q EXCEPT !.op = x] =>
                 IsRequest(k) /\ k.op = x /\ k.stage = q.stage /\ k.id = q.id /\ k.to = q.to
           /\ k = [q EXCEPT !.to = x] =>
                 IsRequest(k) /\ k.op = q.op /\ k.stage = q.stage /\ k.id = q.id /\ k.to = x
           /\ k = [q EXCEPT !.flag = x] =>
                 /\ IsRequest(k) /\ k.op = q.op /\ k.stage = q.stage /\ k.id = q.id /\ k.to = q.to
                 /\ k.flag = x
BY DEF IsRequest

\* Only request r is changed.
LEMMA OneRequest ==
    ASSUME RequestType, NEW r \in Requests, NEW new, req' = [req EXCEPT ![r] = new]
    PROVE  /\ req' = [q \in Requests |-> req'[q]]
           /\ \A q \in Requests : q # r => req'[q] = req[q]
           /\ req'[r] = new
<1>1. req = [q \in Requests |-> req[q]]
    BY DEF RequestType
<1>2. req' = [q \in Requests |-> IF q = r THEN new ELSE req[q]]
    BY <1>1, Zenon
<1> QED
    BY <1>2

Eligible(r, ids) == {p \in Matches(r, ids) : Allowed(r, p)}

\* What Decide does to the request.
LEMMA Deciding ==
    ASSUME RequestType, NEW r \in Requests, NEW ids, NEW listing, Decide(r, ids, listing)
    PROVE  /\ req' = [q \in Requests |-> req'[q]]
           /\ \A q \in Requests : q # r => req'[q] = req[q]
           /\ IsRequest(req'[r])
           /\ \/ req'[r] = Over
              \/ /\ req[r].op \notin Lists /\ req'[r].path \in Eligible(r, ids)
                 /\ req'[r].stage = AfterFind(r) /\ req'[r].doomed = {req[r].id}
                 /\ req'[r].op = req[r].op /\ req'[r].id = req[r].id
                 /\ req'[r].to = req[r].to /\ req'[r].flag = req[r].flag
<1>1. CASE req[r].op \in Lists \/ Eligible(r, ids) = {}
  <2>1. Goto(r, "over")
      BY <1>1 DEF Decide, Lists, Eligible
  <2> QED
      BY <2>1, Going DEF Over
<1>2. CASE ~(req[r].op \in Lists \/ Eligible(r, ids) = {})
  <2> DEFINE path == CHOOSE p \in Eligible(r, ids) : TRUE
             q1 == [req[r] EXCEPT !.stage = AfterFind(r)]
             q2 == [q1 EXCEPT !.seen = Unknown]
             q3 == [q2 EXCEPT !.path = path]
             q4 == [q3 EXCEPT !.doomed = {req[r].id}]
  <2>1. req' = [req EXCEPT ![r].stage = AfterFind(r), ![r].seen = Unknown,
                           ![r].path = path, ![r].doomed = {req[r].id}]
      BY <1>2 DEF Decide, Lists, Eligible
  <2>2. path \in Eligible(r, ids)
      BY <1>2
  <2> HIDE DEF path
  <2>3. req = [q \in Requests |-> req[q]] /\ IsRequest(req[r])
      BY DEF RequestType, Placed
  <2>4. req' = [q \in Requests |-> IF q = r THEN q4 ELSE req[q]]
      BY <2>1, <2>3
  <2> HIDE DEF q4
  <2>5. /\ req' = [q \in Requests |-> req'[q]] /\ req'[r] = q4
        /\ \A q \in Requests : q # r => req'[q] = req[q]
      BY <2>4
  <2> HIDE DEF q1, q2, q3
  <2>6. /\ IsRequest(q1) /\ q1.op = req[r].op /\ q1.stage = AfterFind(r) /\ q1.id = req[r].id
        /\ q1.to = req[r].to /\ q1.flag = req[r].flag
      BY <2>3, OneField DEF q1
  <2>7. /\ IsRequest(q2) /\ q2.op = req[r].op /\ q2.stage = AfterFind(r) /\ q2.id = req[r].id
        /\ q2.to = req[r].to /\ q2.flag = req[r].flag
      BY <2>6, OneField DEF q2
  <2>8. /\ IsRequest(q3) /\ q3.op = req[r].op /\ q3.stage = AfterFind(r) /\ q3.id = req[r].id
        /\ q3.to = req[r].to /\ q3.flag = req[r].flag /\ q3.path = path
      BY <2>7, OneField DEF q3
  <2>9. /\ IsRequest(q4) /\ q4.op = req[r].op /\ q4.stage = AfterFind(r) /\ q4.id = req[r].id
        /\ q4.to = req[r].to /\ q4.flag = req[r].flag /\ q4.path = path
        /\ q4.doomed = {req[r].id}
      BY <2>8, OneField DEF q4
  <2> QED
      BY <1>2, <2>2, <2>5, <2>9
<1> QED
    BY <1>1, <1>2

\* What is decided is what the request may do, to an object of the id it has.
LEMMA DecideHolds ==
    ASSUME Inv, NEW r \in Requests, NEW ids, NEW listing, Decide(r, ids, listing),
           req[r].stage \in {"read", "name"}, req[r].op \notin MakingOps,
           \A p \in DOMAIN ids :
              /\ p \in Path /\ (IsSnapshot(p) <=> req[r].op \in SnapshotOps)
              /\ Of(ids[p], p) /\ (Given(req, ids[p]) \/ ids[p].by = r)
              /\ listing[p].born \in Nat /\ listing[p].born < clock,
           clock' = clock
    PROVE  /\ Moves(r) /\ RequestType' /\ KnownType' /\ Spares(r)'
           /\ \A p \in DOMAIN ids : Given(req', ids[p])
<1>1. /\ req' = [q \in Requests |-> req'[q]]
      /\ \A q \in Requests : q # r => req'[q] = req[q]
      /\ IsRequest(req'[r])
      /\ \/ req'[r] = Over
         \/ /\ req[r].op \notin Lists /\ req'[r].path \in Eligible(r, ids)
            /\ req'[r].stage = AfterFind(r) /\ req'[r].doomed = {req[r].id}
            /\ req'[r].op = req[r].op /\ req'[r].id = req[r].id
            /\ req'[r].to = req[r].to /\ req'[r].flag = req[r].flag
    BY Deciding DEF Inv
<1>2. /\ AfterFind(r) \in {"children", "note", "act"}
      /\ AfterFind(r) = "children" => req[r].op = "destroy_dataset"
      /\ AfterFind(r) = "note" => req[r].op = "update_dataset"
    BY DEF AfterFind
<1>3. Moves(r)
  <2>1. CASE req'[r] = Over
      BY <1>1, <2>1, OverHolds DEF Moves, Over
  <2>2. CASE req'[r].stage = AfterFind(r)
      BY <1>1, <1>2, <2>2 DEF Moves, ToGive
  <2> QED
      BY <1>1, <2>1, <2>2
<1>4. \A i : Given(req, i) => Given(req', i)
    BY <1>3, GivenStays
<1>5. Placed(req[r]) /\ Holds(r)
    BY DEF Inv, RequestType
<1>6. ASSUME NEW p \in DOMAIN ids
      PROVE  Given(req', ids[p])
  <2>1. CASE Given(req, ids[p])
      BY <1>4, <2>1
  <2>2. CASE ids[p].by = r
    <3>1. ids[p].path = p
        BY NoIdProperties
    <3>2. CASE req'[r] = Over
      <4>1. ~ToGive(r, req'[r], ids[p])
          BY <3>2, OverHolds DEF Over
      <4> QED
          BY <2>2, <4>1, NotOthers
    <3>3. CASE req'[r].stage = AfterFind(r) /\ req'[r].op = req[r].op /\ req'[r].to = req[r].to
      <4>1. r # MaxRequests + r
          BY StorageAssumption DEF Requests
      <4>2. req[r].op = "create_snapshot" => ~IsSnapshot(p)
          BY DEF SnapshotOps
      <4>3. req[r].op = "clone" => p # req[r].to
          BY <1>5, StorageAssumption DEF SnapshotOps, Placed
      <4>4. ~ToGive(r, req'[r], ids[p])
          BY <1>2, <2>2, <3>1, <3>3, <4>1, <4>2, <4>3 DEF ToGive, Makes, MakingOps
      <4> QED
          BY <2>2, <4>4, NotOthers
    <3> QED
        BY <1>1, <3>2, <3>3
  <2> QED
      BY <2>1, <2>2
<1>7. /\ known \subseteq known'
      /\ \A k \in known' : k \in known \/ \E p \in DOMAIN ids :
                              k = [id |-> ids[p], path |-> p, born |-> listing[p].born]
    BY DEF Decide
<1>8. KnownType'
  <2>1. ASSUME NEW k \in known'
        PROVE  /\ k = [id |-> k.id, path |-> k.path, born |-> k.born]
               /\ k.path \in Path /\ Of(k.id, k.path) /\ Given(req', k.id)
               /\ k.born \in Nat /\ k.born < clock'
    <3>1. CASE k \in known
        BY <1>4, <3>1 DEF Inv, Typed, KnownType
    <3>2. CASE \E p \in DOMAIN ids : k = [id |-> ids[p], path |-> p, born |-> listing[p].born]
        BY <1>6, <3>2
    <3> QED
        BY <1>7, <3>1, <3>2
  <2> QED
      BY <2>1 DEF KnownType
<1>9. clock \in Nat
    BY DEF Inv, Typed
<1>10. CASE req'[r] = Over
  <2>1. Placed(req'[r]) /\ Holds(r)' /\ Spares(r)'
      BY <1>10, OverHolds DEF Over
  <2>2. RequestType'
      BY <1>3, <1>7, <1>9, <2>1, OthersHold DEF Inv
  <2> QED
      BY <1>3, <1>6, <1>8, <2>1, <2>2
<1>11. CASE req'[r] # Over
  <2>1. /\ req[r].op \notin Lists /\ req'[r].path \in Eligible(r, ids)
        /\ req'[r].stage = AfterFind(r) /\ req'[r].doomed = {req[r].id}
        /\ req'[r].op = req[r].op /\ req'[r].id = req[r].id
        /\ req'[r].to = req[r].to /\ req'[r].flag = req[r].flag
      BY <1>1, <1>11
  <2>2. req'[r].path \in Matches(r, ids) /\ Allowed(r, req'[r].path)
      BY <2>1 DEF Eligible
  <2>3. Placed(req'[r])
      BY <1>1, <1>2, <1>5, <2>1 DEF Placed, Stages, Makes, Destroys, Takes
  <2>4. req[r].op \in Takes =>
            /\ req'[r].path \in DOMAIN ids /\ ids[req'[r].path] = req[r].id
            /\ req[r].op = "destroy_pool" => Len(req'[r].path) = 1
      BY <2>2 DEF Matches, Takes, PoolOps
  <2>5. req[r].op \in Takes => MayBeTaken(req'[r])
      BY <2>1, <2>2, <2>4 DEF Allowed, MayBeTaken, Takes, PoolProtected
  <2>6. ASSUME req[r].op \in Destroys
        PROVE  IsDoomed(req', req'[r], req[r].id)
    <3>1. Given(req, req[r].id)
        BY <1>5, <2>6 DEF Holds, Destroys, Inv, Typed, KnownType
    <3>2. req[r].id.path = req'[r].path /\ req'[r].path \in Path
        BY <2>4, <2>6, NoIdProperties DEF Destroys
    <3> QED
        BY <1>4, <3>1, <3>2 DEF IsDoomed
  <2>7. Holds(r)'
    <3>1. req'[r].op \in Takes \cup {"update_dataset"} => \E k \in known' : k.id = req'[r].id
        BY <1>5, <1>7, <2>1 DEF Holds
    <3>2. req'[r].op \in Takes => req'[r].path \in Path /\ Of(req'[r].id, req'[r].path)
        BY <2>1, <2>4
    <3>3. req'[r].op \in Destroys => \A i \in req'[r].doomed : IsDoomed(req', req'[r], i)
        BY <2>1, <2>6
    <3>4. req'[r].stage = "act" => req'[r].op \notin MakingOps
        BY <2>1
    <3>5. req'[r].stage = "note" => req'[r].op \notin Makes
        BY <1>2, <2>1 DEF Makes
    <3>6. req'[r].stage \notin {"name", "mark"}
        BY <1>2, <2>1
    <3> QED
        BY <2>1, <2>5, <3>1, <3>2, <3>3, <3>4, <3>5, <3>6 DEF Holds
  <2>8. Spares(r)'
      BY <1>2, <2>1 DEF Spares, At, Destroys, Takes
  <2>9. RequestType'
      BY <1>3, <1>7, <1>9, <2>3, <2>7, OthersHold DEF Inv
  <2> QED
      BY <1>3, <1>6, <1>8, <2>8, <2>9
<1> QED
    BY <1>10, <1>11

\* A request that is alone decides by what there is.
LEMMA DecideSure ==
    ASSUME Inv, NEW r \in Requests, NEW ids, NEW listing, Decide(r, ids, listing),
           \A p \in DOMAIN ids :
              p \in DOMAIN tree' /\ tree'[p].id = ids[p] /\ tree'[p].born = listing[p].born,
           \A k \in known : k.path \in DOMAIN tree' =>
              (tree'[k.path].id = k.id <=> tree'[k.path].born = k.born)
    PROVE  Told' /\ Sure(r)'
<1>1. \A k \in known' : k \in known \/ \E p \in DOMAIN ids :
                              k = [id |-> ids[p], path |-> p, born |-> listing[p].born]
    BY DEF Decide
<1>2. ASSUME NEW k \in known', k.path \in DOMAIN tree'
      PROVE  tree'[k.path].id = k.id <=> tree'[k.path].born = k.born
  <2>1. CASE k \in known
      BY <1>2, <2>1
  <2>2. CASE \E p \in DOMAIN ids : k = [id |-> ids[p], path |-> p, born |-> listing[p].born]
      BY <2>2
  <2> QED
      BY <1>1, <2>1, <2>2
<1>3. Told'
    BY <1>2 DEF Told
<1>4. CASE req'[r] = Over
    BY <1>3, <1>4, OverHolds DEF Over
<1>5. CASE req'[r] # Over
  <2>1. /\ req'[r].path \in Eligible(r, ids) /\ req'[r].stage = AfterFind(r)
        /\ req'[r].op = req[r].op /\ req'[r].id = req[r].id
      BY <1>5, Deciding DEF Inv
  <2>2. /\ AfterFind(r) \in {"children", "note", "act"}
        /\ AfterFind(r) = "note" => req[r].op = "update_dataset"
      BY DEF AfterFind
  <2>3. req[r].op \in Takes => req'[r].path \in DOMAIN ids /\ ids[req'[r].path] = req[r].id
      BY <2>1 DEF Eligible, Matches, Takes
  <2>4. Sure(r)'
      BY <2>1, <2>2, <2>3 DEF Sure, Makes
  <2> QED
      BY <1>3, <2>4
<1> QED
    BY <1>4, <1>5

LEMMA KindOfProperties ==
    ASSUME NEW op
    PROVE  /\ KindOf(op) \in {"datasets", "snapshots"}
           /\ KindOf(op) = "snapshots" <=> op \in SnapshotOps
BY DEF KindOf

LEMMA FetchedSame ==
    ASSUME tree' = tree
    PROVE  \A k \in {"datasets", "snapshots"} : Fetched(k)' = Fetched(k)
BY DEF Fetched

LEMMA ReadInv ==
    ASSUME Inv, NEW r \in Requests, Read(r)
    PROVE  Inv'
<1> DEFINE kind == KindOf(req[r].op)
           listing == Listing(kind)
           pooled == IF req[r].op \in PoolOps THEN Listing("pools") ELSE cache["pools"]
<1>1. /\ req[r].stage = "read" /\ req[r].op \notin MakingOps
      /\ cache' = [cache EXCEPT ![kind] = listing, !["pools"] = pooled]
      /\ tree' = tree /\ pools' = pools /\ meta' = meta /\ overlapped' = overlapped
      /\ cuts' = cuts /\ clock' = clock
      /\ IF Unnamed(listing) = {} THEN Decide(r, IdsOf(listing), listing)
         ELSE /\ req' = [req EXCEPT ![r].stage = "name", ![r].seen = listing]
              /\ UNCHANGED known
    BY DEF Read, At, KindOf, PoolOps, SnapshotOps
<1>2. /\ kind \in {"datasets", "snapshots"}
      /\ kind = "snapshots" <=> req[r].op \in SnapshotOps
    BY KindOfProperties
<1>3. IsListing(req, clock, listing, req[r].op \in SnapshotOps)
  <2>1. CASE kind = "datasets"
      BY <1>2, <2>1, ListingProperties DEF Inv, IsListing
  <2>2. CASE kind = "snapshots"
      BY <1>2, <2>2, ListingProperties DEF Inv, IsListing
  <2> QED
      BY <1>2, <2>1, <2>2
<1>4. /\ cache' = [k \in Kinds |-> cache'[k]]
      /\ \A k \in {"datasets", "snapshots"} : cache'[k] \in {cache[k], Listing(k)}
  <2> HIDE DEF listing, pooled, kind
  <2>1. cache = [k \in Kinds |-> cache[k]]
      BY DEF Inv, Typed, CacheType
  <2>2. cache' = [k \in Kinds |-> IF k = "pools" THEN pooled ELSE IF k = kind THEN listing ELSE cache[k]]
      BY <1>1, <1>2, <2>1 DEF Kinds
  <2> QED
      BY <1>2, <2>2 DEF Kinds, listing
<1>5. /\ Typed /\ RequestType /\ clock \in Nat /\ clock <= clock' /\ clock' \in Nat
      /\ overlapped \in BOOLEAN /\ cuts \in Nat
    BY <1>1 DEF Inv, Typed
<1>6. /\ Moves(r) /\ RequestType' /\ KnownType' /\ Spares(r)'
      /\ Calm => Told' /\ Sure(r)'
  <2>1. CASE Unnamed(listing) = {}
    <3> DEFINE ids == IdsOf(listing)
    <3>1. Decide(r, ids, listing)
        BY <1>1, <2>1
    <3>2. DOMAIN ids = DOMAIN listing /\ \A p \in DOMAIN ids : ids[p] = listing[p].id
        BY DEF IdsOf
    <3>3. \A p \in DOMAIN listing : listing[p].id # NoId
        BY <2>1 DEF Unnamed
    <3>4. \A p \in DOMAIN ids :
              /\ p \in Path /\ (IsSnapshot(p) <=> req[r].op \in SnapshotOps)
              /\ Of(ids[p], p) /\ Given(req, ids[p])
              /\ listing[p].born \in Nat /\ listing[p].born < clock
        BY <1>3, <3>2, <3>3 DEF IsListing, IsId
    <3>5. ASSUME Calm
          PROVE  \A p \in DOMAIN ids :
                    p \in DOMAIN tree' /\ tree'[p].id = ids[p] /\ tree'[p].born = listing[p].born
      <4>1. listing = Fetched(kind)
          BY <1>2, <3>5 DEF Inv, CalmInv, Fresh, Listing
      <4> QED
          BY <1>1, <1>2, <1>5, <3>2, <4>1, FetchedProperties DEF Typed
    <3>6. Calm => \A k \in known : k.path \in DOMAIN tree' =>
                     (tree'[k.path].id = k.id <=> tree'[k.path].born = k.born)
        BY <1>1 DEF Inv, CalmInv, Told
    <3> HIDE DEF ids, listing, kind
    <3>7. Moves(r) /\ RequestType' /\ KnownType' /\ Spares(r)'
        BY <1>1, <3>1, <3>4, DecideHolds
    <3>8. Calm => Told' /\ Sure(r)'
        BY <3>1, <3>5, <3>6, DecideSure
    <3> QED
        BY <3>7, <3>8
  <2>2. CASE Unnamed(listing) # {}
    <3> DEFINE q1 == [req[r] EXCEPT !.stage = "name"]
               q2 == [q1 EXCEPT !.seen = listing]
    <3>1. req' = [req EXCEPT ![r].stage = "name", ![r].seen = listing] /\ known' = known
        BY <1>1, <2>2
    <3>2. Placed(req[r]) /\ Holds(r) /\ IsRequest(req[r]) /\ req = [q \in Requests |-> req[q]]
        BY <1>5 DEF RequestType, Placed
    <3> HIDE DEF listing, kind
    <3>3. req' = [q \in Requests |-> IF q = r THEN q2 ELSE req[q]]
        BY <3>1, <3>2
    <3> HIDE DEF q2
    <3>4. /\ req' = [q \in Requests |-> req'[q]] /\ req'[r] = q2
          /\ \A q \in Requests : q # r => req'[q] = req[q]
        BY <3>3
    <3> HIDE DEF q1
    <3>5. /\ IsRequest(q1) /\ q1.op = req[r].op /\ q1.stage = "name" /\ q1.id = req[r].id
          /\ q1.to = req[r].to /\ q1.flag = req[r].flag
        BY <3>2, OneField DEF q1
    <3>6. /\ IsRequest(q2) /\ q2.op = req[r].op /\ q2.stage = "name" /\ q2.id = req[r].id
          /\ q2.to = req[r].to /\ q2.flag = req[r].flag /\ q2.seen = listing
        BY <3>5, OneField DEF q2
    <3>7. Moves(r)
        BY <1>1, <3>4, <3>6 DEF Moves, ToGive
    <3>8. Placed(req'[r])
        BY <1>1, <3>2, <3>4, <3>6 DEF Placed, Stages
    <3>9. IsListing(req', clock', listing, req[r].op \in SnapshotOps)
        BY <1>3, <1>5, <3>7, ListingStays
    <3>10. Holds(r)'
        BY <3>1, <3>2, <3>4, <3>6, <3>9 DEF Holds
    <3>11. RequestType'
        BY <1>5, <3>1, <3>7, <3>8, <3>10, OthersHold
    <3>12. KnownType'
        BY <1>5, <3>1, <3>7, Kept
    <3>13. Spares(r)'
        BY <3>4, <3>6 DEF Spares, At
    <3>14. ASSUME Calm
           PROVE  Told' /\ Sure(r)'
      <4>1. listing = Fetched(kind)
          BY <1>2, <3>14 DEF Inv, CalmInv, Fresh, Listing, listing
      <4>2. listing = Fetched(kind)'
        <5>1. kind' = kind
            BY <3>4, <3>6 DEF kind
        <5> QED
            BY <1>1, <1>2, <4>1, <5>1 DEF Fetched
      <4>3. Sure(r)'
          BY <3>4, <3>6, <4>2 DEF Sure, kind
      <4>4. Told'
          BY <1>1, <3>1, <3>14 DEF Inv, CalmInv, Told
      <4> QED
          BY <4>3, <4>4
    <3> QED
        BY <3>7, <3>11, <3>12, <3>13, <3>14
  <2> QED
      BY <2>1, <2>2
<1> HIDE DEF listing, kind, pooled
<1>7. Typed'
    BY <1>1, <1>4, <1>5, <1>6, Kept
<1>8. \A q \in Requests : Spares(q)'
    BY <1>1, <1>6, OthersSpare DEF Inv
<1>9. /\ ~overlapped' => \A q \in Requests : q # r => Sure(q)'
      /\ Solo'
    BY <1>1, <1>6, OthersSure DEF Inv, Working, Moves
<1>10. ASSUME Calm'
       PROVE  Fresh' /\ Told' /\ \A q \in Requests : Sure(q)'
  <2>1. Calm /\ ~overlapped'
      BY <1>1, <1>10 DEF Calm
  <2>2. \A k \in {"datasets", "snapshots"} : cache'[k] \in {Unknown, Fetched(k)}
      BY <1>4, <2>1 DEF Inv, CalmInv, Fresh, Listing
  <2>3. Fresh'
      BY <1>1, <2>2, FetchedSame DEF Fresh
  <2> QED
      BY <1>6, <1>9, <2>1, <2>3
<1> QED
    BY <1>6, <1>7, <1>8, <1>9, <1>10 DEF Inv, CalmInv

-----------------------------------------------------------------------------
(* Giving ids.                                                             *)

\* What is stored, and where.
LEMMA Naming ==
    ASSUME TreeType, NEW by, NEW listing, NameStored(by, listing)
    PROVE  /\ tree' = [p \in DOMAIN tree |-> tree'[p]]
           /\ \A p \in DOMAIN tree :
                 /\ IsObject(tree'[p]) /\ tree'[p].born = tree[p].born
                 /\ tree'[p].clones = tree[p].clones
                 /\ tree'[p].id = (IF p \in Stored(listing) THEN Id(by, p) ELSE tree[p].id)
                 /\ p \notin Stored(listing) => tree'[p] = tree[p]
           /\ Stored(listing) = {} => tree' = tree
<1>1. tree' = [p \in DOMAIN tree |-> IF p \in Stored(listing)
                                    THEN [tree[p] EXCEPT !.id = Id(by, p)] ELSE tree[p]]
    BY DEF NameStored
<1>2. ASSUME NEW p \in DOMAIN tree
      PROVE  /\ IsObject([tree[p] EXCEPT !.id = Id(by, p)])
             /\ [tree[p] EXCEPT !.id = Id(by, p)].id = Id(by, p)
             /\ [tree[p] EXCEPT !.id = Id(by, p)].born = tree[p].born
             /\ [tree[p] EXCEPT !.id = Id(by, p)].clones = tree[p].clones
  <2>1. IsObject(tree[p])
      BY DEF TreeType
  <2> QED
      BY <2>1 DEF IsObject
<1>3. \A p \in DOMAIN tree : IsObject(tree[p])
    BY DEF TreeType
<1>4. tree = [p \in DOMAIN tree |-> tree[p]]
    BY DEF TreeType
<1> QED
    BY <1>1, <1>2, <1>3, <1>4

LEMMA NamingTyped ==
    ASSUME Typed, NEW r \in Requests, Moves(r), NEW by, NEW listing, NameStored(by, listing),
           \A p \in Stored(listing) : Given(req', Id(by, p)), clock' = clock
    PROVE  TreeType'
<1>1. \A i : Given(req, i) => Given(req', i)
    BY GivenStays
<1>2. /\ tree' = [p \in DOMAIN tree |-> tree'[p]]
      /\ \A p \in DOMAIN tree :
            /\ IsObject(tree'[p]) /\ tree'[p].born = tree[p].born
            /\ tree'[p].clones = tree[p].clones
            /\ tree'[p].id = (IF p \in Stored(listing) THEN Id(by, p) ELSE tree[p].id)
    BY Naming DEF Typed
<1>3. ASSUME NEW p \in DOMAIN tree
      PROVE  IsId(req', tree'[p].id, p)
  <2>1. CASE p \in Stored(listing)
      BY <1>2, <2>1, IdProperties DEF IsId
  <2>2. CASE p \notin Stored(listing)
      BY <1>1, <1>2, <2>2 DEF IsId, Typed, TreeType
  <2> QED
      BY <2>1, <2>2
<1>4. DOMAIN tree' = DOMAIN tree
    BY <1>2
<1> QED
    BY <1>2, <1>3, <1>4 DEF Typed, TreeType

\* What has been told stays so, when only what has no id is named.
LEMMA NamingTold ==
    ASSUME Typed, Told, NEW by, NEW listing, NameStored(by, listing),
           \A p \in Stored(listing) : tree[p].id = NoId /\ ~Given(req, Id(by, p))
    PROVE  \A k \in known : k.path \in DOMAIN tree' =>
              (tree'[k.path].id = k.id <=> tree'[k.path].born = k.born)
<1> SUFFICES ASSUME NEW k \in known, k.path \in DOMAIN tree'
             PROVE  tree'[k.path].id = k.id <=> tree'[k.path].born = k.born
    OBVIOUS
<1>1. /\ k.path \in DOMAIN tree /\ tree'[k.path].born = tree[k.path].born
      /\ tree'[k.path].id = (IF k.path \in Stored(listing) THEN Id(by, k.path) ELSE tree[k.path].id)
    BY Naming DEF Typed
<1>2. tree[k.path].id = k.id <=> tree[k.path].born = k.born
    BY <1>1 DEF Told
<1>3. k.id # NoId /\ Given(req, k.id)
    BY NoIdProperties DEF Typed, KnownType
<1> QED
    BY <1>1, <1>2, <1>3

\* The objects of the other kind are as they were.
LEMMA NamingOther ==
    ASSUME Typed, NEW by, NEW listing, NEW kind \in {"datasets", "snapshots"},
           IsListing(req, clock, listing, kind = "snapshots"), NameStored(by, listing)
    PROVE  \A k \in {"datasets", "snapshots"} \ {kind} : Fetched(k)' = Fetched(k)
<1>1. /\ tree' = [p \in DOMAIN tree |-> tree'[p]]
      /\ \A p \in DOMAIN tree : p \notin Stored(listing) => tree'[p] = tree[p]
    BY Naming DEF Typed
<1>2. \A p \in Stored(listing) : IsSnapshot(p) <=> kind = "snapshots"
    BY DEF Stored, Unnamed, IsListing
<1> SUFFICES ASSUME NEW k \in {"datasets", "snapshots"} \ {kind}
             PROVE  Fetched(k)' = Fetched(k)
    OBVIOUS
<1> DEFINE listed == {q \in DOMAIN tree : IsSnapshot(q) <=> k = "snapshots"}
<1>3. DOMAIN tree' = DOMAIN tree
    BY <1>1
<1>4. \A p \in listed : p \notin Stored(listing) /\ tree'[p] = tree[p]
    BY <1>1, <1>2
<1>5. Fetched(k) = [p \in listed |-> [id |-> tree[p].id, born |-> tree[p].born]]
    BY DEF Fetched
<1>6. Fetched(k)' = [p \in listed |-> [id |-> tree'[p].id, born |-> tree'[p].born]]
    BY <1>3 DEF Fetched
<1> HIDE DEF listed
<1>7. [p \in listed |-> [id |-> tree'[p].id, born |-> tree'[p].born]]
          = [p \in listed |-> [id |-> tree[p].id, born |-> tree[p].born]]
    BY <1>4
<1> QED
    BY <1>5, <1>6, <1>7

LEMMA NameInv ==
    ASSUME Inv, NEW r \in Requests, Name(r)
    PROVE  Inv'
<1> DEFINE kind == KindOf(req[r].op)
           listing == req[r].seen
           ids == Named(r, listing)
<1>1. /\ req[r].stage = "name" /\ NameStored(r, listing)
      /\ cache' = (IF Stored(listing) # {} THEN [cache EXCEPT ![kind] = Unknown] ELSE cache)
      /\ Decide(r, ids, listing)
      /\ pools' = pools /\ meta' = meta /\ overlapped' = overlapped
      /\ cuts' = cuts /\ clock' = clock
    BY DEF Name, At, Forget
<1>2. /\ kind \in {"datasets", "snapshots"}
      /\ kind = "snapshots" <=> req[r].op \in SnapshotOps
    BY KindOfProperties
<1>3. Placed(req[r]) /\ Holds(r)
    BY DEF Inv, RequestType
<1>4. /\ req[r].op \notin MakingOps
      /\ IsListing(req, clock, listing, req[r].op \in SnapshotOps)
    BY <1>1, <1>3 DEF Placed, Holds
<1>5. /\ DOMAIN ids = DOMAIN listing
      /\ \A p \in DOMAIN listing :
            ids[p] = (IF listing[p].id # NoId THEN listing[p].id
                      ELSE IF p \in DOMAIN tree THEN Id(r, p) ELSE Derived(p))
    BY DEF Named
<1>6. /\ Typed /\ RequestType /\ clock \in Nat /\ clock <= clock' /\ clock' \in Nat
      /\ overlapped \in BOOLEAN /\ cuts \in Nat
    BY <1>1 DEF Inv, Typed
<1> HIDE DEF ids, listing, kind
<1>7. \A p \in DOMAIN ids :
          /\ p \in Path /\ (IsSnapshot(p) <=> req[r].op \in SnapshotOps)
          /\ Of(ids[p], p) /\ (Given(req, ids[p]) \/ ids[p].by = r)
          /\ listing[p].born \in Nat /\ listing[p].born < clock
  <2> SUFFICES ASSUME NEW p \in DOMAIN ids
               PROVE  Of(ids[p], p) /\ (Given(req, ids[p]) \/ ids[p].by = r)
      BY <1>4, <1>5 DEF IsListing
  <2>1. CASE listing[p].id # NoId
      BY <1>4, <1>5, <2>1 DEF IsListing, IsId
  <2>2. CASE listing[p].id = NoId /\ p \in DOMAIN tree
      BY <1>5, <2>2, IdProperties
  <2>3. CASE listing[p].id = NoId /\ p \notin DOMAIN tree
    <3>1. Of(Id(0, p), p) /\ Id(0, p).by = 0
        BY IdProperties
    <3>2. Given(req, Id(0, p))
        BY <3>1, Nobodys
    <3> QED
        BY <1>5, <2>3, <3>1, <3>2 DEF Derived
  <2> QED
      BY <2>1, <2>2, <2>3
<1>8. /\ Moves(r) /\ RequestType' /\ KnownType' /\ Spares(r)'
      /\ \A p \in DOMAIN ids : Given(req', ids[p])
    BY <1>1, <1>4, <1>7, DecideHolds
<1>9. \A p \in Stored(listing) :
          /\ p \in DOMAIN tree /\ p \in DOMAIN ids /\ listing[p].id = NoId /\ ids[p] = Id(r, p)
          /\ ~Given(req, Id(r, p))
  <2> SUFFICES ASSUME NEW p \in Stored(listing)
               PROVE  /\ p \in DOMAIN tree /\ p \in DOMAIN listing /\ listing[p].id = NoId
                      /\ ~Given(req, Id(r, p))
      BY <1>5
  <2>1. p \in DOMAIN tree /\ p \in DOMAIN listing /\ listing[p].id = NoId
      BY DEF Stored, Unnamed
  <2>2. ToGive(r, req[r], Id(r, p))
      BY <1>1, IdProperties DEF ToGive
  <2> QED
      BY <2>1, <2>2 DEF Given
<1>10. TreeType'
    BY <1>1, <1>6, <1>8, <1>9, NamingTyped
<1>11. /\ DOMAIN tree' = DOMAIN tree
       /\ \A p \in DOMAIN tree :
             /\ tree'[p].born = tree[p].born
             /\ tree'[p].id = (IF p \in Stored(listing) THEN Id(r, p) ELSE tree[p].id)
       /\ Stored(listing) = {} => tree' = tree
    BY <1>1, <1>6, Naming DEF Typed
<1>12. \A q \in Requests : Spares(q)'
    BY <1>8, <1>9, <1>11, OthersSpare DEF Inv
<1>13. /\ cache' = [k \in Kinds |-> cache'[k]]
       /\ \A k \in {"datasets", "snapshots"} :
             cache'[k] = (IF k = kind /\ Stored(listing) # {} THEN Unknown ELSE cache[k])
  <2>1. cache = [k \in Kinds |-> cache[k]]
      BY <1>6 DEF Typed, CacheType
  <2>2. cache' = [k \in Kinds |-> IF k = kind /\ Stored(listing) # {} THEN Unknown ELSE cache[k]]
      BY <1>1, <1>2, <2>1
  <2> QED
      BY <2>2 DEF Kinds
<1>14. Typed'
    BY <1>1, <1>6, <1>8, <1>10, <1>13, Kept
<1>15. /\ ~overlapped' => \A q \in Requests : q # r => Sure(q)'
       /\ Solo'
    BY <1>1, <1>8, OthersSure DEF Inv, Working, Moves
<1>16. ASSUME Calm'
       PROVE  Fresh' /\ Told' /\ \A q \in Requests : Sure(q)'
  <2>1. Calm /\ ~overlapped' /\ Fresh /\ Told
      BY <1>1, <1>16 DEF Calm, Inv, CalmInv
  <2>2. listing = Fetched(kind)
      BY <1>1, <2>1 DEF Inv, CalmInv, Sure, listing, kind
  <2>3. /\ DOMAIN listing \subseteq DOMAIN tree
        /\ \A p \in DOMAIN listing : listing[p].id = tree[p].id /\ listing[p].born = tree[p].born
      BY <1>2, <1>6, <2>2, FetchedProperties DEF Typed
  <2>4. Stored(listing) = {p \in DOMAIN listing : tree[p].id = NoId}
      BY <2>3 DEF Stored, Unnamed
  <2>5. \A p \in DOMAIN ids :
            p \in DOMAIN tree' /\ tree'[p].id = ids[p] /\ tree'[p].born = listing[p].born
      BY <1>5, <1>11, <2>3, <2>4
  <2>6. \A k \in known : k.path \in DOMAIN tree' =>
            (tree'[k.path].id = k.id <=> tree'[k.path].born = k.born)
      BY <1>1, <1>6, <1>9, <2>1, <2>4, NamingTold
  <2>7. Told' /\ Sure(r)'
      BY <1>1, <2>5, <2>6, DecideSure
  <2>8. Fresh'
    <3>1. CASE Stored(listing) = {}
        BY <1>11, <1>13, <2>1, <3>1, FetchedSame DEF Fresh
    <3>2. CASE Stored(listing) # {}
      <4>1. IsListing(req, clock, listing, kind = "snapshots")
          BY <1>2, <1>4 DEF IsListing
      <4>2. \A k \in {"datasets", "snapshots"} \ {kind} : Fetched(k)' = Fetched(k)
          BY <1>1, <1>2, <1>6, <4>1, NamingOther
      <4> QED
          BY <1>13, <2>1, <3>2, <4>2 DEF Fresh
    <3> QED
        BY <3>1, <3>2
  <2> QED
      BY <1>15, <2>1, <2>7, <2>8
<1> QED
    BY <1>8, <1>12, <1>14, <1>15, <1>16 DEF Inv, CalmInv

LEMMA ChildrenInv ==
    ASSUME Inv, NEW r \in Requests, Children(r)
    PROVE  Inv'
<1> DEFINE by == MaxRequests + r
           listing == Listing("datasets")
           ids == Named(by, listing)
           children == {p \in DOMAIN listing : IsStrictPrefix(req[r].path, p)}
<1>1. /\ req[r].stage = "children" /\ NameStored(by, listing)
      /\ cache' = [cache EXCEPT !["datasets"] = IF Stored(listing) = {} THEN listing ELSE Unknown]
      /\ \/ Goto(r, "over")
         \/ req' = [req EXCEPT ![r].stage = "act",
                               ![r].doomed = @ \cup {ids[p] : p \in children}]
      /\ pools' = pools /\ meta' = meta /\ known' = known /\ overlapped' = overlapped
      /\ cuts' = cuts /\ clock' = clock
    BY DEF Children, At
<1>2. /\ Typed /\ RequestType /\ clock \in Nat /\ clock <= clock' /\ clock' \in Nat
      /\ overlapped \in BOOLEAN /\ cuts \in Nat
    BY <1>1 DEF Inv, Typed
<1>3. /\ Placed(req[r]) /\ Holds(r) /\ IsRequest(req[r]) /\ req[r].op = "destroy_dataset"
      /\ req = [q \in Requests |-> req[q]]
    BY <1>1 DEF Inv, RequestType, Placed
<1>4. IsListing(req, clock, listing, FALSE)
    BY <1>2, ListingProperties
<1>5. /\ DOMAIN ids = DOMAIN listing
      /\ \A p \in DOMAIN listing :
            ids[p] = (IF listing[p].id # NoId THEN listing[p].id
                      ELSE IF p \in DOMAIN tree THEN Id(by, p) ELSE Derived(p))
    BY DEF Named
<1> HIDE DEF ids, listing
<1>6. /\ req' = [q \in Requests |-> req'[q]]
      /\ \A q \in Requests : q # r => req'[q] = req[q]
      /\ IsRequest(req'[r])
      /\ \/ req'[r] = Over
         \/ /\ req'[r].op = req[r].op /\ req'[r].stage = "act" /\ req'[r].id = req[r].id
            /\ req'[r].to = req[r].to /\ req'[r].flag = req[r].flag /\ req'[r].path = req[r].path
            /\ req'[r].doomed = req[r].doomed \cup {ids[p] : p \in children}
  <2>1. CASE Goto(r, "over")
      BY <1>2, <2>1, Going DEF Over
  <2>2. CASE req' = [req EXCEPT ![r].stage = "act",
                                ![r].doomed = @ \cup {ids[p] : p \in children}]
    <3> DEFINE more == {ids[p] : p \in children}
               q1 == [req[r] EXCEPT !.stage = "act"]
               q2 == [q1 EXCEPT !.doomed = q1.doomed \cup more]
    <3> HIDE DEF more
    <3>1. req' = [req EXCEPT ![r].stage = "act", ![r].doomed = @ \cup more]
        BY <2>2 DEF more
    <3>2. req' = [q \in Requests |-> IF q = r THEN q2 ELSE req[q]]
        BY <1>3, <3>1
    <3> HIDE DEF q2
    <3>3. /\ req' = [q \in Requests |-> req'[q]] /\ req'[r] = q2
          /\ \A q \in Requests : q # r => req'[q] = req[q]
        BY <3>2
    <3> HIDE DEF q1
    <3>4. /\ IsRequest(q1) /\ q1.op = req[r].op /\ q1.stage = "act" /\ q1.id = req[r].id
          /\ q1.to = req[r].to /\ q1.flag = req[r].flag /\ q1.path = req[r].path
          /\ q1.doomed = req[r].doomed
        BY <1>3, OneField DEF q1
    <3>5. /\ IsRequest(q2) /\ q2.op = req[r].op /\ q2.stage = "act" /\ q2.id = req[r].id
          /\ q2.to = req[r].to /\ q2.flag = req[r].flag /\ q2.path = req[r].path
          /\ q2.doomed = req[r].doomed \cup more
        BY <3>4, OneField DEF q2
    <3> QED
        BY <3>3, <3>5 DEF more
  <2> QED
      BY <1>1, <2>1, <2>2
<1> HIDE DEF children
<1>7. r # by /\ by # r
    BY StorageAssumption DEF Requests
<1>8. /\ Moves(r)
      /\ \A i : i.by = by => ~ToGive(r, req'[r], i)
  <2>1. CASE req'[r] = Over
      BY <1>6, <2>1, OverHolds DEF Moves, Over
  <2>2. CASE req'[r].stage = "act" /\ req'[r].op = req[r].op
      BY <1>3, <1>6, <1>7, <2>2 DEF Moves, ToGive, Makes
  <2> QED
      BY <1>6, <2>1, <2>2
<1>9. \A i : Given(req, i) => Given(req', i)
    BY <1>8, GivenStays
<1>10. \A p \in DOMAIN ids : p \in Path /\ Of(ids[p], p) /\ Given(req', ids[p])
  <2> SUFFICES ASSUME NEW p \in DOMAIN ids
               PROVE  p \in Path /\ Of(ids[p], p) /\ Given(req', ids[p])
      OBVIOUS
  <2>0. p \in Path /\ IsId(req, listing[p].id, p)
      BY <1>4, <1>5 DEF IsListing
  <2>1. CASE listing[p].id # NoId
      BY <1>5, <1>9, <2>0, <2>1 DEF IsId
  <2>2. CASE listing[p].id = NoId /\ p \in DOMAIN tree
    <3>1. Of(Id(by, p), p) /\ Id(by, p).by = by
        BY IdProperties
    <3>2. Given(req', Id(by, p))
        BY <1>8, <3>1, NotOthers
    <3> QED
        BY <1>5, <2>0, <2>2, <3>1, <3>2
  <2>3. CASE listing[p].id = NoId /\ p \notin DOMAIN tree
    <3>1. Of(Id(0, p), p) /\ Id(0, p).by = 0
        BY IdProperties
    <3>2. Given(req', Id(0, p))
        BY <3>1, Nobodys
    <3> QED
        BY <1>5, <2>0, <2>3, <3>1, <3>2 DEF Derived
  <2> QED
      BY <2>1, <2>2, <2>3
<1>11. /\ Placed(req'[r]) /\ Holds(r)' /\ Spares(r)'
       /\ (req'[r].stage \in {"act", "children"} /\ req'[r].op \in Takes =>
               req'[r].path \in DOMAIN tree' /\ tree'[req'[r].path].id = req'[r].id) => Sure(r)'
  <2>1. CASE req'[r] = Over
      BY <2>1, OverHolds DEF Over
  <2>2. CASE /\ req'[r].op = req[r].op /\ req'[r].stage = "act" /\ req'[r].id = req[r].id
             /\ req'[r].to = req[r].to /\ req'[r].flag = req[r].flag /\ req'[r].path = req[r].path
             /\ req'[r].doomed = req[r].doomed \cup {ids[p] : p \in children}
    <3>1. Placed(req'[r])
        BY <1>3, <1>6, <2>2 DEF Placed, Stages, Lists
    <3>2. ASSUME NEW i \in req'[r].doomed
          PROVE  IsDoomed(req', req'[r], i)
      <4>1. CASE i \in req[r].doomed
          BY <1>1, <1>3, <1>9, <2>2, <4>1 DEF Holds, IsDoomed, Destroys, Takes
      <4>2. CASE \E p \in children : i = ids[p]
        <5>1. PICK p \in children : i = ids[p]
            BY <4>2
        <5>2. p \in DOMAIN ids /\ IsStrictPrefix(req[r].path, p)
            BY <1>5 DEF children
        <5>3. i.path = p /\ p \in Path /\ Given(req', i)
            BY <1>10, <5>1, <5>2, NoIdProperties
        <5> QED
            BY <1>3, <2>2, <5>2, <5>3 DEF IsDoomed
      <4> QED
          BY <2>2, <4>1, <4>2
    <3>3. Holds(r)'
        BY <1>1, <1>3, <2>2, <3>2 DEF Holds, MayBeTaken, Takes, Destroys, MakingOps
    <3> QED
        BY <2>2, <3>1, <3>3 DEF Spares, At, Sure
  <2> QED
      BY <1>6, <2>1, <2>2
<1>12. RequestType'
    BY <1>1, <1>2, <1>8, <1>11, OthersHold
<1>13. \A p \in Stored(listing) :
          /\ p \in DOMAIN tree /\ listing[p].id = NoId
          /\ Given(req', Id(by, p)) /\ ~Given(req, Id(by, p))
  <2> SUFFICES ASSUME NEW p \in Stored(listing)
               PROVE  /\ p \in DOMAIN tree /\ listing[p].id = NoId
                      /\ Given(req', Id(by, p)) /\ ~Given(req, Id(by, p))
      OBVIOUS
  <2>1. p \in DOMAIN tree /\ p \in DOMAIN listing /\ listing[p].id = NoId
      BY DEF Stored, Unnamed
  <2>2. ToGive(r, req[r], Id(by, p))
      BY <1>1, IdProperties DEF ToGive
  <2>3. Given(req', Id(by, p))
      BY <1>5, <1>10, <2>1
  <2> QED
      BY <2>1, <2>2, <2>3 DEF Given
<1> HIDE DEF by
<1>14. TreeType'
    BY <1>1, <1>2, <1>8, <1>13, NamingTyped
<1>15. /\ DOMAIN tree' = DOMAIN tree
       /\ \A p \in DOMAIN tree :
             /\ tree'[p].born = tree[p].born
             /\ tree'[p].id = (IF p \in Stored(listing) THEN Id(by, p) ELSE tree[p].id)
       /\ Stored(listing) = {} => tree' = tree
    BY <1>1, <1>2, Naming DEF Typed
<1>16. \A q \in Requests : Spares(q)'
    BY <1>8, <1>11, <1>13, <1>15, OthersSpare DEF Inv
<1>17. /\ cache' = [k \in Kinds |-> cache'[k]]
       /\ cache'["datasets"] = (IF Stored(listing) = {} THEN listing ELSE Unknown)
       /\ cache'["snapshots"] = cache["snapshots"]
  <2>1. cache = [k \in Kinds |-> cache[k]]
      BY <1>2 DEF Typed, CacheType
  <2>2. cache' = [k \in Kinds |-> IF k = "datasets"
                                 THEN (IF Stored(listing) = {} THEN listing ELSE Unknown)
                                 ELSE cache[k]]
      BY <1>1, <2>1
  <2> QED
      BY <2>2 DEF Kinds
<1>18. Typed'
  <2>1. \A k \in {"datasets", "snapshots"} : cache'[k] \in {Unknown, cache[k], Listing(k)}
      BY <1>17 DEF listing
  <2>2. KnownType' /\ PoolsType' /\ CacheType'
      BY <1>1, <1>2, <1>8, <1>17, <2>1, Kept
  <2> QED
      BY <1>1, <1>2, <1>8, <1>14, <2>2, Kept
<1>19. /\ ~overlapped' => \A q \in Requests : q # r => Sure(q)'
       /\ Solo'
    BY <1>1, <1>8, OthersSure DEF Inv, Working, Moves
<1>20. ASSUME Calm'
       PROVE  Fresh' /\ Told' /\ \A q \in Requests : Sure(q)'
  <2>1. Calm /\ ~overlapped' /\ Fresh /\ Told
      BY <1>1, <1>20 DEF Calm, Inv, CalmInv
  <2>2. listing = Fetched("datasets")
      BY <2>1 DEF Fresh, Listing, listing
  <2>3. /\ DOMAIN listing \subseteq DOMAIN tree
        /\ \A p \in DOMAIN listing : listing[p].id = tree[p].id
      BY <1>2, <2>2, FetchedProperties DEF Typed
  <2>4. Stored(listing) = {p \in DOMAIN listing : tree[p].id = NoId}
      BY <2>3 DEF Stored, Unnamed
  <2>5. \A k \in known : k.path \in DOMAIN tree' =>
            (tree'[k.path].id = k.id <=> tree'[k.path].born = k.born)
      BY <1>1, <1>2, <1>13, <2>1, <2>4, NamingTold
  <2>6. Told'
      BY <1>1, <2>5 DEF Told
  <2>7. req'[r].stage \in {"act", "children"} /\ req'[r].op \in Takes =>
            req'[r].path \in DOMAIN tree' /\ tree'[req'[r].path].id = req'[r].id
    <3>1. CASE req'[r] = Over
        BY <3>1, OverHolds DEF Over
    <3>2. CASE req'[r].id = req[r].id /\ req'[r].path = req[r].path
      <4>1. req[r].path \in DOMAIN tree /\ tree[req[r].path].id = req[r].id
          BY <1>1, <1>3, <2>1 DEF Inv, CalmInv, Sure, Takes
      <4>2. req[r].id # NoId
          BY <1>1, <1>3, NoIdProperties DEF Holds, Takes
      <4> QED
          BY <1>15, <2>4, <3>2, <4>1, <4>2
    <3> QED
        BY <1>6, <3>1, <3>2
  <2>8. Fresh'
    <3>1. CASE Stored(listing) = {}
      <4>1. cache'["datasets"] = Fetched("datasets") /\ cache'["snapshots"] = cache["snapshots"]
          BY <1>17, <2>2, <3>1
      <4> QED
          BY <1>15, <2>1, <3>1, <4>1, FetchedSame DEF Fresh
    <3>2. CASE Stored(listing) # {}
      <4>1. IsListing(req, clock, listing, "datasets" = "snapshots")
          BY <1>4 DEF IsListing
      <4>2. \A k \in {"datasets", "snapshots"} \ {"datasets"} : Fetched(k)' = Fetched(k)
          BY <1>1, <1>2, <4>1, NamingOther
      <4>3. Fetched("snapshots")' = Fetched("snapshots")
          BY <4>2
      <4> QED
          BY <1>17, <2>1, <3>2, <4>3 DEF Fresh
    <3> QED
        BY <3>1, <3>2
  <2> QED
      BY <1>11, <1>19, <2>1, <2>6, <2>7, <2>8
<1> QED
    BY <1>12, <1>16, <1>18, <1>19, <1>20 DEF Inv, CalmInv

-----------------------------------------------------------------------------
(* The other steps.                                                        *)

\* The objects are left as they are; a listing is at most forgotten.
LEMMA QuietInv ==
    ASSUME Inv, NEW r \in Requests, Moves(r), Placed(req'[r]), Holds(r)', Spares(r)',
           req'[r].stage \in Working => req[r].stage \in Working,
           tree' = tree, pools' = pools, known \subseteq known', KnownType',
           cache' = [k \in Kinds |-> cache'[k]],
           \A k \in {"datasets", "snapshots"} : cache'[k] \in {Unknown, cache[k]},
           overlapped' = overlapped, clock' = clock, cuts' \in Nat,
           Calm' => Calm, Calm => Told' /\ Sure(r)'
    PROVE  Inv'
<1>1. /\ Typed /\ RequestType /\ clock \in Nat /\ clock <= clock' /\ clock' \in Nat
      /\ overlapped \in BOOLEAN
    BY DEF Inv, Typed
<1>2. RequestType'
    BY <1>1, OthersHold
<1>3. Typed'
    BY <1>1, Kept
<1>4. \A q \in Requests : Spares(q)'
  <2>1. \A p \in DOMAIN tree' : p \in DOMAIN tree /\ tree'[p].id = tree[p].id
      OBVIOUS
  <2> QED
      BY <1>1, <2>1, OthersSpare DEF Inv
<1>5. Solo'
    BY DEF Solo, Busy, Moves, Inv
<1>6. ASSUME Calm'
      PROVE  Fresh' /\ Told' /\ \A q \in Requests : Sure(q)'
  <2>1. Fresh /\ Told' /\ Sure(r)' /\ \A q \in Requests : Sure(q)
      BY <1>6 DEF Inv, CalmInv
  <2>2. Fresh'
      BY <2>1, FetchedSame DEF Fresh
  <2>3. ASSUME NEW q \in Requests, q # r
        PROVE  Sure(q)'
    <3>1. req'[q] = req[q] /\ Sure(q)
        BY <2>1, <2>3 DEF Moves
    <3>2. KindOf(req[q].op) \in {"datasets", "snapshots"}
        BY KindOfProperties
    <3>3. req'[q].stage = "name" => req'[q].seen = Fetched(KindOf(req[q].op))'
      <4>1. Fetched(KindOf(req[q].op))' = Fetched(KindOf(req[q].op))
          BY <3>1, <3>2 DEF Fetched
      <4> QED
          BY <3>1, <4>1 DEF Sure
    <3>4. KindOf(req'[q].op) = KindOf(req[q].op)
        BY <3>1
    <3> QED
        BY <3>1, <3>3, <3>4 DEF Sure
  <2> QED
      BY <2>1, <2>2, <2>3
<1> QED
    BY <1>2, <1>3, <1>4, <1>5, <1>6 DEF Inv, CalmInv

\* A request is over.
LEMMA OverInv ==
    ASSUME Inv, NEW r \in Requests, Goto(r, "over"), tree' = tree, pools' = pools,
           known \subseteq known', KnownType' \/ known' = known,
           cache' = [k \in Kinds |-> cache'[k]],
           \A k \in {"datasets", "snapshots"} : cache'[k] \in {Unknown, cache[k]},
           overlapped' = overlapped, clock' = clock, cuts' \in {cuts, cuts + 1},
           Calm => Told' \/ known' = known
    PROVE  Inv'
<1>1. /\ req' = [q \in Requests |-> req'[q]] /\ req'[r] = Over
      /\ \A q \in Requests : q # r => req'[q] = req[q]
    BY Going DEF Over, Inv
<1>2. /\ Placed(req'[r]) /\ Holds(r)' /\ Spares(r)' /\ Sure(r)'
      /\ req'[r].stage = "over" /\ \A i : ~ToGive(r, req'[r], i)
    BY <1>1, OverHolds DEF Over
<1>3. Moves(r)
    BY <1>1, <1>2 DEF Moves
<1>4. /\ clock \in Nat /\ clock' \in Nat /\ clock <= clock' /\ cuts' \in Nat
      /\ Calm' => Calm
    BY DEF Inv, Typed, Calm
<1>5. KnownType'
    BY <1>3, <1>4, Kept DEF Inv
<1>6. Calm => Told'
    BY DEF Inv, CalmInv, Told
<1>7. req'[r].stage \notin Working
    BY <1>2 DEF Working
<1> QED
    BY <1>1, <1>2, <1>3, <1>4, <1>5, <1>6, <1>7, QuietInv

LEMMA CacheShape ==
    ASSUME Typed
    PROVE  /\ cache = [k \in Kinds |-> cache[k]]
           /\ \A x, c : c = [cache EXCEPT !["pools"] = x] =>
                 /\ c = [k \in Kinds |-> c[k]]
                 /\ \A k \in {"datasets", "snapshots"} : c[k] = cache[k]
<1>1. cache = [k \in Kinds |-> cache[k]]
    BY DEF Typed, CacheType
<1> SUFFICES ASSUME NEW x, NEW c, c = [cache EXCEPT !["pools"] = x]
             PROVE  /\ c = [k \in Kinds |-> c[k]]
                    /\ \A k \in {"datasets", "snapshots"} : c[k] = cache[k]
    BY <1>1
<1>2. c = [k \in Kinds |-> IF k = "pools" THEN x ELSE cache[k]]
    BY <1>1
<1> QED
    BY <1>2 DEF Kinds

LEMMA FailInv ==
    ASSUME Inv, NEW r \in Requests, Fail(r)
    PROVE  Inv'
BY OverInv, CacheShape DEF Fail, Inv

LEMMA CutInv ==
    ASSUME Inv, Cut
    PROVE  Inv'
<1>1. PICK r \in Requests : Goto(r, "over")
    BY DEF Cut, Busy
<1> QED
    BY <1>1, OverInv, CacheShape DEF Cut, Inv

LEMMA PollInv ==
    ASSUME Inv, NEW r \in Requests, Poll(r)
    PROVE  Inv'
<1>1. /\ cache' = [k \in Kinds |-> cache'[k]]
      /\ \A k \in {"datasets", "snapshots"} : cache'[k] = cache[k]
    BY ZenonT(40), CacheShape DEF Poll, Inv
<1> QED
    BY <1>1, OverInv DEF Poll

LEMMA NoteInv ==
    ASSUME Inv, NEW r \in Requests, Note(r)
    PROVE  Inv'
<1> DEFINE destroys == req[r].op \in {"destroy_pool", "destroy_dataset", "destroy_snapshot"}
           p == req[r].path
           told == {[id |-> req[r].id, path |-> p, born |-> tree[p].born] : x \in {p} \cap DOMAIN tree}
<1>1. /\ req[r].stage = "note" /\ Goto(r, "over")
      /\ \/ known' = known
         \/ ~destroys /\ req[r].op # "update_dataset" /\ known' = known \cup told
      /\ tree' = tree /\ pools' = pools /\ cache' = cache /\ overlapped' = overlapped
      /\ cuts' = cuts /\ clock' = clock
    BY DEF Note, At
<1>2. CASE known' = known
    BY <1>1, <1>2, OverInv, CacheShape DEF Inv
<1>3. CASE ~destroys /\ req[r].op # "update_dataset" /\ known' = known \cup told
  <2>1. req[r].op \in Makes
      BY <1>1, <1>3 DEF Inv, RequestType, Placed, Destroys, Takes
  <2>2. p \in Path /\ req[r].id = Id(r, p)
      BY <1>1, <2>1 DEF Inv, RequestType, Holds
  <2>3. /\ req' = [q \in Requests |-> req'[q]] /\ req'[r] = Over
        /\ \A q \in Requests : q # r => req'[q] = req[q]
      BY <1>1, Going DEF Over, Inv
  <2>4. \A i : ~ToGive(r, req'[r], i)
      BY <2>3, OverHolds DEF Over
  <2>5. Moves(r)
      BY <2>3, <2>4 DEF Moves
  <2>6. /\ Given(req', Id(r, p)) /\ Of(Id(r, p), p)
        /\ \A i : Given(req, i) => Given(req', i)
      BY <2>4, <2>5, NotOthers, IdProperties, GivenStays
  <2>7. KnownType'
    <3>1. ASSUME NEW k \in told
          PROVE  /\ k = [id |-> k.id, path |-> k.path, born |-> k.born]
                 /\ k.path \in Path /\ Of(k.id, k.path) /\ Given(req', k.id)
                 /\ k.born \in Nat /\ k.born < clock'
      <4>1. p \in DOMAIN tree /\ k = [id |-> req[r].id, path |-> p, born |-> tree[p].born]
          OBVIOUS
      <4>2. tree[p].born \in Nat /\ tree[p].born < clock
          BY <4>1 DEF Inv, Typed, TreeType
      <4> HIDE DEF p, told
      <4> QED
          BY <1>1, <2>2, <2>6, <4>1, <4>2
    <3>2. ASSUME NEW k \in known
          PROVE  /\ k = [id |-> k.id, path |-> k.path, born |-> k.born]
                 /\ k.path \in Path /\ Of(k.id, k.path) /\ Given(req', k.id)
                 /\ k.born \in Nat /\ k.born < clock'
        BY <1>1, <2>6 DEF Inv, Typed, KnownType
    <3> HIDE DEF told
    <3> QED
        BY <1>3, <3>1, <3>2 DEF KnownType
  <2>8. ASSUME Calm
        PROVE  Told'
    <3>1. p \in DOMAIN tree => tree[p].id = req[r].id
        BY <1>1, <2>1, <2>8 DEF Inv, CalmInv, Sure
    <3>2. ASSUME NEW k \in told
          PROVE  k.path \in DOMAIN tree /\ tree[k.path].id = k.id /\ tree[k.path].born = k.born
        BY <3>1
    <3>3. Told
        BY <2>8 DEF Inv, CalmInv
    <3> HIDE DEF told, p
    <3> QED
        BY <1>1, <1>3, <3>2, <3>3 DEF Told
  <2> QED
      BY <1>1, <1>3, <2>7, <2>8, OverInv, CacheShape DEF Inv
<1> QED
    BY <1>1, <1>2, <1>3

LEMMA ReadPoolsInv ==
    ASSUME Inv, NEW r \in Requests, ReadPools(r)
    PROVE  Inv'
<1>1. /\ req[r].stage = "read" /\ req[r].op \in MakingOps
      /\ cache' = [cache EXCEPT !["pools"] = Listing("pools")]
      /\ \/ Goto(r, "over")
         \/ req' = [req EXCEPT ![r].stage = "act", ![r].path = req[r].to, ![r].id = Id(r, req[r].to)]
      /\ tree' = tree /\ pools' = pools /\ meta' = meta /\ known' = known
      /\ overlapped' = overlapped /\ cuts' = cuts /\ clock' = clock
    BY DEF ReadPools, At
<1>2. /\ cache' = [k \in Kinds |-> cache'[k]]
      /\ \A k \in {"datasets", "snapshots"} : cache'[k] = cache[k]
  <2> DEFINE x == Listing("pools")
  <2>1. cache' = [cache EXCEPT !["pools"] = x]
      BY <1>1
  <2> HIDE DEF x
  <2> QED
      BY <2>1, CacheShape DEF Inv
<1>3. CASE Goto(r, "over")
    BY <1>1, <1>2, <1>3, OverInv
<1>4. CASE req' = [req EXCEPT ![r].stage = "act", ![r].path = req[r].to, ![r].id = Id(r, req[r].to)]
  <2> DEFINE q1 == [req[r] EXCEPT !.stage = "act"]
             q2 == [q1 EXCEPT !.path = req[r].to]
             q3 == [q2 EXCEPT !.id = Id(r, req[r].to)]
  <2>1. Placed(req[r]) /\ Holds(r) /\ IsRequest(req[r]) /\ req = [q \in Requests |-> req[q]]
      BY DEF Inv, RequestType, Placed
  <2>2. req' = [q \in Requests |-> IF q = r THEN q3 ELSE req[q]]
      BY <1>4, <2>1
  <2> HIDE DEF q3
  <2>3. /\ req' = [q \in Requests |-> req'[q]] /\ req'[r] = q3
        /\ \A q \in Requests : q # r => req'[q] = req[q]
      BY <2>2
  <2> HIDE DEF q1, q2
  <2>4. /\ IsRequest(q1) /\ q1.op = req[r].op /\ q1.stage = "act" /\ q1.id = req[r].id
        /\ q1.to = req[r].to /\ q1.flag = req[r].flag
      BY <2>1, OneField DEF q1
  <2>5. /\ IsRequest(q2) /\ q2.op = req[r].op /\ q2.stage = "act" /\ q2.id = req[r].id
        /\ q2.to = req[r].to /\ q2.flag = req[r].flag /\ q2.path = req[r].to
      BY <2>4, OneField DEF q2
  <2>6. /\ IsRequest(q3) /\ q3.op = req[r].op /\ q3.stage = "act" /\ q3.id = Id(r, req[r].to)
        /\ q3.to = req[r].to /\ q3.flag = req[r].flag /\ q3.path = req[r].to
      BY <2>5, OneField DEF q3
  <2>7. r # MaxRequests + r
      BY StorageAssumption DEF Requests
  <2>8. Moves(r)
      BY <1>1, <2>3, <2>6, <2>7 DEF Moves, ToGive
  <2>9. Placed(req'[r])
      BY <1>1, <2>1, <2>3, <2>6 DEF Placed, Stages, MakingOps, Lists
  <2>10. Holds(r)' /\ Spares(r)' /\ Sure(r)'
      BY <1>1, <2>3, <2>6 DEF Holds, Spares, Sure, At, MakingOps, Takes, Destroys
  <2>11. KnownType'
    <3>1. Typed /\ clock \in Nat /\ clock' \in Nat /\ clock <= clock'
        BY <1>1 DEF Inv, Typed
    <3> QED
        BY <1>1, <2>8, <3>1, Kept
  <2>12. Calm => Told'
      BY <1>1 DEF Inv, CalmInv, Told
  <2>13. (Calm' => Calm) /\ cuts' \in Nat /\ req[r].stage \in Working
      BY <1>1 DEF Calm, Inv, Typed, Working
  <2> QED
      BY <1>1, <1>2, <2>8, <2>9, <2>10, <2>11, <2>12, <2>13, QuietInv
<1> QED
    BY <1>1, <1>3, <1>4

LEMMA MarkInv ==
    ASSUME Inv, NEW r \in Requests, Mark(r)
    PROVE  Inv'
<1> DEFINE p == Target(req[r])
<1>1. /\ req[r].stage = "mark"
      /\ \/ Goto(r, "over") /\ tree' = tree
         \/ /\ p \in DOMAIN tree /\ tree' = [tree EXCEPT ![p].id = Id(r, p)]
            /\ req' = [req EXCEPT ![r].stage = "note", ![r].path = p, ![r].id = Id(r, p)]
      /\ pools' = pools /\ cache' = cache /\ meta' = meta /\ known' = known
      /\ overlapped' = overlapped /\ cuts' = cuts /\ clock' = clock
    BY DEF Mark, At, Target, CanSetId, IdSet
<1>2. CASE Goto(r, "over") /\ tree' = tree
    BY <1>1, <1>2, OverInv, CacheShape DEF Inv
<1>3. CASE /\ p \in DOMAIN tree /\ tree' = [tree EXCEPT ![p].id = Id(r, p)]
           /\ req' = [req EXCEPT ![r].stage = "note", ![r].path = p, ![r].id = Id(r, p)]
  <2> DEFINE q1 == [req[r] EXCEPT !.stage = "note"]
             q2 == [q1 EXCEPT !.path = p]
             q3 == [q2 EXCEPT !.id = Id(r, p)]
  <2>1. Placed(req[r]) /\ Holds(r) /\ IsRequest(req[r]) /\ req = [q \in Requests |-> req[q]]
      BY DEF Inv, RequestType, Placed
  <2>2. req[r].op \in {"create_snapshot", "clone"}
      BY <1>1, <2>1 DEF Placed
  <2>3. /\ p \in Path /\ tree = [q \in DOMAIN tree |-> tree[q]] /\ IsObject(tree[p])
        /\ Typed /\ RequestType /\ clock \in Nat /\ clock' \in Nat /\ clock <= clock'
        /\ overlapped \in BOOLEAN /\ cuts \in Nat
      BY <1>1, <1>3 DEF Inv, Typed, TreeType
  <2>4. ToGive(r, req[r], Id(r, p))
      BY <1>1, <2>1, <2>2, IdProperties DEF ToGive, Target, Holds, Makes
  <2> HIDE DEF p
  <2>5. req' = [q \in Requests |-> IF q = r THEN q3 ELSE req[q]]
      BY <1>3, <2>1
  <2> HIDE DEF q3
  <2>6. /\ req' = [q \in Requests |-> req'[q]] /\ req'[r] = q3
        /\ \A q \in Requests : q # r => req'[q] = req[q]
      BY <2>5
  <2> HIDE DEF q1, q2
  <2>7. /\ IsRequest(q1) /\ q1.op = req[r].op /\ q1.stage = "note" /\ q1.id = req[r].id
        /\ q1.to = req[r].to /\ q1.flag = req[r].flag
      BY <2>1, OneField DEF q1
  <2>8. /\ IsRequest(q2) /\ q2.op = req[r].op /\ q2.stage = "note" /\ q2.id = req[r].id
        /\ q2.to = req[r].to /\ q2.flag = req[r].flag /\ q2.path = p
      BY <2>7, OneField DEF q2
  <2>9. /\ IsRequest(q3) /\ q3.op = req[r].op /\ q3.stage = "note" /\ q3.id = Id(r, p)
        /\ q3.to = req[r].to /\ q3.flag = req[r].flag /\ q3.path = p
      BY <2>8, OneField DEF q3
  <2>10. \A i : ~ToGive(r, req'[r], i)
      BY <2>6, <2>9 DEF ToGive
  <2>11. Moves(r)
      BY <2>6, <2>10 DEF Moves
  <2>12. Placed(req'[r])
      BY <2>1, <2>2, <2>6, <2>9 DEF Placed, Stages, Makes
  <2>13. Holds(r)' /\ Spares(r)'
      BY <2>2, <2>3, <2>6, <2>9 DEF Holds, Spares, At, Takes, Destroys
  <2>14. RequestType'
      BY <1>1, <2>3, <2>11, <2>12, <2>13, OthersHold
  <2> DEFINE named == [tree[p] EXCEPT !.id = Id(r, p)]
  <2>15. /\ IsObject(named) /\ named.id = Id(r, p) /\ named.born = tree[p].born
         /\ named.clones = tree[p].clones
      BY <2>3 DEF IsObject
  <2>16. tree' = [q \in DOMAIN tree |-> IF q = p THEN named ELSE tree[q]]
      BY <1>3, <2>3
  <2> HIDE DEF named
  <2>17. /\ tree' = [q \in DOMAIN tree' |-> tree'[q]] /\ DOMAIN tree' = DOMAIN tree
         /\ tree'[p] = named /\ \A q \in DOMAIN tree : q # p => tree'[q] = tree[q]
      BY <1>3, <2>16
  <2>18. /\ \A i : Given(req, i) => Given(req', i)
         /\ Given(req', Id(r, p)) /\ Of(Id(r, p), p) /\ ~Given(req, Id(r, p))
    <3>1. \A i : Given(req, i) => Given(req', i)
        BY <2>11, GivenStays
    <3>2. Of(Id(r, p), p) /\ Id(r, p).by = r
        BY IdProperties
    <3>3. Given(req', Id(r, p))
        BY <2>10, <3>2, NotOthers
    <3> QED
        BY <2>4, <3>1, <3>2, <3>3 DEF Given
  <2>19. TreeType'
    <3>1. ASSUME NEW q \in DOMAIN tree
          PROVE  /\ q \in Path /\ IsObject(tree'[q]) /\ IsId(req', tree'[q].id, q)
                 /\ tree'[q].born \in Nat /\ tree'[q].born < clock'
                 /\ tree'[q].clones \subseteq Places
      <4>1. /\ q \in Path /\ IsObject(tree[q]) /\ IsId(req, tree[q].id, q)
            /\ tree[q].born \in Nat /\ tree[q].born < clock /\ tree[q].clones \subseteq Places
          BY <2>3 DEF Typed, TreeType
      <4>2. CASE q = p
          BY <1>1, <2>15, <2>17, <2>18, <4>1, <4>2 DEF IsId
      <4>3. CASE q # p
          BY <1>1, <2>17, <2>18, <4>1, <4>3 DEF IsId
      <4> QED
          BY <4>2, <4>3
    <3> QED
        BY <2>17, <3>1 DEF TreeType
  <2>20. Typed'
    <3>1. KnownType' /\ PoolsType'
        BY <1>1, <2>3, <2>11, Kept
    <3>2. CacheType'
      <4>1. cache' = [k \in Kinds |-> cache'[k]]
          BY <1>1, <2>3, CacheShape
      <4> QED
          BY <1>1, <2>3, <2>11, <4>1, Kept
    <3> QED
        BY <1>1, <2>3, <2>11, <2>19, <3>1, <3>2, Kept
  <2>21. \A q \in Requests : Spares(q)'
    <3>1. \A q \in DOMAIN tree' : \/ q \in DOMAIN tree /\ tree'[q].id = tree[q].id
                                  \/ ~Given(req, tree'[q].id)
        BY <2>15, <2>17, <2>18
    <3> QED
        BY <2>3, <2>11, <2>13, <3>1, OthersSpare DEF Inv
  <2>22. /\ ~overlapped' => \A q \in Requests : q # r => Sure(q)'
         /\ Solo'
      BY <1>1, <2>6, OthersSure DEF Inv, Working
  <2>23. ASSUME Calm'
         PROVE  Fresh' /\ Told' /\ \A q \in Requests : Sure(q)'
    <3>1. Calm /\ ~overlapped' /\ Told /\ Sure(r)
        BY <1>1, <2>23 DEF Calm, Inv, CalmInv
    <3>2. cache["datasets"] = Unknown /\ cache["snapshots"] = Unknown /\ tree[p].id = NoId
        BY <1>1, <1>3, <3>1 DEF Sure, p
    <3>3. Fresh'
        BY <1>1, <3>2 DEF Fresh
    <3>4. Sure(r)'
        BY <2>6, <2>9, <2>15, <2>17 DEF Sure, Takes
    <3>5. Told'
      <4> SUFFICES ASSUME NEW k \in known, k.path \in DOMAIN tree'
                   PROVE  tree'[k.path].id = k.id <=> tree'[k.path].born = k.born
          BY <1>1 DEF Told
      <4>1. tree[k.path].id = k.id <=> tree[k.path].born = k.born
          BY <2>17, <3>1 DEF Told
      <4>2. k.id # NoId /\ Given(req, k.id)
          BY <2>3, NoIdProperties DEF Typed, KnownType
      <4>3. CASE k.path = p
          BY <2>15, <2>17, <2>18, <3>2, <4>1, <4>2, <4>3
      <4>4. CASE k.path # p
          BY <2>17, <4>1, <4>4
      <4> QED
          BY <4>3, <4>4
    <3> QED
        BY <2>22, <3>1, <3>3, <3>4, <3>5
  <2> QED
      BY <2>14, <2>20, <2>21, <2>22, <2>23 DEF Inv, CalmInv
<1> QED
    BY <1>1, <1>2, <1>3

\* What a client can ask for.
LEMMA Asking ==
    ASSUME RequestType, KnownType, NEW r \in Requests, NEW op \in Ops, NEW in \in Inputs(op)
    PROVE  /\ op \in Takes \cup {"update_dataset"} => \E k \in known : k.id = in.id
           /\ op \in {"clone", "create_dataset"} => in.to \in Places
           /\ op \in {"create_pool", "create_snapshot"} => in.to \in Path
           /\ op = "create_pool" => Len(in.to) = 1
           /\ in.flag \in BOOLEAN
<1>1. op \in Takes \cup {"update_dataset"} => \E k \in known : k.id = in.id
    BY DEF Inputs, Takes, PoolOps, SnapshotOps
<1>2. op \in {"clone", "create_dataset"} => in.to \in Places
    BY DEF Inputs
<1>3. op = "create_pool" => in.to \in Path /\ Len(in.to) = 1
  <2>1. ASSUME op = "create_pool"
        PROVE  in.to \in {<<p>> : p \in PoolNames}
      BY <2>1 DEF Inputs
  <2>2. \A p \in PoolNames : <<p>> \in Path /\ Len(<<p>>) = 1
      BY StorageAssumption DEF Path, Part
  <2> QED
      BY <2>1, <2>2
<1>4. op = "create_snapshot" => in.to \in Path
  <2>1. ASSUME op = "create_snapshot"
        PROVE  in.to \in {k.path : k \in {x \in known : ~IsSnapshot(x.path)}}
      BY <2>1 DEF Inputs
  <2> QED
      BY <2>1 DEF KnownType
<1>5. in.flag \in BOOLEAN
    BY DEF Inputs
<1> QED
    BY <1>1, <1>2, <1>3, <1>4, <1>5

LEMMA AskInv ==
    ASSUME Inv, NEW r \in Requests, Ask(r)
    PROVE  Inv'
<1>1. PICK op \in Asks[r] : \E in \in Inputs(op) :
          req' = [req EXCEPT ![r] = [NewRequest EXCEPT !.op = op, !.stage = "read",
                                         !.id = in.id, !.to = in.to, !.flag = in.flag]]
    BY DEF Ask
<1>2. PICK in \in Inputs(op) :
          req' = [req EXCEPT ![r] = [NewRequest EXCEPT !.op = op, !.stage = "read",
                                         !.id = in.id, !.to = in.to, !.flag = in.flag]]
    BY <1>1
<1>3. op \in Ops
    BY StorageAssumption DEF Requests
<1>4. /\ req[r].stage = "idle" /\ overlapped' = (overlapped \/ Busy # {})
      /\ tree' = tree /\ pools' = pools /\ cache' = cache /\ meta' = meta /\ known' = known
      /\ cuts' = cuts /\ clock' = clock
    BY DEF Ask, At
<1>5. /\ Typed /\ RequestType /\ clock \in Nat /\ clock <= clock' /\ clock' \in Nat
      /\ overlapped \in BOOLEAN /\ cuts \in Nat /\ KnownType
    BY <1>4 DEF Inv, Typed
<1>6. /\ op \in Takes \cup {"update_dataset"} => \E k \in known : k.id = in.id
      /\ op \in {"clone", "create_dataset"} => in.to \in Places
      /\ op \in {"create_pool", "create_snapshot"} => in.to \in Path
      /\ op = "create_pool" => Len(in.to) = 1
      /\ in.flag \in BOOLEAN
    BY <1>3, <1>5, Asking
<1> DEFINE new == [NewRequest EXCEPT !.op = op, !.stage = "read", !.id = in.id, !.to = in.to,
                                     !.flag = in.flag]
<1>7. /\ IsRequest(new) /\ new.op = op /\ new.stage = "read" /\ new.id = in.id
      /\ new.to = in.to /\ new.flag = in.flag
  <2> DEFINE q1 == [NewRequest EXCEPT !.op = op]
             q2 == [q1 EXCEPT !.stage = "read"]
             q3 == [q2 EXCEPT !.id = in.id]
             q4 == [q3 EXCEPT !.to = in.to]
             q5 == [q4 EXCEPT !.flag = in.flag]
  <2>1. new = q5
      OBVIOUS
  <2>2. IsRequest(NewRequest)
      BY DEF NewRequest, IsRequest
  <2> HIDE DEF q1, q2, q3, q4, q5, new
  <2>3. IsRequest(q1) /\ q1.op = op
      BY <2>2, OneField DEF q1
  <2>4. IsRequest(q2) /\ q2.op = op /\ q2.stage = "read"
      BY <2>3, OneField DEF q2
  <2>5. IsRequest(q3) /\ q3.op = op /\ q3.stage = "read" /\ q3.id = in.id
      BY <2>4, OneField DEF q3
  <2>6. IsRequest(q4) /\ q4.op = op /\ q4.stage = "read" /\ q4.id = in.id /\ q4.to = in.to
      BY <2>5, OneField DEF q4
  <2> QED
      BY <2>1, <2>6, OneField DEF q5
<1> HIDE DEF new
<1>8. /\ req' = [q \in Requests |-> req'[q]]
      /\ \A q \in Requests : q # r => req'[q] = req[q]
      /\ req'[r] = new
    BY <1>2, <1>5, OneRequest DEF new
<1>9. Moves(r)
    BY <1>4, <1>7, <1>8 DEF Moves, ToGive
<1>10. Placed(req'[r])
    BY <1>3, <1>6, <1>7, <1>8 DEF Placed, Stages
<1>11. Holds(r)' /\ Spares(r)'
    BY <1>4, <1>6, <1>7, <1>8 DEF Holds, Spares, At
<1>12. RequestType'
    BY <1>4, <1>5, <1>9, <1>10, <1>11, OthersHold
<1>13. Typed'
  <2>1. KnownType' /\ PoolsType' /\ TreeType'
      BY <1>4, <1>5, <1>9, Kept
  <2>2. CacheType'
    <3>1. cache' = [k \in Kinds |-> cache'[k]]
        BY <1>4, <1>5, CacheShape
    <3> QED
        BY <1>4, <1>5, <1>9, <3>1, Kept
  <2> QED
      BY <1>4, <1>5, <1>9, <2>1, <2>2, Kept
<1>14. \A q \in Requests : Spares(q)'
  <2>1. \A p \in DOMAIN tree' : p \in DOMAIN tree /\ tree'[p].id = tree[p].id
      BY <1>4
  <2> QED
      BY <1>5, <1>9, <1>11, <2>1, OthersSpare DEF Inv
<1>15. ASSUME ~overlapped'
       PROVE  \A q \in Requests : req'[q].stage \in Working => q = r
    BY <1>4, <1>8, <1>15 DEF Busy
<1>16. Solo'
    BY <1>15 DEF Solo, Busy
<1>17. ASSUME Calm'
       PROVE  Fresh' /\ Told' /\ \A q \in Requests : Sure(q)'
  <2>1. Calm /\ ~overlapped'
      BY <1>4, <1>17 DEF Calm
  <2>2. Fresh'
      BY <1>4, <2>1, FetchedSame DEF Inv, CalmInv, Fresh
  <2>3. Told'
      BY <1>4, <2>1 DEF Inv, CalmInv, Told
  <2>4. ASSUME NEW q \in Requests
        PROVE  Sure(q)'
    <3>1. req'[q].stage \notin {"name", "act", "children", "mark", "note"}
        BY <1>7, <1>8, <1>15, <2>1 DEF Working
    <3> QED
        BY <3>1 DEF Sure
  <2> QED
      BY <2>2, <2>3, <2>4
<1> QED
    BY <1>12, <1>13, <1>14, <1>16, <1>17 DEF Inv, CalmInv

\* No request does anything: what changes is a pool's scan, or that a listing is forgotten.
LEMMA StillInv ==
    ASSUME Inv, UNCHANGED <<tree, meta, known, req, overlapped, cuts, clock>>, PoolsType',
           cache' = [k \in Kinds |-> cache'[k]],
           \A k \in {"datasets", "snapshots"} : cache'[k] \in {Unknown, cache[k]}
    PROVE  Inv'
<1>1. CacheType'
    BY UnknownIsListing DEF Inv, Typed, CacheType
<1>2. Typed'
    BY <1>1 DEF Inv, Typed, TreeType, KnownType
<1>3. RequestType' /\ (\A r \in Requests : Spares(r)') /\ Solo'
    BY DEF Inv, RequestType, Holds, Spares, At, Solo, Busy
<1>4. ASSUME Calm'
      PROVE  Fresh' /\ Told' /\ \A r \in Requests : Sure(r)'
  <2>1. Calm /\ Fresh /\ Told /\ \A r \in Requests : Sure(r)
      BY <1>4 DEF Calm, Inv, CalmInv
  <2>2. Fresh'
      BY <2>1, FetchedSame DEF Fresh
  <2>3. Told'
      BY <2>1 DEF Told
  <2>4. ASSUME NEW r \in Requests
        PROVE  Sure(r)'
    <3>1. KindOf(req[r].op) \in {"datasets", "snapshots"}
        BY KindOfProperties
    <3>2. Fetched(KindOf(req[r].op))' = Fetched(KindOf(req[r].op))
        BY <3>1 DEF Fetched
    <3> QED
        BY <2>1, <3>2 DEF Sure
  <2> QED
      BY <2>2, <2>3, <2>4
<1> QED
    BY <1>2, <1>3, <1>4 DEF Inv, CalmInv

LEMMA ScanEndsInv ==
    ASSUME Inv, ScanEnds
    PROVE  Inv'
<1>1. PoolsType'
    BY ScanProperties DEF ScanEnds, Inv, Typed
<1> QED
    BY <1>1, StillInv, CacheShape DEF ScanEnds, Inv

LEMMA ExpireInv ==
    ASSUME Inv, Expire
    PROVE  Inv'
<1>1. PICK kind \in Kinds : cache' = [cache EXCEPT ![kind] = Unknown]
    BY DEF Expire
<1>2. cache = [k \in Kinds |-> cache[k]]
    BY CacheShape DEF Inv
<1>3. cache' = [k \in Kinds |-> IF k = kind THEN Unknown ELSE cache[k]]
    BY <1>1, <1>2
<1>4. /\ cache' = [k \in Kinds |-> cache'[k]]
      /\ \A k \in {"datasets", "snapshots"} : cache'[k] \in {Unknown, cache[k]}
    BY <1>3 DEF Kinds
<1>5. PoolsType'
    BY DEF Expire, PoolsType, Inv, Typed
<1> QED
    BY <1>4, <1>5, StillInv DEF Expire

-----------------------------------------------------------------------------
(* The invariant.                                                          *)

LEMMA InitInv ==
    ASSUME Init
    PROVE  Inv
<1> DEFINE paths == {<<"rpool">>, <<"rpool", "ROOT">>, <<"rpool", "a">>, <<"rpool", "a", "b">>,
                     <<"rpool", "a", "@1">>}
           idOf(p) == IF p = <<"rpool", "a", "b">> THEN NoId ELSE Id(Found, p)
<1>1. paths \subseteq Path
  <2>1. "rpool" \in Part /\ "ROOT" \in Part /\ "a" \in Part /\ "b" \in Part /\ "@1" \in Part
      BY DEF Part
  <2>2. <<"rpool">> \in Path /\ <<"rpool", "ROOT">> \in Path /\ <<"rpool", "a">> \in Path
      BY <2>1, ShortSequences DEF Path
  <2>3. <<"rpool", "a", "b">> \in Path /\ <<"rpool", "a", "@1">> \in Path
      BY <2>1, ShortSequences DEF Path
  <2> QED
      BY <2>2, <2>3
<1>2. tree = [p \in paths |-> Object(idOf(p), 0)]
    BY DEF Init, OnHost
<1>3. clock = 1 /\ cuts = 0 /\ overlapped = FALSE
    BY DEF Init
<1>4. \A p : Of(Id(Found, p), p) /\ \A requests : Given(requests, Id(Found, p))
    BY IdProperties, Nobodys
<1> HIDE DEF paths
<1>5. /\ DOMAIN tree = paths
      /\ \A p \in paths : /\ tree[p].id = idOf(p) /\ tree[p].born = 0 /\ tree[p].clones = {}
                          /\ IsObject(tree[p])
    BY <1>2 DEF Object, IsObject
<1>6. TreeType
  <2>1. \A p \in paths : IsId(req, idOf(p), p)
      BY <1>4, NoIdProperties DEF IsId
  <2>2. tree = [p \in DOMAIN tree |-> tree[p]]
      BY <1>2
  <2> HIDE DEF idOf
  <2> QED
      BY <1>1, <1>3, <1>5, <2>1, <2>2 DEF TreeType
<1>7. PoolsType
    BY DEF Init, PoolsType, IsPool
<1>8. /\ cache = [k \in Kinds |-> cache[k]]
      /\ cache["datasets"] = Unknown /\ cache["snapshots"] = Unknown
    BY DEF Init, Cleared, Kinds
<1>9. CacheType
    BY <1>8, UnknownIsListing DEF CacheType
<1>10. \A k \in known : \E p \in paths :
          /\ tree[p].id # NoId
          /\ k = [id |-> tree[p].id, path |-> p, born |-> 0]
    BY <1>2, <1>5 DEF Init
<1>11. KnownType /\ Told
  <2>1. ASSUME NEW k \in known
        PROVE  /\ k = [id |-> k.id, path |-> k.path, born |-> k.born]
               /\ k.path \in Path /\ Of(k.id, k.path) /\ Given(req, k.id)
               /\ k.born \in Nat /\ k.born < clock
               /\ k.path \in DOMAIN tree => (tree[k.path].id = k.id <=> tree[k.path].born = k.born)
    <3>1. PICK p \in paths : tree[p].id # NoId /\ k = [id |-> tree[p].id, path |-> p, born |-> 0]
        BY <1>10
    <3>2. tree[p].id = Id(Found, p)
        BY <1>5, <3>1
    <3> QED
        BY <1>1, <1>3, <1>4, <1>5, <3>1, <3>2
  <2> QED
      BY <2>1 DEF KnownType, Told
<1>12. \A r \in Requests : req[r] = NewRequest
    BY DEF Init
<1>13. /\ NewRequest.op = "list_datasets" /\ NewRequest.stage = "idle" /\ NewRequest.flag = FALSE
       /\ IsRequest(NewRequest)
    BY DEF NewRequest, IsRequest
<1>14. RequestType
  <2>1. Placed(NewRequest)
      BY <1>13 DEF Placed, Ops, DatasetOps, Stages
  <2>2. \A r \in Requests : Holds(r)
      BY <1>12, <1>13 DEF Holds, Takes
  <2>3. req = [r \in Requests |-> req[r]]
      BY DEF Init
  <2> QED
      BY <1>12, <2>1, <2>2, <2>3 DEF RequestType
<1>15. (\A r \in Requests : Spares(r) /\ Sure(r)) /\ Busy = {}
    BY <1>12, <1>13 DEF Spares, Sure, At, Busy, Working
<1>16. Fresh
    BY <1>8 DEF Fresh
<1>17. Typed
  <2>1. overlapped \in BOOLEAN
      BY <1>3
  <2>2. cuts \in Nat
      BY <1>3
  <2>3. clock \in Nat \ {0}
      BY <1>3
  <2> QED
      BY <2>1, <2>2, <2>3, <1>6, <1>7, <1>9, <1>11 DEF Typed
<1> QED
    BY <1>11, <1>14, <1>15, <1>16, <1>17 DEF Inv, CalmInv, Solo

LEMMA NextInv ==
    ASSUME Inv, [Next]_vars
    PROVE  Inv'
<1>1. CASE UNCHANGED vars
  <2>1. PoolsType'
      BY <1>1 DEF vars, PoolsType, Inv, Typed
  <2> QED
      BY <1>1, <2>1, StillInv, CacheShape DEF vars, Inv
<1>2. CASE \E r \in Requests : Ask(r) \/ Read(r) \/ ReadPools(r) \/ Name(r) \/ Children(r)
    BY <1>2, AskInv, ReadInv, ReadPoolsInv, NameInv, ChildrenInv
<1>3. CASE \E r \in Requests : Command(r) \/ Fail(r) \/ Mark(r) \/ Note(r) \/ Poll(r)
    BY <1>3, CommandInv, FailInv, MarkInv, NoteInv, PollInv
<1>4. CASE ScanEnds \/ Expire \/ Cut
    BY <1>4, ScanEndsInv, ExpireInv, CutInv
<1> QED
    BY <1>1, <1>2, <1>3, <1>4 DEF Next

LEMMA Always == Spec => []Inv
BY InitInv, NextInv, PTL DEF Spec

-----------------------------------------------------------------------------
\* Whatever overlaps, no two objects ever have one id: handlers that race to name an object
\* (ensure_id, routes/storage.rs) replace each other's ids and never give one twice.  Unless
\* requests overlap or are dropped, an id a client has been told stays with its object.
THEOREM Identified == Spec => []Identity
<1>1. ASSUME Inv
      PROVE  Identity
  <2>1. \A p \in DOMAIN tree : tree[p].born \in 0 .. clock /\ tree[p].clones \subseteq Places
      BY <1>1 DEF Inv, Typed, TreeType
  <2>2. ASSUME NEW p \in DOMAIN tree, NEW q \in DOMAIN tree, tree[p].id = tree[q].id,
               tree[p].id # NoId
        PROVE  p = q
    <3>1. /\ Of(tree[p].id, p) /\ Of(tree[q].id, q) /\ p \in Path /\ q \in Path
        BY <1>1, <2>2 DEF Inv, Typed, TreeType, IsId
    <3> QED
        BY <2>2, <3>1, NoIdProperties
  <2>3. IdsAreUnique
      BY <1>1, <2>1, <2>2 DEF IdsAreUnique, Inv, Typed, PoolsType, RequestType, Placed
  <2>4. ToldIdsLast
      BY <1>1 DEF ToldIdsLast, Inv, CalmInv, Told
  <2> QED
      BY <2>3, <2>4 DEF Identity
<1> QED
    BY <1>1, Always, PTL

\* Whatever overlaps, fails or is dropped, the metadata of an object that is there is never
\* removed: a destroy of routes/storage.rs forgets ids that went with what was destroyed,
\* and nothing is ever given one of them again.
THEOREM RowsStay == Spec => MetadataStays
<1> DEFINE Stay == \A p \in DOMAIN tree' : tree'[p].id \in meta => tree'[p].id \in meta'
<1>1. ASSUME Inv, [Next]_vars
      PROVE  Stay
  <2> SUFFICES ASSUME NEW p \in DOMAIN tree', tree'[p].id \in meta, tree'[p].id \notin meta'
               PROVE  FALSE
      OBVIOUS
  <2>1. PICK r \in Requests : Note(r)
      BY ZenonT(40), <1>1 DEF Next, vars, Ask, Read, ReadPools, Name, Children, Command, CreatePool, DestroyPool,
                  StartScrub, StopScrub, CreateDataset, UpdateDataset, DestroyDataset,
                  CreateSnapshot, DestroySnapshot, Rollback, Clone, Acted, Fail, Mark, Poll,
                  ScanEnds, Expire, Cut
  <2>2. At(r, "note") /\ req[r].op \in Destroys /\ meta' = meta \ req[r].doomed /\ tree' = tree
      BY <2>1 DEF Note, Destroys, Takes
  <2> QED
      BY <1>1, <2>2 DEF Inv, Spares
<1>2. Inv /\ [Next]_vars => [Stay]_vars
    BY <1>1
<1> QED
    BY <1>2, Always, PTL DEF Spec, MetadataStays

-----------------------------------------------------------------------------
(* What vanishes.                                                          *)

\* A request that takes something has its object from the client that asked.
LEMMA Taking ==
    ASSUME Inv, NEW r \in Requests, At(r, "act"), req[r].op \in Takes
    PROVE  /\ req[r].path \in Path /\ MayBeTaken(req[r])
           /\ \E k \in known : /\ k.id = req[r].id /\ k.path = req[r].path
                               /\ Calm => k.born = tree[k.path].born
<1>1. /\ req[r].path \in Path /\ Of(req[r].id, req[r].path) /\ MayBeTaken(req[r])
      /\ \E k \in known : k.id = req[r].id
    BY DEF Inv, RequestType, Holds, At
<1>2. PICK k \in known : k.id = req[r].id
    BY <1>1
<1>3. k.path = req[r].path
  <2>1. k.path \in Path /\ Of(k.id, k.path)
      BY DEF Inv, Typed, KnownType
  <2> QED
      BY <1>1, <1>2, <2>1, NoIdProperties
<1>4. Calm => k.born = tree[k.path].born
  <2>1. ASSUME Calm
        PROVE  Told /\ Sure(r)
      BY <2>1 DEF Inv, CalmInv
  <2>2. ASSUME Calm
        PROVE  req[r].path \in DOMAIN tree /\ tree[req[r].path].id = req[r].id
      BY <2>1, <2>2 DEF Sure, At
  <2> QED
      BY <1>2, <1>3, <2>1, <2>2 DEF Told
<1> QED
    BY <1>1, <1>2, <1>3, <1>4

\* Its command has run.
LEMMA HasActed ==
    ASSUME RequestType, NEW r \in Requests, NEW stage \in {"note", "over"}, Acted(r, stage)
    PROVE  ~At(r, "act")'
BY Going DEF Acted, At

\* A command that destroys or rolls back takes only what the client has asked for.
LEMMA TakesAsked ==
    ASSUME Inv, NEW r \in Requests,
           DestroyPool(r) \/ DestroyDataset(r) \/ DestroySnapshot(r) \/ Rollback(r),
           NEW p \in DOMAIN tree, Gone(p)
    PROVE  At(r, "act") /\ ~At(r, "act")' /\ MayTake(r, p)
<1>0. RequestType /\ TreeType /\ p \in Path
    BY DEF Inv, Typed, TreeType
<1>1. At(r, "act") /\ req[r].op \in Takes
    BY DEF DestroyPool, DestroyDataset, DestroySnapshot, Rollback, Doing, Takes
<1>2. ~At(r, "act")'
    BY <1>0, HasActed DEF DestroyPool, DestroyDataset, DestroySnapshot, Rollback
<1>3. PICK k \in known : /\ k.id = req[r].id /\ k.path = req[r].path
                         /\ Calm => k.born = tree[k.path].born
    BY <1>1, Taking
<1>4. req[r].path \in Path /\ MayBeTaken(req[r])
    BY <1>1, Taking
<1>5. ASSUME NEW paths, tree' = Drop(tree, paths)
      PROVE  p \in paths
    BY <1>0, <1>5, DropProperties DEF Gone
<1>6. \A q \in {req[r].path} \cup Below(tree, req[r].path) : q = p => IsPrefix(req[r].path, p)
  <2>1. req[r].path \in Seq(Part)
      BY <1>4 DEF Path
  <2>2. IsPrefix(req[r].path, req[r].path)
      BY <2>1, PrefixProperties
  <2> QED
      BY <2>2 DEF Below, IsStrictPrefix
<1>7. CASE DestroyPool(r)
  <2>1. req[r].op = "destroy_pool" /\ tree' = DestroyedPool(tree, req[r].path)
      BY <1>7 DEF DestroyPool, Doing
  <2>2. IsPrefix(req[r].path, p)
      BY <1>5, <1>6, <2>1 DEF DestroyedPool
  <2>3. Len(req[r].path) = 1 /\ req[r].path[1] # "rpool"
      BY <1>4, <2>1 DEF MayBeTaken
  <2>4. req[r].path = <<p[1]>> /\ req[r].path[1] = p[1]
    <3>1. req[r].path \in Seq(Part) /\ p \in Seq(Part)
        BY <1>0, <1>4 DEF Path
    <3>2. req[r].path[1] = p[1]
        BY <2>2, <2>3, <3>1, PrefixProperties
    <3> QED
        BY <2>3, <3>1, <3>2
  <2> QED
      BY <1>1, <1>2, <1>3, <2>1, <2>3, <2>4 DEF MayTake
<1>8. CASE DestroyDataset(r)
  <2>1. /\ req[r].op = "destroy_dataset" /\ tree' = Destroyed(tree, req[r].path)
        /\ CanDestroy(tree, req[r].path, req[r].flag)
      BY <1>8 DEF DestroyDataset, Doing
  <2>2. p \in {req[r].path} \cup Below(tree, req[r].path)
      BY <1>5, <2>1 DEF Destroyed
  <2>3. IsPrefix(req[r].path, p) /\ ~Protected(p)
    <3>1. ~Protected(req[r].path)
        BY <1>4, <2>1 DEF MayBeTaken
    <3> QED
        BY <1>0, <1>4, <1>6, <2>2, <3>1, ProtectedBelow
  <2>4. ~req[r].flag => p = req[r].path
      BY <2>1, <2>2 DEF CanDestroy
  <2> QED
      BY <1>1, <1>2, <1>3, <2>1, <2>3, <2>4 DEF MayTake
<1>9. CASE DestroySnapshot(r)
  <2>1. req[r].op = "destroy_snapshot" /\ tree' = DestroyedSnapshot(tree, req[r].path)
      BY <1>9 DEF DestroySnapshot, Doing
  <2>2. p = req[r].path
      BY <1>5, <2>1 DEF DestroyedSnapshot
  <2> QED
      BY <1>1, <1>2, <1>3, <1>4, <2>1, <2>2 DEF MayTake, MayBeTaken
<1>10. CASE Rollback(r)
  <2>1. /\ req[r].op = "rollback" /\ tree' = RolledBack(tree, req[r].path)
        /\ CanRollback(tree, req[r].path, req[r].flag)
      BY <1>10 DEF Rollback, Doing
  <2>2. p \in Newer(tree, req[r].path)
      BY <1>5, <2>1 DEF RolledBack
  <2>3. /\ req[r].flag /\ IsSnapshot(p) /\ Dataset(p) = Dataset(req[r].path)
        /\ tree[p].born > tree[req[r].path].born
      BY <2>1, <2>2 DEF CanRollback, Newer, SnapshotsOf
  <2>4. ~Protected(Dataset(p))
      BY <1>4, <2>1, <2>3 DEF MayBeTaken
  <2> QED
      BY <1>1, <1>2, <1>3, <2>1, <2>3, <2>4 DEF MayTake
<1> QED
    BY <1>7, <1>8, <1>9, <1>10

\* A command that makes something replaces nothing but a root dataset without a pool.
LEMMA MakingKeeps ==
    ASSUME Inv, NEW r \in Requests,
           CreatePool(r) \/ CreateDataset(r) \/ CreateSnapshot(r) \/ Clone(r),
           NEW p \in DOMAIN tree, ~Orphan(p)
    PROVE  ~Gone(p)
<1>1. RequestType /\ TreeType
    BY DEF Inv, Typed
<1>2. CASE CreatePool(r)
  <2>1. req[r].path[1] \notin DOMAIN pools /\ tree' = CreatedPool(tree, req[r].path, req[r].id, clock)
      BY <1>2 DEF CreatePool
  <2>2. Len(req[r].path) = 1
      BY <1>1, <1>2 DEF CreatePool, Doing, At, RequestType, Placed, Holds, MakingOps
  <2>3. p # req[r].path
      BY <2>1, <2>2 DEF Orphan
  <2> QED
      BY <2>1, <2>3 DEF CreatedPool, Put, Gone
<1>3. CASE CreateDataset(r)
  <2>1. tree' = Created(tree, req[r].path, req[r].id, NoId, clock)
      BY <1>3 DEF CreateDataset
  <2> QED
      BY <2>1 DEF Created, Put, Gone
<1>4. CASE CreateSnapshot(r)
  <2>1. PICK name \in SnapshotNames :
            /\ CanSnapshot(tree, req[r].to, name, req[r].flag)
            /\ tree' = Snapshotted(tree, req[r].to, name, req[r].flag, NoId, clock)
      BY <1>4 DEF CreateSnapshot
  <2>2. p \notin {Snap(q, name) : q \in Snapped(tree, req[r].to, req[r].flag)}
      BY <2>1 DEF CanSnapshot
  <2> QED
      BY <2>1, <2>2 DEF Snapshotted, Put, Gone
<1>5. CASE Clone(r)
  <2> DEFINE t == [tree EXCEPT ![req[r].path].clones = @ \cup {req[r].to}]
  <2>1. req[r].path \in DOMAIN tree /\ p # req[r].to
      BY <1>5 DEF Clone, CanClone
  <2>2. tree' = [q \in DOMAIN t \cup {req[r].to} |-> IF q \in {req[r].to} THEN Object(NoId, clock) ELSE t[q]]
      BY <1>5 DEF Clone, Cloned, Put
  <2>3. DOMAIN t = DOMAIN tree /\ t[p].born = tree[p].born
    <3>1. tree = [q \in DOMAIN tree |-> tree[q]] /\ IsObject(tree[req[r].path])
        BY <1>1, <2>1 DEF TreeType
    <3> DEFINE origin == [tree[req[r].path] EXCEPT !.clones = @ \cup {req[r].to}]
    <3>2. origin.born = tree[req[r].path].born
        BY <3>1 DEF IsObject
    <3>3. t = [q \in DOMAIN tree |-> IF q = req[r].path THEN origin ELSE tree[q]]
        BY <3>1
    <3> HIDE DEF origin, t
    <3> QED
        BY <3>2, <3>3
  <2> HIDE DEF t
  <2> QED
      BY <2>1, <2>2, <2>3 DEF Gone
<1> QED
    BY <1>2, <1>3, <1>4, <1>5

\* What else there is takes nothing away.
LEMMA OthersKeep ==
    ASSUME Inv, NEW p \in DOMAIN tree,
           \/ \E r \in Requests : Name(r) \/ Children(r) \/ Mark(r)
           \/ UNCHANGED tree
    PROVE  ~Gone(p)
<1>0. TreeType
    BY DEF Inv, Typed
<1>1. ASSUME NEW by, NEW listing, NameStored(by, listing)
      PROVE  ~Gone(p)
  <2>1. tree' = [q \in DOMAIN tree |-> tree'[q]] /\ tree'[p].born = tree[p].born
      BY <1>0, <1>1, Naming
  <2> QED
      BY <2>1 DEF Gone
<1>2. CASE \E r \in Requests : Name(r) \/ Children(r)
    BY <1>1, <1>2 DEF Name, Children
<1>3. CASE UNCHANGED tree
    BY <1>3 DEF Gone
<1>4. ASSUME NEW q \in DOMAIN tree, NEW i, tree' = [tree EXCEPT ![q].id = i]
      PROVE  ~Gone(p)
  <2>1. tree = [x \in DOMAIN tree |-> tree[x]] /\ IsObject(tree[q])
      BY <1>0 DEF TreeType
  <2> DEFINE named == [tree[q] EXCEPT !.id = i]
  <2>2. named.born = tree[q].born
      BY <2>1 DEF IsObject
  <2>3. tree' = [x \in DOMAIN tree |-> IF x = q THEN named ELSE tree[x]]
      BY <1>4, <2>1
  <2> HIDE DEF named
  <2> QED
      BY <2>2, <2>3 DEF Gone
<1>5. CASE \E r \in Requests : Mark(r)
    BY <1>3, <1>4, <1>5 DEF Mark, CanSetId, IdSet
<1> QED
    BY <1>2, <1>3, <1>5

\* Nothing vanishes but what a client has asked for by its id, of a kind and at a place
\* where it may be taken (the checks of routes/storage.rs before each command); unless
\* requests overlap or are dropped it is the very object the client was told of.
THEOREM AskedFor == Spec => VanishesByAsking
<1> DEFINE Asked == \A p \in DOMAIN tree : Gone(p) /\ ~Orphan(p) =>
                        \E r \in Requests : At(r, "act") /\ ~At(r, "act")' /\ MayTake(r, p)
<1>1. ASSUME Inv, [Next]_vars
      PROVE  Asked
  <2> SUFFICES ASSUME NEW p \in DOMAIN tree, Gone(p), ~Orphan(p)
               PROVE  \E r \in Requests : At(r, "act") /\ ~At(r, "act")' /\ MayTake(r, p)
      OBVIOUS
  <2>1. tree' # tree /\ ~\E r \in Requests : Name(r) \/ Children(r) \/ Mark(r)
      BY <1>1, OthersKeep
  <2>2. PICK r \in Requests : Command(r)
      BY <1>1, <2>1 DEF Next, vars, Ask, Read, ReadPools, Fail, Note, Poll, ScanEnds, Expire, Cut
  <2>3. ~(CreatePool(r) \/ CreateDataset(r) \/ CreateSnapshot(r) \/ Clone(r))
      BY <1>1, MakingKeeps
  <2>4. DestroyPool(r) \/ DestroyDataset(r) \/ DestroySnapshot(r) \/ Rollback(r)
      BY <2>1, <2>2, <2>3 DEF Command, StartScrub, StopScrub, UpdateDataset
  <2> QED
      BY <1>1, <2>4, TakesAsked
<1>2. Inv /\ [Next]_vars => [Asked]_vars
    BY <1>1
<1> QED
    BY <1>2, Always, PTL DEF Spec, VanishesByAsking
=============================================================================
