------------------------------ MODULE Storage -------------------------------
(***************************************************************************)
(* The storage requests of mandraked (crates/mandraked/src/routes/         *)
(* storage.rs): pools, datasets and snapshots, what names them, and the    *)
(* scrub jobs.                                                             *)
(*                                                                         *)
(* ZFS keeps the objects (ZfsHost) and, as a property of each, the id the  *)
(* API names it by.  A request names an object by that id; its handler     *)
(* looks the id up in a listing, cached for a few seconds, and from then   *)
(* on works with the object's name.  Objects without an id get one from    *)
(* the first handler that lists them.                                      *)
(*                                                                         *)
(* A command and the clearing of the caches after it are one step (a       *)
(* handler that reads in between sees what it would have seen before the   *)
(* command or after the clearing), unless the request is dropped while the *)
(* command runs.  A listing and its storing in the cache are one step; the *)
(* race between the two is in TtlCache.  Abstracted: sizes and properties, *)
(* audit records, paging; pools and their root datasets are listed at one  *)
(* time.                                                                   *)
(***************************************************************************)
EXTENDS ZfsHost, PoolStatus, FiniteSets

CONSTANTS
    MaxRequests,   \* bound: requests asked
    MaxCuts,       \* bound: requests dropped by the time-out or by their client
    Places,        \* paths under which requests make datasets
    Layouts,       \* layouts requests ask for
    PoolNames,     \* pools requests make
    Asks,          \* Asks[r]: bound: the operations request r may be
    Alone          \* bound: requests asked only while no other is in its handler

PoolOps == {"destroy_pool", "scrub", "stop_scrub"}
DatasetOps == {"list_datasets", "update_dataset", "destroy_dataset", "create_snapshot"}
SnapshotOps == {"list_snapshots", "destroy_snapshot", "rollback", "clone"}
MakingOps == {"create_pool", "create_dataset"}
Ops == PoolOps \cup DatasetOps \cup SnapshotOps \cup MakingOps

\* A request makes no dataset under the name of a snapshot: names of datasets have no @.
ASSUME StorageAssumption ==
    /\ MaxRequests \in Nat /\ MaxCuts \in Nat
    /\ DOMAIN Asks = 1 .. MaxRequests /\ \A r \in DOMAIN Asks : Asks[r] \subseteq Ops
    /\ SnapshotNames \cup PoolNames \subseteq STRING
    /\ \A p \in Places : p \in Seq(STRING) \ {<< >>} /\ ~IsSnapshot(p)

VARIABLES
    tree,      \* datasets and snapshots, as in ZfsHost
    pools,     \* the pools there are: the state of the scan and the layout asked for
    cache,     \* cache[k]: the listing of kind k in its read cache, or Unknown
    meta,      \* ids with a row of metadata
    known,     \* what clients have been told: [id, path, born]
    req,       \* req[r]: request r
    overlapped,\* two requests have been in their handlers at once
    cuts,      \* how many requests have been dropped
    clock      \* one more for every command that makes something

vars == <<tree, pools, cache, meta, known, req, overlapped, cuts, clock>>

Requests == 1 .. MaxRequests

\* Who gave an id to what: ids are random, so no two are alike.  An id that could not be
\* stored is derived from the name; Found: as the host was found.
Id(by, path) == [by |-> by, path |-> path]
NoId == Id(0, << >>)
Derived(path) == Id(0, path)
Found == 2 * MaxRequests + 1

\* A listing of datasets or snapshots gives ids and births, one of pools their scans.
Kinds == {"pools", "datasets", "snapshots"}
Unknown == << >>
Fetched(kind) ==
    IF kind = "pools" THEN [p \in DOMAIN pools |-> pools[p].scan]
    ELSE [p \in {q \in DOMAIN tree : IsSnapshot(q) <=> kind = "snapshots"} |->
             [id |-> tree[p].id, born |-> tree[p].born]]
Listing(kind) == IF cache[kind] # Unknown THEN cache[kind] ELSE Fetched(kind)
Cleared == [k \in Kinds |-> Unknown]

KindOf(op) == IF op \in SnapshotOps THEN "snapshots" ELSE "datasets"

\* flag: recursive, create_parents, discard_newer, force, or properties to set; to: the
\* path to make; new: which part of a snapshot's name; path: the object found.  seen: a
\* listing with objects still to be named; doomed: the ids whose metadata goes.
Stages == {"idle", "read", "name", "children", "act", "mark", "note", "poll", "over"}
NewRequest == [op |-> "list_datasets", stage |-> "idle", id |-> NoId, to |-> << >>,
               flag |-> FALSE, path |-> << >>, seen |-> Unknown, doomed |-> {}]
Working == {"read", "name", "children", "act", "mark", "note"}

At(r, stage) == req[r].stage = stage
Busy == {r \in Requests : req[r].stage \in Working}
Doing(r, op) == At(r, "act") /\ req[r].op = op
\* Nothing is remembered of a request that is over.
Goto(r, stage) ==
    req' = [req EXCEPT ![r] = [IF stage = "over" THEN NewRequest ELSE @ EXCEPT !.stage = stage]]
Calm == ~overlapped /\ cuts = 0

-----------------------------------------------------------------------------
(* Protection.                                                             *)

PoolProtected(p) == p[1] = "rpool"
Protected(p) ==
    \/ Len(p) = 1
    \/ IsPrefix(<<"rpool", "ROOT">>, p)
    \/ IsPrefix(<<"rpool", "mandrake">>, p)
    \/ p \in {<<"rpool", "dump">>, <<"rpool", "swap">>}

-----------------------------------------------------------------------------
(* Asking.  Objects are named by ids clients have been told, or by the     *)
(* path to make; create_snapshot names its dataset by path.                *)

Inputs(op) ==
    [id : IF op \in PoolOps \cup {"update_dataset", "destroy_dataset"} \cup
                   (SnapshotOps \ {"list_snapshots"})
          THEN {k.id : k \in {x \in known : /\ IsSnapshot(x.path) <=> op \in SnapshotOps
                                            /\ op \in PoolOps => Len(x.path) = 1}}
          ELSE {NoId},
     to : CASE op = "create_pool" -> {<<p>> : p \in PoolNames}
            [] op \in {"create_dataset", "clone"} -> Places
            [] op = "create_snapshot" -> {k.path : k \in {x \in known : ~IsSnapshot(x.path)}}
            [] OTHER -> {<< >>},
     flag : IF op \in {"update_dataset", "destroy_dataset", "create_snapshot", "rollback"}
                       \cup MakingOps THEN BOOLEAN ELSE {FALSE}]

Ask(r) ==
    /\ At(r, "idle") /\ \A q \in Requests : q < r => ~At(q, "idle")
    /\ r \in Alone => Busy = {}
    /\ \E op \in Asks[r] : \E in \in Inputs(op) :
          req' = [req EXCEPT ![r] = [NewRequest EXCEPT !.op = op, !.stage = "read",
                                         !.id = in.id, !.to = in.to, !.flag = in.flag]]
    /\ overlapped' = (overlapped \/ Busy # {})
    /\ UNCHANGED <<tree, pools, cache, meta, known, cuts, clock>>

-----------------------------------------------------------------------------
(* Finding the object: all_datasets, all_snapshots, ensure_id, find_*.     *)

IdsOf(listing) == [p \in DOMAIN listing |-> listing[p].id]
Unnamed(listing) == {p \in DOMAIN listing : listing[p].id = NoId}

\* ensure_id stores by name, whatever has the name by now.
Stored(listing) == Unnamed(listing) \cap DOMAIN tree
Named(by, listing) ==
    [p \in DOMAIN listing |->
        IF listing[p].id # NoId THEN listing[p].id
        ELSE IF p \in DOMAIN tree THEN Id(by, p) ELSE Derived(p)]
NameStored(by, listing) ==
    tree' = [p \in DOMAIN tree |-> IF p \in Stored(listing)
                                  THEN [tree[p] EXCEPT !.id = Id(by, p)] ELSE tree[p]]

Matches(r, ids) ==
    IF req[r].op = "create_snapshot" THEN {req[r].to} \cap DOMAIN ids
    ELSE {p \in DOMAIN ids : /\ ids[p] = req[r].id
                             /\ req[r].op \in PoolOps =>
                                    Len(p) = 1 /\ p[1] \in DOMAIN Listing("pools")}

\* Whether request r may do to p what it asks.
Allowed(r, p) ==
    LET flag == req[r].flag
    IN  CASE req[r].op = "destroy_pool" -> ~PoolProtected(p)
          [] req[r].op = "scrub" -> Listing("pools")[p[1]] # "running"
          [] req[r].op = "update_dataset" -> flag => ~Protected(p)
          [] req[r].op = "destroy_dataset" -> ~Protected(p)
          [] req[r].op = "destroy_snapshot" -> ~IsPrefix(<<"rpool", "ROOT">>, p)
          [] req[r].op = "rollback" -> ~Protected(Dataset(p))
          [] req[r].op = "clone" -> ~Protected(req[r].to)
          [] OTHER -> TRUE

AfterFind(r) ==
    CASE req[r].op = "destroy_dataset" -> "children"
      [] req[r].op = "update_dataset" /\ ~req[r].flag -> "note"
      [] OTHER -> "act"

\* The handler goes on with an object the ids name and the request may change; a
\* listing is an answer.
Decide(r, ids, listing) ==
    LET found == {p \in Matches(r, ids) : Allowed(r, p)}
        lists == req[r].op \in {"list_datasets", "list_snapshots"}
    IN  /\ known' = known \cup IF lists THEN {[id |-> ids[p], path |-> p, born |-> listing[p].born] :
                                               p \in DOMAIN ids}
                              ELSE {}
        /\ IF lists \/ found = {}
           THEN Goto(r, "over")
           ELSE req' = [req EXCEPT ![r].stage = AfterFind(r), ![r].seen = Unknown,
                                   ![r].path = CHOOSE p \in found : TRUE,
                                   ![r].doomed = {req[r].id}]

Read(r) ==
    LET kind == KindOf(req[r].op)
        listing == Listing(kind)
    IN  /\ At(r, "read") /\ req[r].op \notin MakingOps
        /\ cache' = [cache EXCEPT ![kind] = listing,
                       !["pools"] = IF req[r].op \in PoolOps THEN Listing("pools") ELSE @]
        /\ IF Unnamed(listing) = {}
           THEN Decide(r, IdsOf(listing), listing)
           ELSE /\ req' = [req EXCEPT ![r].stage = "name", ![r].seen = listing]
                /\ UNCHANGED known
        /\ UNCHANGED <<tree, pools, meta, overlapped, cuts, clock>>

\* Mutant of Forget: what was listed before the ids were stored is kept.
ForgetNothing(kind, assigned) == UNCHANGED cache

Forget(kind, assigned) ==
    cache' = IF assigned THEN [cache EXCEPT ![kind] = Unknown] ELSE cache

Name(r) ==
    LET listing == req[r].seen
    IN  /\ At(r, "name")
        /\ NameStored(r, listing)
        /\ Forget(KindOf(req[r].op), Stored(listing) # {})
        /\ Decide(r, Named(r, listing), listing)
        /\ UNCHANGED <<pools, meta, overlapped, cuts, clock>>

\* destroy_dataset lists again, for the children.
Children(r) ==
    LET listing == Listing("datasets")
        ids == Named(MaxRequests + r, listing)
        children == {p \in DOMAIN listing : IsStrictPrefix(req[r].path, p)}
    IN  /\ At(r, "children")
        /\ NameStored(MaxRequests + r, listing)
        /\ cache' = [cache EXCEPT !["datasets"] =
                         IF Stored(listing) = {} THEN listing ELSE Unknown]
        /\ IF children # {} /\ ~req[r].flag
           THEN Goto(r, "over")
           ELSE req' = [req EXCEPT ![r].stage = "act",
                                   ![r].doomed = @ \cup {ids[p] : p \in children}]
        /\ UNCHANGED <<pools, meta, known, overlapped, cuts, clock>>

\* create_pool and create_dataset look at the pools only.
ReadPools(r) ==
    LET there == req[r].to[1] \in DOMAIN Listing("pools")
    IN  /\ At(r, "read") /\ req[r].op \in MakingOps
        /\ cache' = [cache EXCEPT !["pools"] = Listing("pools")]
        /\ IF \/ req[r].op = "create_pool" /\ ~PoolProtected(req[r].to) /\ ~there
              \/ req[r].op = "create_dataset" /\ ~Protected(req[r].to) /\ there
           THEN req' = [req EXCEPT ![r].stage = "act", ![r].path = req[r].to,
                                   ![r].id = Id(r, req[r].to)]
           ELSE Goto(r, "over")
        /\ UNCHANGED <<tree, pools, meta, known, overlapped, cuts, clock>>

-----------------------------------------------------------------------------
(* The commands.                                                           *)

\* Mutant of Invalidate: the listing of datasets is kept.
InvalidateSome == [Cleared EXCEPT !["datasets"] = cache["datasets"]]

Invalidate == Cleared

\* The command of request r has run; the caches are cleared and the handler goes on,
\* unless the request has been dropped meanwhile.
Acted(r, stage) ==
    /\ clock' = clock + 1
    /\ UNCHANGED <<meta, known, overlapped>>
    /\ \/ cache' = Invalidate /\ Goto(r, stage) /\ UNCHANGED cuts
       \/ /\ cuts < MaxCuts
          /\ cuts' = cuts + 1 /\ Goto(r, "over") /\ UNCHANGED cache

DevicesOf(layout) == UNION {ToSet(layout[i].devices) : i \in DOMAIN layout}
InUse == UNION {DevicesOf(pools[p].layout) : p \in DOMAIN pools}

CreatePool(r) ==
    LET p == req[r].path[1]
    IN  /\ Doing(r, "create_pool")
        /\ p \notin DOMAIN pools
        /\ \E layout \in Layouts :
              /\ req[r].flag \/ DevicesOf(layout) \cap InUse = {}
              /\ pools' = [q \in DOMAIN pools \cup {p} |->
                              IF q = p THEN [scan |-> "none", layout |-> layout] ELSE pools[q]]
        /\ tree' = CreatedPool(tree, req[r].path, req[r].id, clock)
        /\ Acted(r, "note")

DestroyPool(r) ==
    /\ Doing(r, "destroy_pool")
    /\ req[r].path[1] \in DOMAIN pools
    /\ pools' = [q \in DOMAIN pools \ {req[r].path[1]} |-> pools[q]]
    /\ tree' = DestroyedPool(tree, req[r].path)
    /\ Acted(r, "note")

Scan(p, state) == pools' = [pools EXCEPT ![p].scan = state]

StartScrub(r) ==
    LET p == req[r].path[1]
    IN  /\ Doing(r, "scrub")
        /\ p \in DOMAIN pools /\ pools[p].scan # "running"
        /\ Scan(p, "running") /\ UNCHANGED tree
        /\ Acted(r, "poll")

StopScrub(r) ==
    LET p == req[r].path[1]
    IN  /\ Doing(r, "stop_scrub")
        /\ p \in DOMAIN pools /\ pools[p].scan = "running"
        /\ Scan(p, "canceled") /\ UNCHANGED tree
        /\ Acted(r, "over")

CreateDataset(r) ==
    /\ Doing(r, "create_dataset")
    /\ CanCreate(tree, req[r].path, req[r].flag)
    /\ tree' = Created(tree, req[r].path, req[r].id, NoId, clock)
    /\ UNCHANGED pools
    /\ Acted(r, "note")

UpdateDataset(r) ==
    /\ Doing(r, "update_dataset")
    /\ req[r].path \in DOMAIN tree
    /\ UNCHANGED <<tree, pools>>
    /\ Acted(r, "note")

DestroyDataset(r) ==
    /\ Doing(r, "destroy_dataset")
    /\ CanDestroy(tree, req[r].path, req[r].flag)
    /\ tree' = Destroyed(tree, req[r].path)
    /\ UNCHANGED pools
    /\ Acted(r, "note")

CreateSnapshot(r) ==
    /\ Doing(r, "create_snapshot")
    /\ \E name \in SnapshotNames :
          /\ CanSnapshot(tree, req[r].to, name, req[r].flag)
          /\ tree' = Snapshotted(tree, req[r].to, name, req[r].flag, NoId, clock)
          /\ clock' = clock + 1
          /\ UNCHANGED <<pools, meta, known, overlapped>>
          /\ \/ /\ cache' = Invalidate /\ UNCHANGED cuts
                /\ req' = [req EXCEPT ![r].stage = "mark", ![r].path = Snap(req[r].to, name)]
             \/ /\ cuts < MaxCuts
                /\ cuts' = cuts + 1 /\ Goto(r, "over") /\ UNCHANGED cache

DestroySnapshot(r) ==
    /\ Doing(r, "destroy_snapshot")
    /\ CanDestroySnapshot(tree, req[r].path)
    /\ tree' = DestroyedSnapshot(tree, req[r].path)
    /\ UNCHANGED pools
    /\ Acted(r, "note")

Rollback(r) ==
    /\ Doing(r, "rollback")
    /\ CanRollback(tree, req[r].path, req[r].flag)
    /\ tree' = RolledBack(tree, req[r].path)
    /\ UNCHANGED pools
    /\ Acted(r, "over")

Clone(r) ==
    /\ Doing(r, "clone")
    /\ CanClone(tree, req[r].path, req[r].to)
    /\ tree' = Cloned(tree, req[r].path, req[r].to, NoId, clock)
    /\ UNCHANGED pools
    /\ Acted(r, "mark")

\* What create_snapshot and clone_snapshot have made gets its id with a second command,
\* which fails when it has gone already.
Mark(r) ==
    LET p == IF req[r].op = "clone" THEN req[r].to ELSE req[r].path
    IN  /\ At(r, "mark")
        /\ IF CanSetId(tree, p)
           THEN /\ tree' = IdSet(tree, p, Id(r, p))
                /\ req' = [req EXCEPT ![r].stage = "note", ![r].path = p, ![r].id = Id(r, p)]
           ELSE Goto(r, "over") /\ UNCHANGED tree
        /\ UNCHANGED <<pools, cache, meta, known, overlapped, cuts, clock>>

\* Mutant of Fail: the handler goes on as if the command had done it.
FailUnseen(r) ==
    /\ At(r, "act") /\ Goto(r, "note")
    /\ UNCHANGED <<tree, pools, cache, meta, known, overlapped, cuts, clock>>

\* A command refuses, or fails for a reason of its own.
Fail(r) ==
    /\ At(r, "act") /\ Goto(r, "over")
    /\ UNCHANGED <<tree, pools, cache, meta, known, overlapped, cuts, clock>>

\* The rows of what is destroyed go; what is made gets a row, if the request has metadata
\* (a clone never has), and its client learns its id, if it is still there.
Note(r) ==
    LET destroys == req[r].op \in {"destroy_pool", "destroy_dataset", "destroy_snapshot"}
        p == req[r].path
        told == {[id |-> req[r].id, path |-> p, born |-> tree[p].born] : x \in {p} \cap DOMAIN tree}
    IN  /\ At(r, "note") /\ Goto(r, "over")
        /\ IF destroys
           THEN meta' = meta \ req[r].doomed /\ UNCHANGED known
           ELSE /\ meta' = meta \cup IF req[r].op = "clone" THEN {} ELSE {req[r].id}
                /\ known' = known \cup IF req[r].op = "update_dataset" THEN {} ELSE told
        /\ UNCHANGED <<tree, pools, cache, overlapped, cuts, clock>>

-----------------------------------------------------------------------------
(* The job of a scrub polls the pool until its scan is over, or it fails   *)
(* to find the pool.                                                       *)

\* Mutant of ScanOver: a canceled scrub is waited for.
ScanOverFinished(p) == p \notin DOMAIN pools \/ pools[p].scan \in {"none", "finished"}

ScanOver(p) == p \notin DOMAIN pools \/ pools[p].scan # "running"

Poll(r) ==
    LET p == req[r].path[1]
    IN  /\ At(r, "poll") /\ ScanOver(p)
        /\ Goto(r, "over")
        /\ cache' = [cache EXCEPT !["pools"] =
                         IF p \in DOMAIN pools /\ pools[p].scan # "none" THEN Unknown ELSE @]
        /\ UNCHANGED <<tree, pools, meta, known, overlapped, cuts, clock>>

ScanEnds ==
    /\ \E p \in DOMAIN pools : pools[p].scan = "running" /\ Scan(p, "finished")
    /\ UNCHANGED <<tree, cache, meta, known, req, overlapped, cuts, clock>>

\* A listing expires.  Nobody could tell while it is what would be fetched.
Expire ==
    /\ \E kind \in Kinds :
          /\ cache[kind] \notin {Unknown, Fetched(kind)}
          /\ cache' = [cache EXCEPT ![kind] = Unknown]
    /\ UNCHANGED <<tree, pools, meta, known, req, overlapped, cuts, clock>>

\* A request is dropped while it waits for anything but its command.
Cut ==
    /\ cuts < MaxCuts /\ cuts' = cuts + 1
    /\ \E r \in Busy : Goto(r, "over")
    /\ UNCHANGED <<tree, pools, cache, meta, known, overlapped, clock>>

-----------------------------------------------------------------------------
OnHost == [p \in {<<"rpool">>, <<"rpool", "ROOT">>, <<"rpool", "a">>, <<"rpool", "a", "b">>,
                   <<"rpool", "a", "@1">>} |->
              \* Made by hand, and not listed since: no id.
              Object(IF p = <<"rpool", "a", "b">> THEN NoId ELSE Id(Found, p), 0)]

Init ==
    /\ tree = OnHost
    /\ pools = [p \in {"rpool"} |->
                   [scan |-> "none", layout |-> <<VdevSpec("mirror", <<"d0", "d1">>)>>]]
    /\ cache = Cleared
    /\ known = {[id |-> OnHost[p].id, path |-> p, born |-> 0] :
                    p \in {q \in DOMAIN OnHost : OnHost[q].id # NoId}}
    /\ meta = {k.id : k \in known}
    /\ req = [r \in Requests |-> NewRequest]
    /\ overlapped = FALSE /\ cuts = 0 /\ clock = 1

Command(r) ==
    \/ CreatePool(r) \/ DestroyPool(r) \/ StartScrub(r) \/ StopScrub(r)
    \/ CreateDataset(r) \/ UpdateDataset(r) \/ DestroyDataset(r)
    \/ CreateSnapshot(r) \/ DestroySnapshot(r) \/ Rollback(r) \/ Clone(r)

Next ==
    \/ \E r \in Requests :
          \/ Ask(r) \/ Read(r) \/ ReadPools(r) \/ Name(r) \/ Children(r)
          \/ Command(r) \/ Fail(r) \/ Mark(r) \/ Note(r) \/ Poll(r)
    \/ ScanEnds \/ Expire \/ Cut

Spec == Init /\ [][Next]_vars

\* Jobs go on by themselves; a scan makes progress.
FairSpec == Spec /\ WF_vars(ScanEnds) /\ \A r \in Requests : WF_vars(Poll(r))

-----------------------------------------------------------------------------
(* Properties.                                                             *)

\* Types; and no two objects ever share a stored id, whatever overlaps: handlers that race
\* to name an object replace each other's ids (ensure_id), and never give one twice.
IdsAreUnique ==
    /\ \A p \in DOMAIN tree : tree[p].born \in 0 .. clock /\ tree[p].clones \subseteq Places
    /\ \A p \in DOMAIN pools : pools[p].scan \in {"none", "running", "finished", "canceled"}
    /\ \A r \in Requests : req[r].op \in Ops /\ req[r].stage \in Stages /\ req[r].flag \in BOOLEAN
    /\ \A p, q \in DOMAIN tree : tree[p].id = tree[q].id => p = q \/ tree[p].id = NoId

\* Unless requests have overlapped or one has been dropped, an id a client has been told
\* goes on naming the object it was told for, as long as there is that object
\* (storage.rs:4: "every object's id comes from its ZFS user property, assigned on first
\* sight").
ToldIdsLast ==
    Calm => \A k \in known :
        k.path \in DOMAIN tree /\ tree[k.path].born = k.born => tree[k.path].id = k.id

Identity == IdsAreUnique /\ ToldIdsLast

Gone(p) == p \notin DOMAIN tree' \/ tree'[p].born # tree[p].born

\* Whether request r, which is at its command, may take p away: p is, or is part of, what
\* the client has named; what is protected stays; a rollback takes newer snapshots only.
\* Unless requests overlap or are dropped, what it takes is what the client was told of.
MayTake(r, p) ==
    \E k \in known :
        /\ k.id = req[r].id
        /\ Calm => k.born = tree[k.path].born
        /\ CASE req[r].op = "destroy_pool" -> k.path = <<p[1]>> /\ p[1] # "rpool"
             [] req[r].op = "destroy_dataset" ->
                    /\ IF req[r].flag THEN IsPrefix(k.path, p) ELSE p = k.path
                    /\ ~Protected(p)
             [] req[r].op = "destroy_snapshot" -> p = k.path /\ ~IsPrefix(<<"rpool", "ROOT">>, p)
             [] req[r].op = "rollback" ->
                    /\ req[r].flag /\ IsSnapshot(p) /\ Dataset(p) = Dataset(k.path)
                    /\ ~Protected(Dataset(p))
                    /\ Calm => tree[p].born > k.born
             [] OTHER -> FALSE

\* A root dataset without a pool: the driver makes one, as a parent, for a create_dataset
\* that meets the destruction of its pool, and the pool made next replaces it.
Orphan(p) == Len(p) = 1 /\ p[1] \notin DOMAIN pools

\* Nothing vanishes from the host but what a client has asked for by its id.
VanishesByAsking ==
    [][\A p \in DOMAIN tree : Gone(p) /\ ~Orphan(p) =>
          \E r \in Requests : At(r, "act") /\ ~At(r, "act")' /\ MayTake(r, p)]_vars

\* The metadata of an object that is there is never removed, whatever overlaps: neither by
\* a destroy that fails nor by one that meets another object under the name.
MetadataStays ==
    [][\A p \in DOMAIN tree' : tree'[p].id \in meta => tree'[p].id \in meta']_vars

\* The job of a scrub ends, when the scrub ends, is canceled, or is gone with its pool.
EveryScrubJobEnds == \A r \in Requests : At(r, "poll") ~> At(r, "over")

\* What a request has asked a pool to be built of.
Wanted(v, d, replaced) ==
    [device |-> d,
     within |-> <<"root">> \o (IF v.type = "stripe" THEN << >>
                               ELSE IF IsAux(v) THEN <<Section[v.type]>> ELSE <<v.type>>)
                \o (IF d \in replaced THEN <<"replacing">> ELSE << >>)]

\* A stripe after a vdev of another kind has no word of its own in the arguments, and zpool
\* adds its devices to that vdev.
Separable(layout) ==
    \A i, j \in DOMAIN layout :
        i < j /\ IsMain(layout[i]) /\ layout[j].type = "stripe" => layout[i].type = "stripe"

\* The devices mandraked shows for a pool are those it was asked to build the pool of, each
\* in its group, whichever of them is being replaced.
PoolIsReadBack ==
    \A p \in DOMAIN pools :
        LET layout == pools[p].layout
        IN  Separable(layout) => \A replaced \in {{d} : d \in DevicesOf(layout)} \cup {{}} :
                {l \in ReadBack(p, layout, replaced) : l.device # "new"} =
                UNION {{Wanted(layout[i], d, replaced) : d \in ToSet(layout[i].devices)} :
                          i \in DOMAIN layout}
=============================================================================
