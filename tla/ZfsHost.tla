------------------------------ MODULE ZfsHost -------------------------------
(***************************************************************************)
(* What the zfs commands of mandraked's storage driver do to a host's      *)
(* datasets and snapshots, as the repository's in-memory driver gives them *)
(* (crates/mandrake-zfs/src/fake.rs).                                      *)
(*                                                                         *)
(* An object is named by its path: rpool/a/b is <<"rpool", "a", "b">>, and *)
(* its snapshot b@1 is <<"rpool", "a", "b", "@1">>, so that whatever zfs   *)
(* counts as part of an object is strictly below its path.  A tree maps    *)
(* the paths that exist to what they name.  Each command is a guard, the   *)
(* reasons for which zfs refuses, and the tree it leaves.                  *)
(***************************************************************************)
EXTENDS Naturals, SequencesExt

CONSTANT SnapshotNames    \* last parts of paths, such as "@1"

IsSnapshot(p) == Last(p) \in SnapshotNames
Dataset(s) == Front(s)                     \* the dataset of snapshot s
Snap(p, name) == Append(p, name)

\* id: the mandrake-id stored with the object; born: when it was made; clones: the
\* datasets cloned from a snapshot, which the fake never forgets.
Object(id, born) == [id |-> id, born |-> born, clones |-> {}]

Put(tree, paths, object(_)) ==
    [p \in DOMAIN tree \cup paths |-> IF p \in paths THEN object(p) ELSE tree[p]]
Drop(tree, paths) == [p \in DOMAIN tree \ paths |-> tree[p]]

Below(tree, p) == {q \in DOMAIN tree : IsStrictPrefix(p, q)}
ChildrenOf(tree, p) == {q \in Below(tree, p) : ~IsSnapshot(q)}
SnapshotsOf(tree, p) == {q \in DOMAIN tree : IsSnapshot(q) /\ Dataset(q) = p}

-----------------------------------------------------------------------------
(* Pools: a pool's root dataset is made and destroyed with it.             *)

CreatedPool(tree, root, id, now) == Put(tree, {root}, LAMBDA p : Object(id, now))
DestroyedPool(tree, root) == Drop(tree, {root} \cup Below(tree, root))

-----------------------------------------------------------------------------
(* Datasets.                                                               *)

CanCreate(tree, p, parents) ==
    /\ p \notin DOMAIN tree
    /\ Front(p) \in DOMAIN tree \/ parents

\* Parents made on the way get no id.
Created(tree, p, id, none, now) ==
    Put(tree, {q \in Prefixes(p) \ {<< >>} : q \notin DOMAIN tree},
        LAMBDA q : Object(IF q = p THEN id ELSE none, now))

CanSetId(tree, p) == p \in DOMAIN tree
IdSet(tree, p, id) == [tree EXCEPT ![p].id = id]

CanDestroy(tree, p, recursive) ==
    /\ p \in DOMAIN tree
    /\ recursive \/ Below(tree, p) = {}
    /\ \A s \in SnapshotsOf(tree, p) : tree[s].clones = {}

Destroyed(tree, p) == Drop(tree, {p} \cup Below(tree, p))

-----------------------------------------------------------------------------
(* Snapshots.                                                              *)

Snapped(tree, p, recursive) == {p} \cup IF recursive THEN ChildrenOf(tree, p) ELSE {}

CanSnapshot(tree, p, name, recursive) ==
    /\ p \in DOMAIN tree
    /\ \A q \in Snapped(tree, p, recursive) : Snap(q, name) \notin DOMAIN tree

Snapshotted(tree, p, name, recursive, none, now) ==
    Put(tree, {Snap(q, name) : q \in Snapped(tree, p, recursive)},
        LAMBDA s : Object(none, now))

CanDestroySnapshot(tree, s) == s \in DOMAIN tree /\ tree[s].clones = {}
DestroyedSnapshot(tree, s) == Drop(tree, {s})

Newer(tree, s) == {n \in SnapshotsOf(tree, Dataset(s)) : tree[n].born > tree[s].born}
CanRollback(tree, s, discard) == s \in DOMAIN tree /\ (discard \/ Newer(tree, s) = {})
RolledBack(tree, s) == Drop(tree, Newer(tree, s))

CanClone(tree, s, p) == s \in DOMAIN tree /\ p \notin DOMAIN tree
Cloned(tree, s, p, none, now) ==
    Put([tree EXCEPT ![s].clones = @ \cup {p}], {p}, LAMBDA q : Object(none, now))
=============================================================================
