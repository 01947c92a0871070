----------------------------- MODULE PoolStatus -----------------------------
(***************************************************************************)
(* A pool's devices on their way from a request through zpool and back:    *)
(* the arguments of zpool create (vdev_args, mandrake-zfs/src/cli.rs),     *)
(* what zpool makes of them and prints, and how the printed lines are read *)
(* (parse_config and vdev_type, mandrake-zfs/src/parse.rs).                *)
(*                                                                         *)
(* A line of zpool status is its indentation, in columns of two, and its   *)
(* first word, without the number zpool adds to it.  States, counters and  *)
(* notes are left out.                                                     *)
(***************************************************************************)
EXTENDS Naturals, FiniteSetsExt, SequencesExt

Aux == {"log", "cache", "spare"}
Redundant == {"mirror", "raidz1", "raidz2", "raidz3"}
VdevSpecType == {"stripe"} \cup Redundant \cup Aux

\* A request's layout is a sequence of these; devices is a sequence of names.
VdevSpec(type, devices) == [type |-> type, devices |-> devices]

IsAux(v) == v.type \in Aux
IsMain(v) == ~IsAux(v)

Word(type) == IF type = "stripe" THEN << >> ELSE <<type>>

\* The arguments: data vdevs first, then the rest, each its word and its devices.
Args(layout) ==
    LET Group(v) == Word(v.type) \o v.devices
        Ordered == SelectSeq(layout, IsMain) \o SelectSeq(layout, IsAux)
    IN  FlattenSeq([i \in DOMAIN Ordered |-> Group(Ordered[i])])

-----------------------------------------------------------------------------
(* zpool: a device belongs to the last word before it.                     *)

Keywords == VdevSpecType \ {"stripe"}

\* The groups zpool reads, each [at: its word's place, type, devices]; devices that
\* no word precedes are a stripe.
Groups(args) ==
    LET Words == {0} \cup {i \in DOMAIN args : args[i] \in Keywords}
        End(i) == Min({j \in Words : j > i} \cup {Len(args) + 1})
        Group(i) == VdevSpec(IF i = 0 THEN "stripe" ELSE args[i], SubSeq(args, i + 1, End(i) - 1))
        InOrder == SetToSortSeq(Words, <)
        NotEmpty(g) == g.devices # << >>
    IN  SelectSeq([n \in DOMAIN InOrder |-> Group(InOrder[n])], NotEmpty)

Line(indent, word) == [indent |-> indent, word |-> word]

\* A device is printed alone, or with its stand-in while it is being replaced.
DeviceLines(indent, d, replaced) ==
    IF d \in replaced
    THEN <<Line(indent, "replacing"), Line(indent + 1, d), Line(indent + 1, "new")>>
    ELSE <<Line(indent, d)>>

DevicesLines(indent, devices, replaced) ==
    FlattenSeq([i \in DOMAIN devices |-> DeviceLines(indent, devices[i], replaced)])

\* The sections follow the data vdevs, at the indentation of the pool itself.
Section == [log |-> "logs", cache |-> "cache", spare |-> "spares"]

Printed(pool, groups, replaced) ==
    LET Main(g) == IF g.type = "stripe" THEN DevicesLines(1, g.devices, replaced)
                   ELSE <<Line(1, g.type)>> \o DevicesLines(2, g.devices, replaced)
        Of(type) == LET Is(g) == g.type = type IN SelectSeq(groups, Is)
        Sectioned(type) ==
            IF Of(type) = << >> THEN << >>
            ELSE <<Line(0, Section[type])>> \o FlattenSeq([i \in DOMAIN Of(type) |->
                     DevicesLines(1, Of(type)[i].devices, replaced)])
        Mains == SelectSeq(groups, IsMain)
    IN  <<Line(0, pool)>> \o FlattenSeq([i \in DOMAIN Mains |-> Main(Mains[i])])
            \o Sectioned("log") \o Sectioned("cache") \o Sectioned("spare")

-----------------------------------------------------------------------------
(* The parser.                                                             *)

Sections == {"logs", "cache", "spares"}

\* Mutant of LevelOf: only the lines right below a section shift.
LevelOfNext(lines, i) ==
    lines[i].indent + (IF \/ lines[i].word \in Sections
                          \/ i > 1 /\ lines[i - 1].word \in Sections THEN 1 ELSE 0)

\* The level of line i: what is below a section shifts one level deeper, until the
\* next line at the pool's indentation.
LevelOf(lines, i) ==
    LET head == Max({j \in 1 .. i : lines[j].indent = 0})
    IN  lines[i].indent + (IF lines[head].word \in Sections THEN 1 ELSE 0)

VdevTypeOf(word, level) ==
    IF level = 0 THEN "root"
    ELSE IF word \in Redundant \cup Sections \cup {"replacing"} THEN word
    ELSE "disk"

\* The parser's stack holds the open nodes, the innermost last; the parent of a line
\* is the nearest line before it that is not as deep.
ParentOf(lines, i) == Max({j \in 1 .. i - 1 : LevelOf(lines, j) < LevelOf(lines, i)})

\* The types on the way from the pool to line i.
TypesTo(lines) ==
    LET types[i \in DOMAIN lines] ==
            LET own == VdevTypeOf(lines[i].word, LevelOf(lines, i))
            IN  IF LevelOf(lines, i) = 0 THEN <<own>>
                ELSE Append(types[ParentOf(lines, i)], own)
    IN  types

\* Vdev::leaves: the devices, with the groups each is in.
Leaves(lines) ==
    LET types == TypesTo(lines)
    IN  {[device |-> lines[i].word, within |-> Front(types[i])] :
            i \in {j \in DOMAIN lines : Last(types[j]) = "disk"}}

ReadBack(pool, layout, replaced) == Leaves(Printed(pool, Groups(Args(layout)), replaced))
=============================================================================
