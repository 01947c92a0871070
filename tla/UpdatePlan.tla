----------------------------- MODULE UpdatePlan -----------------------------
(***************************************************************************)
(* The plan of an update: what `pkg update -nv` prints of the packages     *)
(* that would change, and what mandraked reads in it                       *)
(* (crates/mandraked/src/pkg.rs).                                          *)
(*                                                                         *)
(* An image gives each package its version, 0 where it is not installed;   *)
(* images are numbered.  A line is its indent, its first word, and, if it  *)
(* tells of versions, the two.  Abstracted: the lines' wording.            *)
(***************************************************************************)
EXTENDS Naturals, SequencesExt

Incorporation == "incorporation"
Packages == {Incorporation, "daemon", "library"}

\* 1: installed; 2: the next version; 0: of the same version, a package more and one less.
Image(i) == [p \in Packages |->
    CASE p = Incorporation -> IF i = 2 THEN 2 ELSE 1
      [] p = "daemon" -> IF i = 0 THEN 0 ELSE i
      [] OTHER -> IF i = 1 THEN 0 ELSE 1]

Differing(from, to) == {p \in Packages : Image(from)[p] # Image(to)[p]}

-----------------------------------------------------------------------------
(* What pkg prints: counts, whether there will be a boot environment, then *)
(* the packages by publisher, a heading after them.                        *)

Line(indent, word) == [indent |-> indent, word |-> word, old |-> 0, new |-> 0]

NoUpdates == <<Line(0, "No updates available")>>

\* A package, and its versions under it.
Change(p, from, to) ==
    <<Line(2, p),
      [indent |-> 4, word |-> "->", old |-> Image(from)[p], new |-> Image(to)[p]]>>

Published(publisher, packages, from, to) ==
    LET named == SetToSeq(packages)
    IN  IF packages = {} THEN << >>
        ELSE <<Line(0, publisher)>>
             \o FlattenSeq([i \in DOMAIN named |-> Change(named[i], from, to)])

Ours == {Incorporation, "daemon"}

Printed(from, to) ==
    LET changed == Differing(from, to)
    IN  IF changed = {} THEN NoUpdates
        ELSE <<Line(4, "Packages to"), Line(4, "Create boot environment:"),
               Line(0, "Changed packages:")>>
             \o Published("nightshade.systems", changed \cap Ours, from, to)
             \o Published("omnios", changed \ Ours, from, to)
             \o <<Line(0, "Services:"), Line(2, "restart_fmri:"), Line(4, "manifest-import")>>

-----------------------------------------------------------------------------
(* What mandraked reads.                                                   *)

Headers == {"Packages to", "Create boot environment:", "Rebuild boot archive:"}
Headings == {"Services:", "Changed fmris:"}
NoName == ""

Action(line) == CASE line.old = 0 /\ line.new # 0 -> "install"
                  [] line.old # 0 /\ line.new = 0 -> "remove"
                  [] OTHER -> "update"

Section(at, line) == IF line.word \in Headings THEN [at EXCEPT !.inChanged = FALSE] ELSE at

ReadLine(at, line) ==
    IF ~at.inChanged
    THEN [at EXCEPT !.sawHeader = @ \/ line.word \in Headers,
                    !.inChanged = line.word = "Changed packages:"]
    ELSE IF line.indent = 0 THEN Section(at, line)
    ELSE IF line.word = "->" /\ at.current # NoName
    THEN [at EXCEPT !.current = NoName, !.packages =
            Append(@, [name |-> at.current, action |-> Action(line), version |-> line.new])]
    ELSE IF line.word # "->" /\ line.indent = 2 THEN [at EXCEPT !.current = line.word]
    ELSE [at EXCEPT !.failed = TRUE]

\* What is known after the lines, of what was known before them.
Read(at, lines) ==
    LET read[n \in 0 .. Len(lines)] == IF n = 0 THEN at ELSE ReadLine(read[n - 1], lines[n])
    IN  read[Len(lines)]

\* ok: it could be read; packages: those that change.
ParseDryRun(lines) ==
    LET start == [inChanged |-> FALSE, sawHeader |-> FALSE, current |-> NoName,
                  packages |-> << >>, failed |-> FALSE]
        end == Read(start, lines)
    IN  IF lines = NoUpdates THEN [ok |-> TRUE, packages |-> << >>]
        ELSE [ok |-> end.sawHeader /\ ~end.failed, packages |-> end.packages]

\* The version the plan moves to; 0 if it moves to none.
MandrakeVersion(packages) ==
    LET moved == {i \in DOMAIN packages : packages[i].name = Incorporation}
    IN  IF moved = {} THEN 0 ELSE packages[Min(moved)].version
=============================================================================
