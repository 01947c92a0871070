----------------------------- MODULE ImageStore -----------------------------
(***************************************************************************)
(* How a downloaded payload becomes an image in the pool                   *)
(* (crates/mandrake-images/src/import.rs and store.rs), and how a pipeline *)
(* of two commands ends (crates/mandrake-core/src/shell.rs).               *)
(*                                                                         *)
(* A type is a kind of image, its published size, and the size of what is  *)
(* in it, which is another if it is compressed; sizes are in halves of a   *)
(* mebibyte.                                                               *)
(***************************************************************************)
EXTENDS Naturals, Sequences

Kinds == {"zone", "raw", "iso"}
IsCloneable(type) == type.kind # "iso"

\* What is in the pool under an image's name: "blank" is a zvol not written to; "cut" and
\* "whole" have no snapshot yet; "payload" is all of an image.
Contents == {"nothing", "blank", "cut", "whole", "payload"}

\* The steps of landing, by kind.
Steps(type) == CASE type.kind = "zone" -> <<"receive", "snapshot">>
                 [] type.kind = "raw" -> <<"create", "fill", "snapshot">>
                 [] OTHER -> <<"keep">>

\* The step after one of them.
NextStep(type, step) ==
    LET steps == Steps(type)
        i == CHOOSE j \in DOMAIN steps : steps[j] = step
    IN  IF i = Len(steps) THEN "landed" ELSE steps[i + 1]

RawSize(size) == 2 * (IF size = 0 THEN 1 ELSE (size + 1) \div 2)

-----------------------------------------------------------------------------
(* A pipeline: the first command writes what the second reads.             *)

\* Mutant of Succeeded: as a shell has it, the last command decides.
SucceededLast(first, second) == second

Succeeded(first, second) == first /\ second

\* Whether the commands succeed.  Without its whole input zfs receive fails; dd does not.
Ends == [first : BOOLEAN, second : BOOLEAN]
Receives(end) == end.second => end.first
Fills(type, end) == end.second => type.content <= RawSize(type.size)

\* What step leaves of what was there, and whether it succeeded.  When the second command
\* cannot be started, the first is killed.
Outcomes(type, step, there) ==
    CASE step = "receive" ->
            {[content |-> IF end.second THEN "whole" ELSE "nothing",
              ok |-> Succeeded(end.first, end.second)] : end \in {e \in Ends : Receives(e)}}
      [] step = "create" -> {[content |-> "blank", ok |-> TRUE], [content |-> there, ok |-> FALSE]}
      [] step = "fill" ->
            {[content |-> IF end.first /\ end.second THEN "whole" ELSE "cut",
              ok |-> Succeeded(end.first, end.second)] : end \in {e \in Ends : Fills(type, e)}}
            \cup {[content |-> there, ok |-> FALSE]}
      [] step = "keep" -> {[content |-> "payload", ok |-> TRUE], [content |-> there, ok |-> FALSE]}
      [] OTHER -> {[content |-> IF there = "whole" THEN "payload" ELSE there, ok |-> TRUE],
                   [content |-> there, ok |-> FALSE]}

\* What a step cut short by the end of the daemon may leave.
Interrupted(step, there) == {there} \cup IF step \in {"receive", "fill"} THEN {"cut"} ELSE {}
=============================================================================
