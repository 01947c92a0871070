--------------------------- MODULE MCImageSources ---------------------------
(* ImageSources for TLC: handlers and keys are interchangeable.             *)
EXTENDS ImageSources, TLC

Symmetry == Permutations(Handlers) \cup Permutations(Keys)
=============================================================================
