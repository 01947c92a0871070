------------------------------- MODULE MCJobs -------------------------------
(* Jobs for TLC: the jobs are interchangeable in the safety runs.           *)
EXTENDS Jobs, TLC

Symmetry == Permutations(Jobs)
=============================================================================
