-------------------------- MODULE MCSchedulerLoop --------------------------
(* Instances of SchedulerLoop for TLC. *)
EXTENDS SchedulerLoop, TLC

\* Requests differ only in what each of them does.
Symmetry == Permutations(Requests)
=============================================================================
