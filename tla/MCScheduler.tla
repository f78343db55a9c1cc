---------------------------- MODULE MCScheduler ----------------------------
(***************************************************************************)
(* TLC instances of Scheduler: the requests are interchangeable.           *)
(***************************************************************************)
EXTENDS Scheduler

RequestSymmetry == Permutations(Requests)

=============================================================================
