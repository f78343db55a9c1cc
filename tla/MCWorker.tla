------------------------------ MODULE MCWorker ------------------------------
(***************************************************************************)
(* TLC instances of Worker: the requests are interchangeable.              *)
(***************************************************************************)
EXTENDS Worker

RequestSymmetry == Permutations(Requests)

=============================================================================
