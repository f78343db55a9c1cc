------------------------------ MODULE MCServer ------------------------------
(***************************************************************************)
(* Finite instances of Server: no bound beyond its constants is needed,    *)
(* ids are handed out once.  The requests are interchangeable.             *)
(***************************************************************************)
EXTENDS Server, TLC

RequestSymmetry == Permutations(Requests)

=============================================================================
