---------------------------- MODULE MCRadixTree ----------------------------
(***************************************************************************)
(* A TLC instance of RadixTree: three chains, two of which share a prefix. *)
(***************************************************************************)
EXTENDS RadixTree

CONSTANTS b1, b2

MCBlocks == {b1, b2}

MCChains == {<<b1, b1>>, <<b1, b2>>, <<b2>>}

=============================================================================
