--------------------------- MODULE MCKVCacheLedger ---------------------------
(***************************************************************************)
(* A small ledger for TLC: two prompts that share their first block and    *)
(* then diverge, so that hits, sharing and private tails all occur.        *)
(***************************************************************************)
EXTENDS KVCacheLedger, TLC

CONSTANTS h1, h2, h3, r1, r2

MCChains == {<<h1, h2>>, <<h1, h3>>}

MCSymmetry == Permutations(Req) \cup Permutations(Block)

=============================================================================
