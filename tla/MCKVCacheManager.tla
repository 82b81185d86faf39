-------------------------- MODULE MCKVCacheManager --------------------------
(***************************************************************************)
(* A small manager for TLC: prompts that share their first block, leases   *)
(* on prefixes of them, and few enough blocks that requests and leases     *)
(* compete.                                                                *)
(***************************************************************************)
EXTENDS KVCacheManager, TLC

CONSTANTS h1, h2, h3

MCChains == {<<h1, h2>>, <<h1, h3>>}
MCShortChains == {<<h1>>, <<h2>>}

MCSymmetry == Permutations(Req) \cup Permutations(Lease)

=============================================================================
