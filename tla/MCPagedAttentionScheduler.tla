---------------------- MODULE MCPagedAttentionScheduler ----------------------
(***************************************************************************)
(* A small engine for TLC: more sequences than the cache has blocks for,   *)
(* of two media; one shares a block with another and has blocks to come.   *)
(***************************************************************************)
EXTENDS PagedAttentionScheduler

CONSTANTS h1, h2, h3, h4

\* Two short sequences, and a long one that can outgrow three blocks of two tokens.
MCChainOf == <<<<h1>>, <<h2>>, <<h1, h3, h4>>>>
MCPromptLen == <<1, 1, 3>>
MCMaxLen == <<3, 3, 7>>
MCMedia == <<0, 0, 1>>

=============================================================================
