---------------------------- MODULE MCJwksCache ----------------------------
(***************************************************************************)
(* Two threads and two keys: enough for a slow fetch to be overtaken, for  *)
(* two refreshes to be forced together, and for a key to replace another.  *)
(***************************************************************************)
EXTENDS JwksCache, TLC

Simmetria == Permutations(Thread)
=============================================================================
