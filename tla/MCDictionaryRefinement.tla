----------------------- MODULE MCDictionaryRefinement -----------------------
(* Two threads, two keys, one value, up to two blocks in the queue.       *)
EXTENDS DictionaryRefinement
CONSTANTS c1, c2, k1, k2, v1
=============================================================================
