--------------------------- MODULE MCAptosChannel ---------------------------
(* Three keys, named in MCAptosChannel.cfg; small queues and few messages. *)
EXTENDS AptosChannel, TLC

(* No key is treated specially, and every property is an invariant. *)
Symmetry == Permutations(Key)
=============================================================================
