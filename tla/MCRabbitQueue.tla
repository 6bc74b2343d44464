--------------------------- MODULE MCRabbitQueue ---------------------------
(* Small instances of RabbitQueue for TLC. *)
EXTENDS RabbitQueue, TLC

Symmetry == Permutations(Captures)
=============================================================================
