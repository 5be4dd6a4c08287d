-------------------------------- MODULE MCPool --------------------------------
(* Pool for TLC: HTTP threads and nonces are interchangeable. *)
EXTENDS Pool, TLC

Symmetry == Permutations(Thread) \cup Permutations(Nonce)

=============================================================================
