-------------------------------- MODULE Bits --------------------------------
(* How many numbers n bits hold: 1 << n.                                    *)
EXTENDS Integers

Pow2[n \in Nat] == IF n = 0 THEN 1 ELSE 2 * Pow2[n - 1]
=============================================================================
