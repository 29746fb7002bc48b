-------------------------------- MODULE Powers --------------------------------
(***************************************************************************)
(* Powers of ten and of two, as functions a proof can unfold.              *)
(***************************************************************************)
EXTENDS Integers

Tens[k \in Nat] == IF k = 0 THEN 1 ELSE 10 * Tens[k - 1]

Twos[k \in Nat] == IF k = 0 THEN 1 ELSE 2 * Twos[k - 1]
===============================================================================
