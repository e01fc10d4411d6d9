------------------------------- MODULE MCInput -------------------------------
(* One frame of one packet buffer and one of two for model checking EthInput.     *)
EXTENDS EthInput

CONSTANTS short, long

MCSize == [f \in Frame |-> IF f = short THEN 1 ELSE 2]
=============================================================================
