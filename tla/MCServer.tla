------------------------------- MODULE MCServer -------------------------------
(* The clients are interchangeable: no property names one of them. *)
EXTENDS TcpServer, TLC

ClientSymmetry == Permutations(Client)
=============================================================================
