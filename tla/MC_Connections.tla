--------------------------- MODULE MC_Connections ---------------------------
(***************************************************************************)
(* Instances of Connections for TLC.                                       *)
(***************************************************************************)
EXTENDS Connections

\* Neighbouring connections come from different addresses.
MC_Addrs == {"10.0.0.1", "10.0.0.2"}
MC_PeerAddr == [c \in 1..MaxConns |-> IF c % 2 = 1 THEN "10.0.0.1" ELSE "10.0.0.2"]
=============================================================================
