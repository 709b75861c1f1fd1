----------------------------- MODULE MCRealtime -----------------------------
(***************************************************************************)
(* Realtime for TLC: connections are interchangeable, which the safety run *)
(* uses; the liveness run does not.                                        *)
(***************************************************************************)
EXTENDS Realtime, TLC

Connections == Permutations(Socket)
=============================================================================
