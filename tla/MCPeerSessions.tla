---------------------------- MODULE MCPeerSessions ----------------------------
(* PeerSessions on a small instance: the receivers are interchangeable, which the run
   without liveness uses. *)
EXTENDS PeerSessions, TLC

Symmetry == Permutations(Receiver)
=============================================================================
