----------------------------- MODULE MCSignalHub -----------------------------
(* SignalHub for TLC: connections are interchangeable, and so are accounts. *)
EXTENDS SignalHub, TLC

Symmetry == Permutations(Conn) \cup Permutations(Account)
=============================================================================
