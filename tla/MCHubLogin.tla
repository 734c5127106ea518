------------------------------ MODULE MCHubLogin ------------------------------
(* HubLogin for TLC: addresses are interchangeable, and so are the credentials *)
(* where each is the whole of one content of the file, as after a change of    *)
(* password.                                                                   *)
EXTENDS HubLogin, TLC

Symmetry == Permutations(Key) \cup Permutations(Credential)
=============================================================================
