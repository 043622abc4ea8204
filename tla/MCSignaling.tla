---------------------------- MODULE MCSignaling ----------------------------
(***************************************************************************)
(* Small instances of Signaling: two or three connections to one session.   *)
(***************************************************************************)
EXTENDS Signaling, TLC

OneId       == {"abc"}
OneSpelling == {"abc"}
OneLower    == [l \in OneSpelling |-> "abc"]
Peers       == Permutations(Peer)
=============================================================================
