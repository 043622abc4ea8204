------------------------------- MODULE MCHub -------------------------------
(***************************************************************************)
(* Small instances of Hub: one session id, one id written in two ways, and  *)
(* two ids (model values, which may change places like the peers).          *)
(***************************************************************************)
EXTENDS Hub, TLC

OneId         == {"abc"}
OneSpelling   == {"abc"}
OneLower      == [l \in OneSpelling |-> "abc"]
TwoSpellings  == {"ABC", "abc"}
SpellingLower == [l \in TwoSpellings |-> "abc"]

\* Ids that are written in lower case are their own keys.
LowerIds == [l \in Label |-> l]

Peers       == Permutations(Peer)
PeersAndIds == Permutations(Peer) \cup Permutations(SessionId)
=============================================================================
