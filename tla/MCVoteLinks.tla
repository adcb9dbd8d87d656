----------------------------- MODULE MCVoteLinks -----------------------------
(***************************************************************************)
(* VoteLinks for TLC: a ballot in each of two votes.                       *)
(***************************************************************************)
EXTENDS VoteLinks, TLC

CONSTANTS v1, v2, b1, b2

MCVoteOf == [b \in {b1, b2} \cap Ballot |-> IF b = b1 THEN v1 ELSE v2]

Symmetries == Permutations(SigningKey) \cup Permutations(Replica)
=============================================================================
