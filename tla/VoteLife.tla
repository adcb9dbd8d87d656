------------------------------ MODULE VoteLife ------------------------------
(***************************************************************************)
(* The life of a vote in ITX, as docs/api-contracts.md describes it and as *)
(* this service relies on it: a vote is created disabled, may be edited or *)
(* deleted only while disabled, is enabled once, ends, and may be extended *)
(* again.  Its ballots exist from when it is enabled, and are cast and     *)
(* changed while it is active.  ITX is not part of this repository.        *)
(***************************************************************************)
PollStates == {"absent", "disabled", "active", "ended", "deleted"}
BallotStates == {"none", "awaiting", "cast"}

Present == {"disabled", "active", "ended"}

Casts == {"CreateVoteResponse", "CreateVoteResponseByLink"}
Changes == {"UpdateVoteResponse", "UpdateVoteResponseByLink"}

\* Whether the main call of method m is possible for a vote in state p whose
\* ballot is in state b.
Permits(m, p, b) ==
  \/ m = "CreateVote" /\ p = "absent"
  \/ m \in {"UpdateVote", "DeleteVote", "EnableVote"} /\ p = "disabled"
  \/ m \in {"ExtendVote", "EndVote"} /\ p \in {"active", "ended"}
  \/ m \in {"GetVote", "GetVoteResults", "BulkResendVote", "GetVoteBallotByLink"} /\ p \in Present
  \/ m \in Casts /\ p = "active" /\ b = "awaiting"
  \/ m \in Changes /\ p = "active" /\ b = "cast"
  \/ m \in {"GetVoteResponse", "ResendVoteResponse"} /\ b # "none"

\* What it makes of the vote and of the ballot.
PollAfter(m, p) ==
  CASE m = "CreateVote"                  -> "disabled"
    [] m = "DeleteVote"                  -> "deleted"
    [] m \in {"EnableVote", "ExtendVote"} -> "active"
    [] m = "EndVote"                     -> "ended"
    [] OTHER                             -> p

BallotAfter(m, b) ==
  CASE m = "EnableVote" -> "awaiting"
    [] m \in Casts      -> "cast"
    [] OTHER            -> b

\* The states in which a vote and its ballot can be found.
Lives == {life \in PollStates \X BallotStates :
            life[2] = "none" <=> life[1] \in {"absent", "disabled", "deleted"}}
=============================================================================
