----------------------------- MODULE MCEventSync -----------------------------
(***************************************************************************)
(* EventSync for TLC: one vote, one response to it and its result, and the *)
(* replicas interchangeable.                                               *)
(***************************************************************************)
EXTENDS EventSync, TLC

CONSTANTS v1, r1, s1, VoteRevisions, ResponseRevisions, ResultRevisions

MCParentOf == [c \in {r1, s1} \cap Child |-> v1]

MCMaxRevisions ==
  [k \in Key |-> IF k \in Vote THEN VoteRevisions
                 ELSE IF k \in Response THEN ResponseRevisions
                 ELSE ResultRevisions]

Replicas == Permutations(Replica)
=============================================================================
