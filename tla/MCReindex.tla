------------------------------ MODULE MCReindex ------------------------------
(***************************************************************************)
(* Reindex for TLC: a vote, two responses to it, and a run of the tool     *)
(* with one of the options below.                                          *)
(***************************************************************************)
EXTENDS Reindex

CONSTANTS v1, r1, r2, VoteRevisions, ResponseRevisions

MCParentOf == [c \in Child |-> v1]
MCMaxRevisions ==
  [k \in Key |-> IF k = v1 THEN VoteRevisions ELSE IF k = r1 THEN ResponseRevisions ELSE 1]

PrivacyPass == [apply |-> TRUE, pseudoOnly |-> TRUE, skipReindexed |-> FALSE, only |-> AllVotes]
RestOfGrants == [apply |-> TRUE, pseudoOnly |-> FALSE, skipReindexed |-> TRUE, only |-> v1]
Refused == [PrivacyPass EXCEPT !.skipReindexed = TRUE]

\* At first only the voter of r1 has a username. With the two documents of r2
\* a privacy pass stops, and a pass for grants goes on. r2 may be unmapped.
MCInit ==
  /\ ReindexInit
  /\ \A r \in Response : (log[r][1].user = NoUser <=> r = r2)
  /\ tool.mode = RestOfGrants => tool.copies = Copied
  /\ tool.mode = Refused => tool.copies = {}
  /\ tool.mode # PrivacyPass => log[v1][1].open
  /\ \A r \in Response : mapping[r] = "none" =>
       /\ r = r2 /\ ~log[v1][1].open
       /\ tool.mode = PrivacyPass /\ tool.copies = {}
MCSpec == MCInit /\ [][ReindexNext]_allVars

MCModes == {PrivacyPass, RestOfGrants, Refused}
=============================================================================
