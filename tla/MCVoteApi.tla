----------------------------- MODULE MCVoteApi ------------------------------
(***************************************************************************)
(* Instances of VoteApi for TLC.                                           *)
(***************************************************************************)
EXTENDS VoteApi, TLC

CONSTANTS r1, r2

WellFormed(methods, from) == [method : methods, vote : Votes, from : {from}, bad : {{}}]
Malformed(methods) == [method : methods, vote : Votes, from : {"cli", "program"}, bad : {{f} : f \in Flaws}]

\* One request is any, well-formed from the command line, or malformed in one
\* part, of three methods with every kind of part between them. The other is one
\* that changes the vote.
MCAsks ==
  (r1 :> (WellFormed(Methods, "cli")
            \union Malformed({"UpdateVote", "EndVote", "CreateVoteResponseByLink"})))
    @@ (r2 :> WellFormed({"EnableVote", "EndVote"}, "program"))

\* The states a vote may be in at first; the others are reached. An acceptance is
\* published beside a vote of which nothing can be asked any more.
MCLives == {<<"absent", "none">>, <<"disabled", "none">>, <<"active", "cast">>, <<"deleted", "none">>}
MCInit ==
  /\ Init
  /\ \A v \in Votes : <<poll[v], ballot[v]>> \in MCLives
  /\ \A e \in Acceptances : acc[e] = "published" <=> \A v \in Votes : poll[v] = "deleted"

\* Acceptances and requests share only the process they are handled by, and a
\* malformed request never reaches ITX: beside either there is one request.
Alone == req'[r1] # NoRequest /\ req'[r1].bad # {}
MCNext ==
  /\ Next
  /\ req'[r2] # NoRequest => ~Alone /\ \A e \in Acceptances : acc[e] = "none"

MCSpec == MCInit /\ [][MCNext]_vars /\ Fairness
=============================================================================
