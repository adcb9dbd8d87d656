----------------------------- MODULE VoteLedger -----------------------------
(***************************************************************************)
(* What the voting API promises its callers: each request takes effect on  *)
(* its vote at most once, at one moment after it was made, and an answer   *)
(* says what it means.  "done" means that the request has taken effect;    *)
(* a refusal means that it has not and never will; any other answer, and   *)
(* no answer, means neither: the request may still take effect after the   *)
(* caller has given up on it.                                              *)
(***************************************************************************)
EXTENDS VoteLife

CONSTANTS Requests, Votes,
          Methods,   \* what a request may ask for
          Quiet,     \* the methods that have no result to return
          Errors     \* the errors a caller may be told of

VARIABLES poll,     \* the state of each vote
          ballot,   \* and of its ballot
          asked,    \* what each request asks for
          took,     \* whether it has taken effect
          out       \* what its caller was told

vars == <<poll, ballot, asked, took, out>>

Nothing == [method |-> "none"]

\* The answers a caller may take for "this has not happened and will not".  A
\* method with a result translates it after the fact, and may fail in that.
Refusals(m) ==
  {"NotFound", "Conflict"}
    \union IF m \in Quiet THEN {"BadRequest", "unreadable"} ELSE {}

Init ==
  /\ \E life \in [Votes -> Lives] :
       /\ poll = [v \in Votes |-> life[v][1]]
       /\ ballot = [v \in Votes |-> life[v][2]]
  /\ asked = [r \in Requests |-> Nothing]
  /\ took = [r \in Requests |-> FALSE]
  /\ out = [r \in Requests |-> "none"]

Ask(r) ==
  /\ asked[r] = Nothing
  /\ \E m \in Methods, v \in Votes : asked' = [asked EXCEPT ![r] = [method |-> m, vote |-> v]]
  /\ UNCHANGED <<poll, ballot, took, out>>

Take(r) ==
  /\ asked[r] # Nothing
  /\ ~took[r]
  /\ out[r] \notin Refusals(asked[r].method)
  /\ LET m == asked[r].method
         v == asked[r].vote
     IN  /\ Permits(m, poll[v], ballot[v])
         /\ poll' = [poll EXCEPT ![v] = PollAfter(m, @)]
         /\ ballot' = [ballot EXCEPT ![v] = BallotAfter(m, @)]
  /\ took' = [took EXCEPT ![r] = TRUE]
  /\ UNCHANGED <<asked, out>>

Answer(r) ==
  /\ asked[r] # Nothing
  /\ out[r] = "none"
  /\ \E o \in {"done", "unreadable", "lost"} \union Errors :
       /\ o = "done" => took[r]
       /\ o \in Refusals(asked[r].method) => ~took[r]
       /\ out' = [out EXCEPT ![r] = o]
  /\ UNCHANGED <<poll, ballot, asked, took>>

Next == \E r \in Requests : Ask(r) \/ Take(r) \/ Answer(r)

Spec == Init /\ [][Next]_vars
=============================================================================
