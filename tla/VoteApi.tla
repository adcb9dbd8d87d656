------------------------------ MODULE VoteApi -------------------------------
(***************************************************************************)
(* One instance of the voting API between its callers and ITX.             *)
(*                                                                         *)
(* Every request runs through the generated server (decode, authenticate), *)
(* the API layer (convert) and a service method, which translates IDs with *)
(* the ID mapper and calls ITX; its answer is encoded by the server and    *)
(* read by the generated client.  ITX keeps the votes.  A call of ITX is a *)
(* message: it may be carried out and its answer lost, and it may be       *)
(* carried out after the client has given up on it.                        *)
(*                                                                         *)
(* Beside the requests, the instance handles acceptances of invites, by    *)
(* another call of ITX, and is stopped: it first stops these handlers and  *)
(* then waits for the requests in progress.                                *)
(***************************************************************************)
EXTENDS VoteLife, VoteWire, Sequences, Naturals

CONSTANTS Requests,      \* requests, made at most once each
          Votes,         \* votes
          Acceptances,   \* acceptances of invites the invite service may publish
          Asks           \* what each request may ask for

Request == [method : Methods, vote : Votes, from : {"cli", "program"}, bad : SUBSET Flaws]

\* A request has the flaws its client may make; the command line sends nothing
\* that its own checks refuse.
CanSend(q) == /\ q.bad \subseteq Client[q.method].sends
              /\ q.from = "cli" => q.bad \intersect CommandLine[q.method] = {}

ASSUME AsksAssumption == Asks \in [Requests -> SUBSET Request]

VARIABLES poll,      \* ITX: the state of each vote
          ballot,    \* ITX: the state of its ballot
          req,       \* what each request asks for
          at,        \* how far the handler is in the flow of its method
          call,      \* the call of ITX in progress, or its answer
          seen,      \* the status of the vote the handler has read
          result,    \* what the handler has come to
          out,       \* what the caller was told
          took,      \* whether ITX has carried out the request's main call
          proc,      \* the process: "serving", "stopping", "exited" or "killed"
          acc,       \* the handling of each acceptance
          enriched   \* ITX: the acceptances applied to the voter's ballots

reqVars == <<req, at, call, seen, result, out, took>>
itxVars == <<poll, ballot>>
accVars == <<acc, enriched>>
vars == <<poll, ballot, req, at, call, seen, result, out, took, proc, acc, enriched>>

NoRequest == [method |-> "none"]

\* Errors of the domain layer, and the ways a handler ends without reaching it.
DomainErrors == {"Validation", "NotFound", "Conflict", "Unavailable", "Internal"}
Results == {"ok", "undecodable", "unauthenticated", "panic"} \union DomainErrors

-----------------------------------------------------------------------------
(***************************************************************************)
(* The steps of each method once the server has admitted the request:      *)
(*   ids      the request's UIDs, by the ID mapper                         *)
(*   links    a signed link for every recipient                            *)
(*   token    verify the signed link the request came by                   *)
(*   status   ITX: read the vote, which must not be disabled               *)
(*   ballot   ITX: read the ballot, which must belong to the vote          *)
(*   call     ITX: the call the method is for                              *)
(*   uids     the IDs in ITX's answer, by the ID mapper                    *)
(***************************************************************************)
CreateVote == <<"ids", "call", "uids">>
GetVote == <<"call", "uids">>
UpdateVote == <<"ids", "call", "uids">>
DeleteVote == <<"call">>
ExtendVote == <<"call", "uids">>
EndVote == <<"status", "call", "uids">>
EnableVote == <<"call">>
BulkResendVote == <<"links", "call">>
GetVoteResults == <<"call">>
CreateVoteResponse == <<"call">>
GetVoteResponse == <<"call", "uids">>
UpdateVoteResponse == <<"call">>
CreateVoteResponseByLink == <<"token", "call">>
UpdateVoteResponseByLink == <<"token", "call">>
GetBallotByLink == <<"token", "ballot", "call", "uids">>
ResendVoteResponse == <<"call">>

Flow == [
  CreateVote |-> CreateVote, GetVote |-> GetVote, UpdateVote |-> UpdateVote,
  DeleteVote |-> DeleteVote, ExtendVote |-> ExtendVote, EndVote |-> EndVote,
  EnableVote |-> EnableVote, BulkResendVote |-> BulkResendVote,
  GetVoteResults |-> GetVoteResults, CreateVoteResponse |-> CreateVoteResponse,
  GetVoteResponse |-> GetVoteResponse, UpdateVoteResponse |-> UpdateVoteResponse,
  CreateVoteResponseByLink |-> CreateVoteResponseByLink,
  UpdateVoteResponseByLink |-> UpdateVoteResponseByLink,
  GetVoteBallotByLink |-> GetBallotByLink, ResendVoteResponse |-> ResendVoteResponse]

\* The calls of ITX the client makes, and what each reads of a successful
\* answer: a body it parses, or nothing.
CreatePoll == [parses |-> TRUE]
GetPoll == [parses |-> TRUE]
UpdatePoll == [parses |-> TRUE]
DeletePoll == [parses |-> FALSE]
ExtendPoll == [parses |-> TRUE]
EndPoll == [parses |-> TRUE]
EnablePoll == [parses |-> FALSE]
BulkResendPoll == [parses |-> FALSE]
GetPollResults == [parses |-> TRUE]
SubmitVote == [parses |-> FALSE]
ReadVote == [parses |-> TRUE]
ReplaceVote == [parses |-> FALSE]
ResendVote == [parses |-> FALSE]

\* The main call of each method.
Proxies == [
  CreateVote |-> CreatePoll, GetVote |-> GetPoll, UpdateVote |-> UpdatePoll,
  DeleteVote |-> DeletePoll, ExtendVote |-> ExtendPoll, EndVote |-> EndPoll,
  EnableVote |-> EnablePoll, BulkResendVote |-> BulkResendPoll,
  GetVoteResults |-> GetPollResults, CreateVoteResponse |-> SubmitVote,
  GetVoteResponse |-> ReadVote, UpdateVoteResponse |-> ReplaceVote,
  CreateVoteResponseByLink |-> SubmitVote, UpdateVoteResponseByLink |-> ReplaceVote,
  GetVoteBallotByLink |-> GetPoll, ResendVoteResponse |-> ResendVote]

ItxSteps == {"status", "ballot", "call"}

Method(r) == req[r].method
Step(r) == Flow[Method(r)][at[r]]
Proxied(r) == CASE Step(r) = "status" -> GetPoll
                [] Step(r) = "ballot" -> ReadVote
                [] Step(r) = "call"   -> Proxies[Method(r)]

\* The handler of r is at work; a process that is gone handles nothing.
Running(r) == at[r] > 0 /\ result[r] = "none" /\ proc \in {"serving", "stopping"}

-----------------------------------------------------------------------------
Init ==
  /\ \E life \in [Votes -> Lives] :
       /\ poll = [v \in Votes |-> life[v][1]]
       /\ ballot = [v \in Votes |-> life[v][2]]
  /\ req = [r \in Requests |-> NoRequest]
  /\ at = [r \in Requests |-> 0]
  /\ call = [r \in Requests |-> "none"]
  /\ seen = [r \in Requests |-> "none"]
  /\ result = [r \in Requests |-> "none"]
  /\ out = [r \in Requests |-> "none"]
  /\ took = [r \in Requests |-> FALSE]
  /\ proc = "serving"
  /\ acc \in [Acceptances -> {"none", "published"}]
  /\ enriched = {}

\* ITX gives a vote that is created an ID of its own.
Unclaimed(v) == /\ poll[v] = "absent"
                /\ \A r \in Requests : req[r] # NoRequest => ~(Method(r) = "CreateVote" /\ req[r].vote = v)

\* A caller sends a request.
Send(r) ==
  /\ req[r] = NoRequest
  /\ proc = "serving"
  /\ \E q \in Asks[r] :
       /\ CanSend(q)
       /\ q.method = "CreateVote" => Unclaimed(q.vote)
       /\ req' = [req EXCEPT ![r] = q]
  /\ UNCHANGED <<itxVars, at, call, seen, result, out, took, proc, accVars>>

(***************************************************************************)
(* A handler passes to its next step, or ends with a result.               *)
(***************************************************************************)
Continue(r) ==
  /\ IF at[r] < Len(Flow[Method(r)])
       THEN at' = [at EXCEPT ![r] = @ + 1] /\ UNCHANGED result
       ELSE result' = [result EXCEPT ![r] = "ok"] /\ UNCHANGED at
  /\ UNCHANGED <<req, out, took, itxVars, proc, accVars>>

Fail(r, e) ==
  /\ result' = [result EXCEPT ![r] = e]
  /\ UNCHANGED <<req, at, out, took, itxVars, proc, accVars>>

AtStep(r, steps) == Running(r) /\ Step(r) \in steps

\* The server decodes the request and authenticates its caller, the API layer
\* converts the lists in its body.  The converters of ballots refuse a null entry;
\* those of votes do not expect one and panic, and the server closes the connection.
NullEntry(m) == IF m \in {"CreateVote", "UpdateVote"} THEN "panic" ELSE "Validation"

Admit(r) ==
  /\ req[r] # NoRequest
  /\ at[r] = 0
  /\ result[r] = "none"
  /\ proc \in {"serving", "stopping"}
  /\ LET m == Method(r)
         bad == req[r].bad
     IN  CASE bad \intersect Server[m].checks # {} -> Fail(r, "undecodable")
           [] "token" \in bad                      -> Fail(r, "unauthenticated")
           [] "entries" \in bad                    -> Fail(r, NullEntry(m))
           [] OTHER                                -> Continue(r)
  /\ UNCHANGED <<call, seen>>

\* The ID mapper translates, is unavailable, or does not know the ID.
Lookup(r) ==
  /\ AtStep(r, {"ids", "uids"})
  /\ Continue(r) \/ \E e \in {"Unavailable", "Validation"} : Fail(r, e)
  /\ UNCHANGED <<call, seen>>

\* Links are not configured, no recipient or an empty one is named, or signing fails.
BuildLinks(r) ==
  /\ AtStep(r, {"links"})
  /\ Continue(r) \/ \E e \in {"Unavailable", "Validation", "Internal"} : Fail(r, e)
  /\ UNCHANGED <<call, seen>>

VerifyLink(r) ==
  /\ AtStep(r, {"token"})
  /\ Continue(r) \/ \E e \in {"Unavailable", "NotFound"} : Fail(r, e)
  /\ UNCHANGED <<call, seen>>

(***************************************************************************)
(* A call of ITX.  ITX carries it out or refuses it, at any time after it  *)
(* was sent; it may carry it out when the client no longer waits for it.   *)
(***************************************************************************)
SendCall(r) ==
  /\ AtStep(r, ItxSteps)
  /\ call[r] = "none"
  /\ call' = [call EXCEPT ![r] = "sent"]
  /\ UNCHANGED <<req, at, seen, result, out, took, itxVars, proc, accVars>>

\* The answers to a call that was carried out: complete, with a body that is
\* not the expected JSON, with a body that breaks off, or an error all the same.
\* A 401 or 403 is to the client what a 500 is; a 429 or 503 ends as GiveUp does.
CarriedOut == {"2xx", "garbled", "cut", "500"}
Refused == {"400", "404", "409", "500", "cut"}

ItxReads(r) ==
  /\ call[r] = "sent"
  /\ result[r] = "none"
  /\ Step(r) \in {"status", "ballot"}
  /\ LET v == req[r].vote
     IN  /\ IF Step(r) = "status" THEN poll[v] \in Present ELSE ballot[v] # "none"
         /\ seen' = IF Step(r) = "status" THEN [seen EXCEPT ![r] = poll[v]] ELSE seen
  /\ \E a \in CarriedOut : call' = [call EXCEPT ![r] = a]
  /\ UNCHANGED <<req, at, result, out, took, itxVars, proc, accVars>>

ItxTakes(r) ==
  /\ call[r] = "sent"
  /\ Step(r) = "call"
  /\ LET m == Method(r)
         v == req[r].vote
     IN  /\ Permits(m, poll[v], ballot[v])
         /\ poll' = [poll EXCEPT ![v] = PollAfter(m, @)]
         /\ ballot' = [ballot EXCEPT ![v] = BallotAfter(m, @)]
  /\ took' = [took EXCEPT ![r] = TRUE]
  /\ \E a \in IF result[r] = "none" THEN CarriedOut ELSE {"none"} : call' = [call EXCEPT ![r] = a]
  /\ UNCHANGED <<req, at, seen, result, out, proc, accVars>>

ItxRefuses(r) ==
  /\ call[r] = "sent"
  /\ result[r] = "none"
  /\ \E a \in Refused :
       /\ a = "404" => poll[req[r].vote] \notin Present \/ ballot[req[r].vote] = "none"
       /\ call' = [call EXCEPT ![r] = a]
  /\ UNCHANGED <<req, at, seen, result, out, took, itxVars, proc, accVars>>

\* Mutant: a status the client has no error for is passed on.
MapHTTPErrorRaw(a) ==
  CASE a = "400" -> "Validation"
    [] a = "404" -> "NotFound"
    [] a = "409" -> "Conflict"
    [] OTHER     -> a

\* mapHTTPError
MapHTTPError(a) ==
  CASE a = "400" -> "Validation"
    [] a = "404" -> "NotFound"
    [] a = "409" -> "Conflict"
    [] a = "500" -> "Internal"

\* Mutant: the status is looked at although the body has broken off.
ErrorOfStatus(r) ==
  CASE call[r] = "cut"     -> "NotFound"
    [] call[r] = "garbled" -> IF Proxied(r).parses THEN "Internal" ELSE "none"
    [] call[r] = "2xx"     -> "none"
    [] OTHER               -> MapHTTPError(call[r])

\* The error the client makes of an answer, "none" for a success.  A body that
\* breaks off is an error before its status is looked at.
ErrorOf(r) ==
  CASE call[r] = "cut"     -> "Internal"
    [] call[r] = "garbled" -> IF Proxied(r).parses THEN "Internal" ELSE "none"
    [] call[r] = "2xx"     -> "none"
    [] OTHER               -> MapHTTPError(call[r])

\* Mutant: only the ballot is looked at.
ObjectionsToBallot(r) == IF Step(r) = "ballot" THEN {"none", "NotFound"} ELSE {"none"}

\* What the service makes of a vote or a ballot it has read before its call.
Objections(r) ==
  CASE Step(r) = "status" -> IF seen[r] = "disabled" THEN {"Conflict"} ELSE {"none"}
    [] Step(r) = "ballot" -> {"none", "NotFound"}
    [] OTHER              -> {"none"}

Return(r) ==
  /\ AtStep(r, ItxSteps)
  /\ call[r] \notin {"none", "sent"}
  /\ \E e \in IF ErrorOf(r) = "none" THEN Objections(r) ELSE {ErrorOf(r)} :
       IF e = "none" THEN Continue(r) ELSE Fail(r, e)
  /\ call' = [call EXCEPT ![r] = "none"]
  /\ seen' = [seen EXCEPT ![r] = "none"]

\* Mutant: the client waits for an answer without a timeout.
GiveUpAnswered(r) ==
  /\ AtStep(r, ItxSteps)
  /\ call[r] \notin {"none", "sent"}
  /\ Fail(r, "Unavailable")
  /\ call' = [call EXCEPT ![r] = "none"]
  /\ seen' = [seen EXCEPT ![r] = "none"]

\* The client's timeout, a connection that breaks, a token that cannot be had,
\* or a caller that hangs up: the call is given up, and what ITX does or has done
\* about it is not known.
GiveUp(r) ==
  /\ AtStep(r, ItxSteps)
  /\ call[r] # "none"
  /\ Fail(r, "Unavailable")
  /\ call' = IF call[r] = "sent" THEN call ELSE [call EXCEPT ![r] = "none"]
  /\ seen' = [seen EXCEPT ![r] = "none"]

-----------------------------------------------------------------------------
\* The errors of the API for those of the domain.
HandleError(e) ==
  CASE e = "Validation"  -> "BadRequest"
    [] e = "NotFound"    -> "NotFound"
    [] e = "Conflict"    -> "Conflict"
    [] e = "Unavailable" -> "ServiceUnavailable"
    [] OTHER             -> "InternalServerError"

\* The server's answer.  A request that was not authenticated ends with a domain
\* error outside the API layer, of which the server knows nothing.
Response(r) ==
  CASE result[r] = "ok"              -> Result(Method(r))
    [] result[r] = "undecodable"     -> Undecodable
    [] result[r] = "unauthenticated" -> Unnamed
    [] OTHER                         -> Refusal(Method(r), HandleError(result[r]))

\* What the caller learns.  A result may hold a value of ITX's that the client
\* does not accept; an answer is lost if the caller has hung up, if it comes
\* after the server's write deadline, or if the handler has panicked.
Learns(r) ==
  {"lost"} \union
  IF result[r] = "panic" THEN {}
  ELSE {Understands(Method(r), Response(r))}
         \union IF result[r] = "ok" /\ ResultFlaws \intersect Client[Method(r)].reads.result # {}
                  THEN {"unreadable"} ELSE {}

Answer(r) ==
  /\ result[r] # "none"
  /\ out[r] = "none"
  /\ proc \in {"serving", "stopping"}
  /\ \E o \in Learns(r) : out' = [out EXCEPT ![r] = o]
  /\ UNCHANGED <<req, at, call, seen, result, took, itxVars, proc, accVars>>

-----------------------------------------------------------------------------
(***************************************************************************)
(* Acceptances of invites.  They come over core NATS, which delivers each  *)
(* once or not at all; their handlers run under the subscriber's context.  *)
(***************************************************************************)
Deliver(e) ==
  /\ proc = "serving"
  /\ acc[e] = "published"
  /\ acc' = [acc EXCEPT ![e] = "handling"]
  /\ UNCHANGED <<reqVars, itxVars, proc, enriched>>

\* An event that cannot be parsed, or lacks its email or username, is discarded;
\* once the subscriber has been stopped its context is cancelled, and no call is sent.
ProcessInviteAccepted(e) ==
  /\ acc[e] = "handling"
  /\ proc \in {"serving", "stopping"}
  /\ \E s \in IF proc = "serving" THEN {"calling", "discarded"} ELSE {"aborted", "discarded"} :
       acc' = [acc EXCEPT ![e] = s]
  /\ UNCHANGED <<reqVars, itxVars, proc, enriched>>

\* ITX applies an acceptance whose call was sent, even if it was given up.
ItxEnriches(e) ==
  /\ acc[e] \in {"calling", "failed"}
  /\ e \notin enriched
  /\ enriched' = enriched \union {e}
  /\ UNCHANGED <<reqVars, itxVars, proc, acc>>

\* Best effort: a call that fails, outlives its 30 seconds or is cut short by the
\* cancelled context is logged and not repeated.
AcceptInvite(e) ==
  /\ acc[e] = "calling"
  /\ proc \in {"serving", "stopping"}
  /\ \/ e \in enriched /\ acc' = [acc EXCEPT ![e] = "complete"]
     \/ acc' = [acc EXCEPT ![e] = "failed"]
  /\ UNCHANGED <<reqVars, itxVars, proc, enriched>>

-----------------------------------------------------------------------------
(***************************************************************************)
(* The process.  On a signal, main stops the subscriber - whose Drain only *)
(* begins to drain, so that its context is cancelled under the handlers in *)
(* progress - and then shuts the server down, which takes no new request   *)
(* and waits up to 30 seconds for those in progress.                       *)
(***************************************************************************)
Stop ==
  /\ proc = "serving"
  /\ proc' = "stopping"
  /\ UNCHANGED <<reqVars, itxVars, accVars>>

Exit ==
  /\ proc = "stopping"
  /\ \A r \in Requests : req[r] # NoRequest => out[r] # "none"
  /\ proc' = "exited"
  /\ UNCHANGED <<reqVars, itxVars, accVars>>

\* The 30 seconds have passed, or the instance dies.
Kill ==
  /\ proc \in {"serving", "stopping"}
  /\ proc' = "killed"
  /\ UNCHANGED <<reqVars, itxVars, accVars>>

-----------------------------------------------------------------------------
\* The steps of a request's handler, and of an acceptance's.
Serve(r) ==
  \/ Admit(r) \/ Lookup(r) \/ BuildLinks(r) \/ VerifyLink(r)
  \/ SendCall(r) \/ Return(r) \/ GiveUp(r) \/ Answer(r)

HandleAcceptance(e) == ProcessInviteAccepted(e) \/ AcceptInvite(e)

Next ==
  \/ \E r \in Requests :
       Send(r) \/ Serve(r) \/ ItxReads(r) \/ ItxTakes(r) \/ ItxRefuses(r)
  \/ \E e \in Acceptances : Deliver(e) \/ HandleAcceptance(e) \/ ItxEnriches(e)
  \/ Stop \/ Exit \/ Kill

(***************************************************************************)
(* Handlers make progress as long as the process lives.  For a call of ITX *)
(* that is its client's timeout and not ITX, of which nothing is assumed;  *)
(* for the ID mapper it is an assumption on the mapper, or on the caller   *)
(* to hang up, since the lookup has no timeout of its own.                 *)
(***************************************************************************)
Fairness == /\ \A r \in Requests : WF_vars(Serve(r))
            /\ \A e \in Acceptances : WF_vars(HandleAcceptance(e))

Spec == Init /\ [][Next]_vars /\ Fairness

-----------------------------------------------------------------------------
TypeOK ==
  /\ poll \in [Votes -> PollStates]
  /\ ballot \in [Votes -> BallotStates]
  /\ req \in [Requests -> Request \union {NoRequest}]
  /\ at \in [Requests -> Nat]
  /\ \A r \in Requests : at[r] # 0 => req[r] # NoRequest /\ at[r] \in DOMAIN Flow[Method(r)]
  /\ call \in [Requests -> {"none", "sent"} \union CarriedOut \union Refused]
  /\ seen \in [Requests -> {"none"} \union Present]
  /\ result \in [Requests -> {"none"} \union Results]
  /\ out \in [Requests -> {"none", "done", "unreadable", "lost"} \union WithConflict]
  /\ took \in [Requests -> BOOLEAN]
  /\ proc \in {"serving", "stopping", "exited", "killed"}
  /\ acc \in [Acceptances -> {"none", "published", "handling", "calling", "discarded", "aborted", "failed", "complete"}]
  /\ enriched \subseteq Acceptances

(***************************************************************************)
(* No call to end a vote is ever on its way to ITX, not even one that was  *)
(* given up, while the vote is disabled: EndVote reads the status first,   *)
(* and what it has read cannot become false.                               *)
(***************************************************************************)
DisabledNeverEnded ==
  \A r \in Requests :
    (call[r] = "sent" /\ Method(r) = "EndVote" /\ Step(r) = "call")
      => poll[req[r].vote] \in {"active", "ended"}

(***************************************************************************)
(* What the command line has accepted the server can decode.               *)
(***************************************************************************)
CommandLineDecodes ==
  \A r \in Requests : result[r] = "undecodable" => req[r].from = "program"

(***************************************************************************)
(* The API is a ledger of requests: at most one effect each, and answers   *)
(* that mean what they say, also after calls that were given up.           *)
(***************************************************************************)
Quiet == {m \in Methods : Server[m].ok = "NoContent"}

Ledger == INSTANCE VoteLedger WITH
  Errors <- WithConflict,
  asked <- [r \in Requests |-> IF req[r] = NoRequest THEN NoRequest
                               ELSE [method |-> Method(r), vote |-> req[r].vote]]

ImplementsLedger == Ledger!Spec

(***************************************************************************)
(* Every request is answered and every acceptance handled to its end,      *)
(* however long ITX takes, unless the process is killed under it.          *)
(***************************************************************************)
HandlersEnd ==
  /\ \A r \in Requests : req[r] # NoRequest ~> out[r] # "none" \/ proc = "killed"
  /\ \A e \in Acceptances :
       acc[e] = "handling" ~> acc[e] \notin {"handling", "calling"} \/ proc \in {"exited", "killed"}
=============================================================================
