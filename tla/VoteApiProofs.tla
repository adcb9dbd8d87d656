--------------------------- MODULE VoteApiProofs ----------------------------
(***************************************************************************)
(* Proofs about VoteApi, for any set of requests, votes and acceptances.   *)
(***************************************************************************)
EXTENDS VoteApi, TLAPS

-----------------------------------------------------------------------------
(***************************************************************************)
(* The tables of the methods.                                              *)
(***************************************************************************)
MethodNames ==
  {"CreateVote", "GetVote", "UpdateVote", "DeleteVote", "ExtendVote", "EndVote",
   "EnableVote", "BulkResendVote", "GetVoteResults", "CreateVoteResponse",
   "GetVoteResponse", "UpdateVoteResponse", "CreateVoteResponseByLink",
   "UpdateVoteResponseByLink", "GetVoteBallotByLink", "ResendVoteResponse"}

\* The methods are the sixteen of the design.
LEMMA MethodsNamed == Methods = MethodNames
BY DEF Methods, MethodNames, Server

\* The client reads the statuses the server writes, a method without a result has
\* none to check, and the command line checks all that the server checks and its
\* client can get wrong.
LEMMA WireShape ==
  ASSUME NEW m \in Methods
  PROVE  /\ Server[m].ok \in {"Created", "OK", "NoContent"}
         /\ Server[m].errors \in {Declared, WithConflict}
         /\ Client[m].reads.ok = Server[m].ok
         /\ Client[m].reads.errors = Server[m].errors
         /\ Server[m].ok = "NoContent" => Client[m].reads.result = {}
         /\ Client[m].sends \intersect Server[m].checks \subseteq CommandLine[m]
<1>1. CASE m = "CreateVote"
  BY <1>1 DEF Server, Client, CommandLine, ServesCreateVote, ReadsCreateVote, BuildsCreateVote, SendsCreateVote,
    CreateVoteRequest, PollQuestionRequest, PollChoiceRequest, PollCommentPromptRequest, PollQuestionArgument, PollChoiceArgument
<1>2. CASE m = "GetVote"
  BY <1>2 DEF Server, Client, CommandLine, ServesGetVote, ReadsGetVote, BuildsGetVote, SendsGetVote
<1>3. CASE m = "UpdateVote"
  BY <1>3 DEF Server, Client, CommandLine, ServesUpdateVote, ReadsUpdateVote, BuildsUpdateVote, SendsUpdateVote,
    UpdateVoteRequest, PollQuestionRequest, PollChoiceRequest, PollCommentPromptRequest, PollQuestionArgument, PollChoiceArgument
<1>4. CASE m = "DeleteVote"
  BY <1>4 DEF Server, Client, CommandLine, ServesDeleteVote, ReadsDeleteVote, BuildsDeleteVote, SendsDeleteVote
<1>5. CASE m = "ExtendVote"
  BY <1>5 DEF Server, Client, CommandLine, ServesExtendVote, ReadsExtendVote, BuildsExtendVote, SendsExtendVote,
    ExtendVoteRequest
<1>6. CASE m = "EndVote"
  BY <1>6 DEF Server, Client, CommandLine, ServesEndVote, ReadsEndVote, BuildsEndVote, SendsEndVote
<1>7. CASE m = "EnableVote"
  BY <1>7 DEF Server, Client, CommandLine, ServesEnableVote, ReadsEnableVote, BuildsEnableVote, SendsEnableVote
<1>8. CASE m = "BulkResendVote"
  BY <1>8 DEF Server, Client, CommandLine, ServesBulkResendVote, ReadsBulkResendVote, BuildsBulkResendVote, SendsBulkResendVote,
    BulkResendVoteRequest
<1>9. CASE m = "GetVoteResults"
  BY <1>9 DEF Server, Client, CommandLine, ServesGetVoteResults, ReadsGetVoteResults, BuildsGetVoteResults, SendsGetVoteResults
<1>10. CASE m = "CreateVoteResponse"
  BY <1>10 DEF Server, Client, CommandLine, ServesCreateVoteResponse, ReadsCreateVoteResponse, BuildsCreateVoteResponse, SendsCreateVoteResponse,
    CreateVoteResponseRequest, VoteAnswerRequest, RankedChoiceRequest, CommentResponseRequest, VoteAnswerArgument, RankedChoiceArgument, CommentResponseArgument
<1>11. CASE m = "GetVoteResponse"
  BY <1>11 DEF Server, Client, CommandLine, ServesGetVoteResponse, ReadsGetVoteResponse, BuildsGetVoteResponse, SendsGetVoteResponse
<1>12. CASE m = "UpdateVoteResponse"
  BY <1>12 DEF Server, Client, CommandLine, ServesUpdateVoteResponse, ReadsUpdateVoteResponse, BuildsUpdateVoteResponse, SendsUpdateVoteResponse,
    UpdateVoteResponseRequest, VoteAnswerRequest, RankedChoiceRequest, CommentResponseRequest, VoteAnswerArgument, RankedChoiceArgument, CommentResponseArgument
<1>13. CASE m = "CreateVoteResponseByLink"
  BY <1>13 DEF Server, Client, CommandLine, ServesCreateVoteResponseByLink, ReadsCreateVoteResponseByLink, BuildsCreateVoteResponseByLink, SendsCreateVoteResponseByLink,
    CreateVoteResponseByLinkRequest, VoteAnswerRequest, RankedChoiceRequest, CommentResponseRequest, VoteAnswerArgument, RankedChoiceArgument, CommentResponseArgument
<1>14. CASE m = "UpdateVoteResponseByLink"
  BY <1>14 DEF Server, Client, CommandLine, ServesUpdateVoteResponseByLink, ReadsUpdateVoteResponseByLink, BuildsUpdateVoteResponseByLink, SendsUpdateVoteResponseByLink,
    UpdateVoteResponseByLinkRequest, VoteAnswerRequest, RankedChoiceRequest, CommentResponseRequest, VoteAnswerArgument, RankedChoiceArgument, CommentResponseArgument
<1>15. CASE m = "GetVoteBallotByLink"
  BY <1>15 DEF Server, Client, CommandLine, ServesGetVoteBallotByLink, ReadsGetVoteBallotByLink, BuildsGetVoteBallotByLink, SendsGetVoteBallotByLink,
    GetVoteBallotByLinkRequest
<1>16. CASE m = "ResendVoteResponse"
  BY <1>16 DEF Server, Client, CommandLine, ServesResendVoteResponse, ReadsResendVoteResponse, BuildsResendVoteResponse, SendsResendVoteResponse
<1> QED
  BY MethodsNamed, <1>1, <1>2, <1>3, <1>4, <1>5, <1>6, <1>7, <1>8, <1>9, <1>10, <1>11, <1>12, <1>13, <1>14, <1>15, <1>16
  DEF MethodNames

Shapes == {<<"call">>, <<"call", "uids">>, <<"ids", "call", "uids">>,
           <<"status", "call", "uids">>, <<"links", "call">>, <<"token", "call">>,
           <<"token", "ballot", "call", "uids">>}

\* A method's flow is of one of seven shapes, and one that ends with its call
\* if the method has no result.
LEMMA FlowShape ==
  ASSUME NEW m \in Methods
  PROVE  /\ Flow[m] \in Shapes
         /\ Server[m].ok = "NoContent" => Flow[m] \in {<<"call">>, <<"links", "call">>, <<"token", "call">>}
         /\ Flow[m][1] = "status" => m = "EndVote"
<1>1. CASE m = "CreateVote"
  BY <1>1 DEF Flow, Shapes, CreateVote, Server, ServesCreateVote
<1>2. CASE m = "GetVote"
  BY <1>2 DEF Flow, Shapes, GetVote, Server, ServesGetVote
<1>3. CASE m = "UpdateVote"
  BY <1>3 DEF Flow, Shapes, UpdateVote, Server, ServesUpdateVote
<1>4. CASE m = "DeleteVote"
  BY <1>4 DEF Flow, Shapes, DeleteVote, Server, ServesDeleteVote
<1>5. CASE m = "ExtendVote"
  BY <1>5 DEF Flow, Shapes, ExtendVote, Server, ServesExtendVote
<1>6. CASE m = "EndVote"
  BY <1>6 DEF Flow, Shapes, EndVote, Server, ServesEndVote
<1>7. CASE m = "EnableVote"
  BY <1>7 DEF Flow, Shapes, EnableVote, Server, ServesEnableVote
<1>8. CASE m = "BulkResendVote"
  BY <1>8 DEF Flow, Shapes, BulkResendVote, Server, ServesBulkResendVote
<1>9. CASE m = "GetVoteResults"
  BY <1>9 DEF Flow, Shapes, GetVoteResults, Server, ServesGetVoteResults
<1>10. CASE m = "CreateVoteResponse"
  BY <1>10 DEF Flow, Shapes, CreateVoteResponse, Server, ServesCreateVoteResponse
<1>11. CASE m = "GetVoteResponse"
  BY <1>11 DEF Flow, Shapes, GetVoteResponse, Server, ServesGetVoteResponse
<1>12. CASE m = "UpdateVoteResponse"
  BY <1>12 DEF Flow, Shapes, UpdateVoteResponse, Server, ServesUpdateVoteResponse
<1>13. CASE m = "CreateVoteResponseByLink"
  BY <1>13 DEF Flow, Shapes, CreateVoteResponseByLink, Server, ServesCreateVoteResponseByLink
<1>14. CASE m = "UpdateVoteResponseByLink"
  BY <1>14 DEF Flow, Shapes, UpdateVoteResponseByLink, Server, ServesUpdateVoteResponseByLink
<1>15. CASE m = "GetVoteBallotByLink"
  BY <1>15 DEF Flow, Shapes, GetBallotByLink, Server, ServesGetVoteBallotByLink
<1>16. CASE m = "ResendVoteResponse"
  BY <1>16 DEF Flow, Shapes, ResendVoteResponse, Server, ServesResendVoteResponse
<1> QED
  BY MethodsNamed, <1>1, <1>2, <1>3, <1>4, <1>5, <1>6, <1>7, <1>8, <1>9, <1>10, <1>11, <1>12, <1>13, <1>14, <1>15, <1>16
  DEF MethodNames

StepNames == {"ids", "links", "token", "status", "ballot", "call", "uids"}

\* The main call is made once; what comes after it is the translation of its answer.
LEMMA ShapeSteps ==
  ASSUME NEW f \in Shapes
  PROVE  /\ Len(f) \in Nat \ {0}
         /\ DOMAIN f = 1..Len(f)
         /\ \A i \in 1..Len(f) : f[i] \in StepNames
         /\ f[1] # "uids"
         /\ f[Len(f)] \in {"call", "uids"}
         /\ \A i \in 1..Len(f) :
              i < Len(f) => f[i] # "uids" /\ (f[i] = "call" <=> f[i + 1] = "uids")
         /\ \A i \in 1..Len(f) : f[i] = "status" => i = 1
<1>1. CASE f = <<"call">>
  <2>1. Len(f) = 1 /\ DOMAIN f = 1..1 /\ 1..1 = {1}
    BY <1>1
  <2>2. f[1] = "call"
    BY <1>1
  <2> QED
    BY <2>1, <2>2 DEF StepNames
<1>2. CASE f = <<"call", "uids">>
  <2>1. Len(f) = 2 /\ DOMAIN f = 1..2 /\ 1..2 = {1, 2}
    BY <1>2
  <2>2. f[1] = "call" /\ f[2] = "uids"
    BY <1>2
  <2> QED
    BY <2>1, <2>2 DEF StepNames
<1>3. CASE f = <<"ids", "call", "uids">>
  <2>1. Len(f) = 3 /\ DOMAIN f = 1..3 /\ 1..3 = {1, 2, 3}
    BY <1>3
  <2>2. f[1] = "ids" /\ f[2] = "call" /\ f[3] = "uids"
    BY <1>3
  <2> QED
    BY <2>1, <2>2 DEF StepNames
<1>4. CASE f = <<"status", "call", "uids">>
  <2>1. Len(f) = 3 /\ DOMAIN f = 1..3 /\ 1..3 = {1, 2, 3}
    BY <1>4
  <2>2. f[1] = "status" /\ f[2] = "call" /\ f[3] = "uids"
    BY <1>4
  <2> QED
    BY <2>1, <2>2 DEF StepNames
<1>5. CASE f = <<"links", "call">>
  <2>1. Len(f) = 2 /\ DOMAIN f = 1..2 /\ 1..2 = {1, 2}
    BY <1>5
  <2>2. f[1] = "links" /\ f[2] = "call"
    BY <1>5
  <2> QED
    BY <2>1, <2>2 DEF StepNames
<1>6. CASE f = <<"token", "call">>
  <2>1. Len(f) = 2 /\ DOMAIN f = 1..2 /\ 1..2 = {1, 2}
    BY <1>6
  <2>2. f[1] = "token" /\ f[2] = "call"
    BY <1>6
  <2> QED
    BY <2>1, <2>2 DEF StepNames
<1>7. CASE f = <<"token", "ballot", "call", "uids">>
  <2>1. Len(f) = 4 /\ DOMAIN f = 1..4 /\ 1..4 = {1, 2, 3, 4}
    BY <1>7
  <2>2. f[1] = "token" /\ f[2] = "ballot" /\ f[3] = "call" /\ f[4] = "uids"
    BY <1>7
  <2> QED
    BY <2>1, <2>2 DEF StepNames
<1> QED
  BY <1>1, <1>2, <1>3, <1>4, <1>5, <1>6, <1>7 DEF Shapes

LEMMA FlowSteps ==
  ASSUME NEW m \in Methods
  PROVE  /\ Len(Flow[m]) \in Nat \ {0}
         /\ DOMAIN Flow[m] = 1..Len(Flow[m])
         /\ \A i \in 1..Len(Flow[m]) : Flow[m][i] \in StepNames
         /\ Flow[m][1] # "uids"
         /\ Flow[m][Len(Flow[m])] \in {"call", "uids"}
         /\ \A i \in 1..Len(Flow[m]) :
              i < Len(Flow[m]) => Flow[m][i] # "uids" /\ (Flow[m][i] = "call" <=> Flow[m][i + 1] = "uids")
BY FlowShape, ShapeSteps

\* A method without a result ends with its call.
LEMMA NoContentEndsWithCall ==
  ASSUME NEW m \in Methods, Server[m].ok = "NoContent",
         NEW i \in 1..Len(Flow[m])
  PROVE  Flow[m][i] # "uids"
<1>1. Flow[m] \in {<<"call">>, <<"links", "call">>, <<"token", "call">>}
  BY FlowShape
<1>2. CASE Flow[m] = <<"call">>
  BY <1>2
<1>3. CASE Flow[m] = <<"links", "call">>
  BY <1>3
<1>4. CASE Flow[m] = <<"token", "call">>
  BY <1>4
<1> QED
  BY <1>1, <1>2, <1>3, <1>4

\* Only EndVote reads the status of the vote first.
LEMMA StatusOnlyEndVote ==
  ASSUME NEW m \in Methods, NEW i \in 1..Len(Flow[m]), Flow[m][i] = "status"
  PROVE  m = "EndVote"
BY FlowShape, ShapeSteps

-----------------------------------------------------------------------------
(***************************************************************************)
(* The inductive invariant.                                                *)
(***************************************************************************)
At(r, steps) == at[r] > 0 /\ Step(r) \in steps

\* What a client sent is what a client can send; the call of ITX belongs to the
\* step the handler is at, and only a call that was given up outlives its handler.
HandlerInv(r) ==
  /\ req[r] # NoRequest => CanSend(req[r])
  /\ result[r] = "undecodable" => req[r].from = "program"
  /\ at[r] = 0 => call[r] = "none"
  /\ seen[r] # "none" => call[r] \notin {"none", "sent"}
  /\ call[r] # "none" => Step(r) \in ItxSteps
  /\ call[r] = "sent" => result[r] \in {"none", "Unavailable"}
  /\ call[r] \notin {"none", "sent"} => result[r] = "none"
  /\ result[r] \in {"undecodable", "unauthenticated", "panic"} => at[r] = 0
  /\ result[r] # "none" => req[r] # NoRequest
  /\ out[r] # "none" => result[r] # "none"

\* Whether ITX has taken the request, as far as the handler can tell.
EffectInv(r) ==
  /\ at[r] = 0 => ~took[r]
  /\ At(r, StepNames \ {"call", "uids"}) => ~took[r]
  /\ At(r, {"call"}) /\ call[r] \in {"sent", "400", "404", "409"} => ~took[r]
  /\ At(r, {"call"}) /\ call[r] \in {"2xx", "garbled"} => took[r]
  /\ At(r, {"call"}) /\ call[r] = "none" /\ result[r] = "none" => ~took[r]
  /\ At(r, {"uids"}) => took[r]
  /\ result[r] = "ok" => took[r]
  /\ result[r] \in {"NotFound", "Conflict"} => ~took[r]
  /\ result[r] = "Validation" /\ Server[Method(r)].ok = "NoContent" => ~took[r]
  /\ out[r] = "done" => took[r]
  /\ out[r] \in {"NotFound", "Conflict"} => ~took[r] /\ result[r] # "Unavailable"
  /\ out[r] \in {"BadRequest", "unreadable"} /\ Server[Method(r)].ok = "NoContent"
       => ~took[r] /\ result[r] # "Unavailable"

\* A vote that EndVote found enabled stays so.
Enabled(r) == poll[req[r].vote] \in {"active", "ended"}
StatusInv(r) ==
  at[r] > 0 /\ Method(r) = "EndVote" =>
    /\ Step(r) = "status" /\ call[r] \in {"2xx", "garbled"} => seen[r] \in Present
    /\ seen[r] \in {"active", "ended"} => Enabled(r)
    /\ Step(r) \in {"call", "uids"} => Enabled(r)

ApiInv ==
  /\ TypeOK
  /\ \A r \in Requests : HandlerInv(r) /\ EffectInv(r) /\ StatusInv(r)

LEMMA SendInv ==
  ASSUME ApiInv, NEW r \in Requests, Send(r)
  PROVE  ApiInv'
<1> USE DEF ApiInv
<1>1. TypeOK'
  <2>1. PICK q \in Asks[r] : req' = [req EXCEPT ![r] = q]
    BY DEF Send
  <2>2. q \in Request
    BY AsksAssumption
  <2>3. at[r] = 0
    BY DEF TypeOK, Send
  <2>4. \A s \in Requests : at'[s] # 0 => req'[s] # NoRequest /\ at'[s] \in DOMAIN Flow[Method(s)']
    BY <2>1, <2>3 DEF TypeOK, Send, Method
  <2> QED
    BY <2>1, <2>2, <2>4 DEF TypeOK, Send, itxVars, accVars
<1>2. ASSUME NEW q \in Requests
      PROVE  (HandlerInv(q) /\ EffectInv(q) /\ StatusInv(q))'
  <2>1. HandlerInv(q)'
    BY <1>1, AsksAssumption, FlowSteps DEF TypeOK, HandlerInv, Send, Request, NoRequest, CanSend, Step, Method, reqVars, itxVars, accVars
  <2>2. EffectInv(q)'
    BY <1>1, FlowSteps DEF TypeOK, HandlerInv, EffectInv, At, Send, Request, NoRequest, CanSend, Step, Method, reqVars, itxVars, accVars
  <2>3. StatusInv(q)'
    BY <1>1, FlowSteps DEF TypeOK, HandlerInv, StatusInv, Enabled, Send, Request, NoRequest, CanSend, Step, Method, reqVars, itxVars, accVars
  <2> QED
    BY <2>1, <2>2, <2>3
<1> QED
  BY <1>1, <1>2

LEMMA SendCallInv ==
  ASSUME ApiInv, NEW r \in Requests, SendCall(r)
  PROVE  ApiInv'
<1> USE DEF ApiInv
<1>1. TypeOK'
  BY AsksAssumption, FlowSteps DEF TypeOK, SendCall, AtStep, Running, ItxSteps, Step, Method, reqVars, itxVars, accVars
<1>2. ASSUME NEW q \in Requests
      PROVE  (HandlerInv(q) /\ EffectInv(q) /\ StatusInv(q))'
  <2>1. HandlerInv(q)'
    BY <1>1, AsksAssumption, FlowSteps DEF TypeOK, HandlerInv, SendCall, AtStep, Running, ItxSteps, Step, Method, reqVars, itxVars, accVars
  <2>2. EffectInv(q)'
    BY <1>1, FlowSteps DEF TypeOK, HandlerInv, EffectInv, At, SendCall, AtStep, Running, ItxSteps, Step, Method, reqVars, itxVars, accVars
  <2>3. StatusInv(q)'
    BY DEF TypeOK, StatusInv, Enabled, SendCall, AtStep, Running, ItxSteps, Step, Method, reqVars, itxVars, accVars
  <2> QED
    BY <2>1, <2>2, <2>3
<1> QED
  BY <1>1, <1>2

LEMMA GiveUpInv ==
  ASSUME ApiInv, NEW r \in Requests, GiveUp(r)
  PROVE  ApiInv'
<1> USE DEF ApiInv
<1>1. TypeOK'
  BY AsksAssumption, FlowSteps DEF TypeOK, GiveUp, Fail, AtStep, Running, ItxSteps, Results, DomainErrors, Step, Method, reqVars, itxVars, accVars
<1>2. ASSUME NEW q \in Requests
      PROVE  (HandlerInv(q) /\ EffectInv(q) /\ StatusInv(q))'
  <2>1. HandlerInv(q)'
    BY <1>1, AsksAssumption, FlowSteps DEF TypeOK, HandlerInv, GiveUp, Fail, AtStep, Running, ItxSteps, Results, DomainErrors, Step, Method, reqVars, itxVars, accVars
  <2>2. EffectInv(q)'
    BY <1>1, FlowSteps DEF TypeOK, HandlerInv, EffectInv, At, GiveUp, Fail, AtStep, Running, ItxSteps, Results, DomainErrors, Step, Method, reqVars, itxVars, accVars
  <2>3. StatusInv(q)'
    BY DEF TypeOK, StatusInv, Enabled, GiveUp, Fail, AtStep, Running, ItxSteps, Results, DomainErrors, Step, Method, reqVars, itxVars, accVars
  <2> QED
    BY <2>1, <2>2, <2>3
<1> QED
  BY <1>1, <1>2

\* A handler that waits for nothing passes to its next step, or ends with success.
LEMMA ContinueInv ==
  ASSUME ApiInv, NEW r \in Requests, Continue(r),
         req[r] # NoRequest, result[r] = "none",
         At(r, {"call"}) => took[r],
         At(r, {"status"}) => Enabled(r),
         call' \in [Requests -> {"none", "sent"} \union CarriedOut \union Refused],
         \A q \in Requests : call'[q] = IF q = r THEN "none" ELSE call[q],
         seen' \in [Requests -> {"none"} \union Present],
         \A q \in Requests : seen'[q] = IF q = r THEN "none" ELSE seen[q]
  PROVE  ApiInv'
<1> USE DEF ApiInv
<1>1. TypeOK'
  <2>1. Method(r) \in Methods /\ Method(r)' = Method(r)
    BY DEF TypeOK, Continue, Request, Method
  <2>2. at[r] \in Nat /\ (at[r] < Len(Flow[Method(r)]) => at[r] + 1 \in DOMAIN Flow[Method(r)])
    BY <2>1, FlowSteps DEF TypeOK
  <2>3. at' \in [Requests -> Nat]
    BY <2>2 DEF TypeOK, Continue
  <2>4. ASSUME NEW q \in Requests, at'[q] # 0
        PROVE  (req[q] # NoRequest /\ at[q] \in DOMAIN Flow[Method(q)])'
    <3>1. CASE q = r /\ at[r] < Len(Flow[Method(r)])
      BY <2>1, <2>2, <3>1 DEF TypeOK, Continue
    <3>2. CASE q = r /\ ~(at[r] < Len(Flow[Method(r)]))
      BY <2>1, <2>4, <3>2 DEF TypeOK, Continue
    <3>3. CASE q # r
      BY <2>4, <3>3 DEF TypeOK, Continue, Method
    <3> QED
      BY <3>1, <3>2, <3>3
  <2>5. result' \in [Requests -> {"none"} \union Results]
    BY DEF TypeOK, Continue, Results
  <2> QED
    BY <2>3, <2>4, <2>5 DEF TypeOK, Continue, itxVars, accVars
<1>2. ASSUME NEW q \in Requests
      PROVE  (HandlerInv(q) /\ EffectInv(q) /\ StatusInv(q))'
  <2>1. CASE q # r
    BY <2>1 DEF TypeOK, HandlerInv, EffectInv, StatusInv, At, Enabled, Continue, Step, Method, itxVars
  <2>2. CASE q = r
    <3>1. HandlerInv(q)'
      BY <2>2 DEF TypeOK, HandlerInv, Continue, Method
    <3>2. EffectInv(q)'
      BY <2>2, FlowSteps DEF TypeOK, HandlerInv, EffectInv, At, Continue, Step, Method, StepNames, Request, NoRequest
    <3>3. StatusInv(q)'
      BY <2>2, FlowSteps DEF TypeOK, StatusInv, At, Enabled, Continue, Step, Method, itxVars, Flow, EndVote, Request
    <3> QED
      BY <3>1, <3>2, <3>3
  <2> QED
    BY <2>1, <2>2
<1> QED
  BY <1>1, <1>2

\* The same of a handler that ends with an error.
LEMMA FailInv ==
  ASSUME ApiInv, NEW r \in Requests, NEW e \in Results \ {"ok"}, Fail(r, e),
         req[r] # NoRequest, result[r] = "none",
         e \in {"undecodable", "unauthenticated", "panic"} => at[r] = 0,
         e = "undecodable" => req[r].from = "program",
         e \in {"NotFound", "Conflict"} => ~took[r],
         e = "Validation" /\ Server[Method(r)].ok = "NoContent" => ~took[r],
         call' \in [Requests -> {"none", "sent"} \union CarriedOut \union Refused],
         \A q \in Requests : call'[q] = IF q = r THEN "none" ELSE call[q],
         seen' \in [Requests -> {"none"} \union Present],
         \A q \in Requests : seen'[q] = IF q = r THEN "none" ELSE seen[q]
  PROVE  ApiInv'
<1> USE DEF ApiInv
<1>1. TypeOK'
  BY DEF TypeOK, Fail, Method, itxVars, accVars
<1>2. ASSUME NEW q \in Requests
      PROVE  (HandlerInv(q) /\ EffectInv(q) /\ StatusInv(q))'
  <2>1. CASE q # r
    BY <2>1 DEF TypeOK, HandlerInv, EffectInv, StatusInv, At, Enabled, Fail, Step, Method, itxVars
  <2>2. CASE q = r
    <3>1. HandlerInv(q)'
      BY <2>2 DEF TypeOK, HandlerInv, Fail, Method
    <3>2. EffectInv(q)'
      <4>1. out[r] = "none" /\ out' = out /\ took' = took /\ at' = at /\ req' = req
        BY DEF HandlerInv, Fail
      <4>2. result'[r] = e /\ call'[r] = "none"
        BY DEF TypeOK, Fail
      <4> QED
        BY <2>2, <4>1, <4>2 DEF Results, DomainErrors, EffectInv, At, Step, Method
    <3>3. StatusInv(q)'
      BY <2>2 DEF TypeOK, StatusInv, At, Enabled, Fail, Step, Method, itxVars
    <3> QED
      BY <3>1, <3>2, <3>3
  <2> QED
    BY <2>1, <2>2
<1> QED
  BY <1>1, <1>2

LEMMA LookupInv ==
  ASSUME ApiInv, NEW r \in Requests, Lookup(r)
  PROVE  ApiInv'
<1>1. /\ req[r] # NoRequest /\ result[r] = "none" /\ at[r] > 0
      /\ Step(r) \in {"ids", "uids"} /\ call[r] = "none" /\ seen[r] = "none"
  BY DEF Lookup, AtStep, Running, ApiInv, TypeOK, HandlerInv, ItxSteps
<1>2. /\ call' = call /\ call \in [Requests -> {"none", "sent"} \union CarriedOut \union Refused]
      /\ seen' = seen /\ seen \in [Requests -> {"none"} \union Present]
  BY DEF Lookup, ApiInv, TypeOK
<1>3. CASE Continue(r)
  BY <1>1, <1>2, <1>3, ContinueInv DEF At
<1>4. CASE \E e \in {"Unavailable", "Validation"} : Fail(r, e)
  <2>1. PICK e \in {"Unavailable", "Validation"} : Fail(r, e)
    BY <1>4
  <2>2. e \in Results \ {"ok"}
    BY DEF Results, DomainErrors
  <2>3. Server[Method(r)].ok = "NoContent" => ~took[r]
    BY <1>1, NoContentEndsWithCall DEF ApiInv, TypeOK, EffectInv, At, Step, Method, StepNames, Request, NoRequest
  <2> QED
    BY <1>1, <1>2, <2>1, <2>2, <2>3, FailInv
<1> QED
  BY <1>3, <1>4 DEF Lookup

LEMMA BuildLinksInv ==
  ASSUME ApiInv, NEW r \in Requests, BuildLinks(r)
  PROVE  ApiInv'
<1>1. /\ req[r] # NoRequest /\ result[r] = "none" /\ at[r] > 0
      /\ Step(r) \in {"links"} /\ call[r] = "none" /\ seen[r] = "none"
  BY DEF BuildLinks, AtStep, Running, ApiInv, TypeOK, HandlerInv, ItxSteps
<1>2. /\ call' = call /\ call \in [Requests -> {"none", "sent"} \union CarriedOut \union Refused]
      /\ seen' = seen /\ seen \in [Requests -> {"none"} \union Present]
  BY DEF BuildLinks, ApiInv, TypeOK
<1>3. CASE Continue(r)
  BY <1>1, <1>2, <1>3, ContinueInv DEF At
<1>4. CASE \E e \in {"Unavailable", "Validation", "Internal"} : Fail(r, e)
  <2>1. PICK e \in {"Unavailable", "Validation", "Internal"} : Fail(r, e)
    BY <1>4
  <2>2. e \in Results \ {"ok"}
    BY DEF Results, DomainErrors
  <2>3. ~took[r]
    BY <1>1 DEF ApiInv, EffectInv, At, StepNames
  <2> QED
    BY <1>1, <1>2, <2>1, <2>2, <2>3, FailInv
<1> QED
  BY <1>3, <1>4 DEF BuildLinks

LEMMA VerifyLinkInv ==
  ASSUME ApiInv, NEW r \in Requests, VerifyLink(r)
  PROVE  ApiInv'
<1>1. /\ req[r] # NoRequest /\ result[r] = "none" /\ at[r] > 0
      /\ Step(r) \in {"token"} /\ call[r] = "none" /\ seen[r] = "none"
  BY DEF VerifyLink, AtStep, Running, ApiInv, TypeOK, HandlerInv, ItxSteps
<1>2. /\ call' = call /\ call \in [Requests -> {"none", "sent"} \union CarriedOut \union Refused]
      /\ seen' = seen /\ seen \in [Requests -> {"none"} \union Present]
  BY DEF VerifyLink, ApiInv, TypeOK
<1>3. CASE Continue(r)
  BY <1>1, <1>2, <1>3, ContinueInv DEF At
<1>4. CASE \E e \in {"Unavailable", "NotFound"} : Fail(r, e)
  <2>1. PICK e \in {"Unavailable", "NotFound"} : Fail(r, e)
    BY <1>4
  <2>2. e \in Results \ {"ok"}
    BY DEF Results, DomainErrors
  <2>3. ~took[r]
    BY <1>1 DEF ApiInv, EffectInv, At, StepNames
  <2> QED
    BY <1>1, <1>2, <2>1, <2>2, <2>3, FailInv
<1> QED
  BY <1>3, <1>4 DEF VerifyLink

LEMMA AdmitInv ==
  ASSUME ApiInv, NEW r \in Requests, Admit(r)
  PROVE  ApiInv'
<1>1. req[r] # NoRequest /\ at[r] = 0 /\ result[r] = "none" /\ call[r] = "none" /\ seen[r] = "none" /\ ~took[r]
  BY DEF Admit, ApiInv, HandlerInv, EffectInv
<1>2. /\ call' = call /\ call \in [Requests -> {"none", "sent"} \union CarriedOut \union Refused]
      /\ seen' = seen /\ seen \in [Requests -> {"none"} \union Present]
  BY DEF Admit, ApiInv, TypeOK
<1>3. CASE Continue(r)
  BY <1>1, <1>2, <1>3, ContinueInv DEF At
<1>4. ASSUME Fail(r, "undecodable"), req[r].bad \intersect Server[Method(r)].checks # {}
      PROVE  ApiInv'
  <2>1. req[r] \in Request /\ CanSend(req[r]) /\ Method(r) \in Methods
    BY <1>1 DEF ApiInv, TypeOK, HandlerInv, Request, Method
  <2>2. req[r].from # "cli"
    BY <1>4, <2>1, WireShape DEF CanSend, Method
  <2>3. req[r].from = "program"
    BY <2>1, <2>2 DEF Request
  <2> QED
    BY <1>1, <1>2, <1>4, <2>3, FailInv DEF Results
<1>5. ASSUME NEW e \in {"unauthenticated", "panic", "Validation"}, Fail(r, e) PROVE ApiInv'
  <2>1. e \in Results \ {"ok"}
    BY DEF Results, DomainErrors
  <2> QED
    BY <1>1, <1>2, <1>5, <2>1, FailInv
<1> QED
  BY <1>3, <1>4, <1>5 DEF Admit, NullEntry

LEMMA ReturnInv ==
  ASSUME ApiInv, NEW r \in Requests, Return(r)
  PROVE  ApiInv'
<1>1. /\ req[r] # NoRequest /\ result[r] = "none" /\ at[r] > 0
      /\ Step(r) \in ItxSteps /\ call[r] \in CarriedOut \union Refused
  BY DEF Return, AtStep, Running, ApiInv, TypeOK
<1>2. /\ call' \in [Requests -> {"none", "sent"} \union CarriedOut \union Refused]
      /\ \A q \in Requests : call'[q] = IF q = r THEN "none" ELSE call[q]
      /\ seen' \in [Requests -> {"none"} \union Present]
      /\ \A q \in Requests : seen'[q] = IF q = r THEN "none" ELSE seen[q]
  BY DEF Return, ApiInv, TypeOK
<1>3. CASE Continue(r) /\ ErrorOf(r) = "none" /\ "none" \in Objections(r)
  <2>1. call[r] \in {"2xx", "garbled"}
    BY <1>1, <1>3 DEF ErrorOf, MapHTTPError, CarriedOut, Refused
  <2>2. At(r, {"call"}) => took[r]
    BY <1>1, <2>1 DEF ApiInv, EffectInv, At
  <2>3. ASSUME At(r, {"status"}) PROVE Enabled(r)
    <3>1. Method(r) = "EndVote"
      BY <1>1, <2>3, StatusOnlyEndVote DEF ApiInv, TypeOK, At, Step, Method, Request, NoRequest
    <3>2. seen[r] \in Present /\ seen[r] # "disabled"
      BY <1>1, <1>3, <2>1, <2>3, <3>1 DEF Objections, ApiInv, StatusInv, At
    <3> QED
      BY <1>1, <3>1, <3>2 DEF ApiInv, StatusInv, Present
  <2> QED
    BY <1>1, <1>2, <1>3, <2>2, <2>3, ContinueInv
<1>4. CASE ErrorOf(r) # "none" /\ Fail(r, ErrorOf(r))
  <2>1. ErrorOf(r) \in {"Internal", "Validation", "NotFound", "Conflict"}
    BY <1>1, <1>4 DEF ErrorOf, MapHTTPError, CarriedOut, Refused
  <2>2. ErrorOf(r) # "Internal" => call[r] \in {"400", "404", "409"}
    BY <1>1, <1>4 DEF ErrorOf, MapHTTPError, CarriedOut, Refused
  <2>3. ErrorOf(r) # "Internal" => ~took[r]
    BY <1>1, <2>2 DEF ApiInv, EffectInv, At, ItxSteps, StepNames
  <2>4. ErrorOf(r) \in Results \ {"ok"}
    BY <2>1 DEF Results, DomainErrors
  <2> QED
    BY <1>1, <1>2, <1>4, <2>1, <2>3, <2>4, FailInv
<1>5. CASE \E e \in {"Conflict", "NotFound"} : Fail(r, e) /\ e \in Objections(r)
  <2>1. PICK e \in {"Conflict", "NotFound"} : Fail(r, e) /\ e \in Objections(r)
    BY <1>5
  <2>2. ~took[r]
    BY <1>1, <2>1 DEF Objections, ApiInv, EffectInv, At, ItxSteps, StepNames
  <2>3. e \in Results \ {"ok"}
    BY DEF Results, DomainErrors
  <2> QED
    BY <1>1, <1>2, <2>1, <2>2, <2>3, FailInv
<1>6. PICK e \in (IF ErrorOf(r) = "none" THEN Objections(r) ELSE {ErrorOf(r)}) :
        IF e = "none" THEN Continue(r) ELSE Fail(r, e)
  BY DEF Return
<1>7. Objections(r) \subseteq {"none", "Conflict", "NotFound"}
  BY DEF Objections
<1> QED
  BY <1>3, <1>4, <1>5, <1>6, <1>7

LEMMA ItxReadsInv ==
  ASSUME ApiInv, NEW r \in Requests, ItxReads(r)
  PROVE  ApiInv'
<1> USE DEF ApiInv
<1>1. PICK a \in CarriedOut : call' = [call EXCEPT ![r] = a]
  BY DEF ItxReads
<1>2. /\ call[r] = "sent" /\ result[r] = "none" /\ at[r] > 0 /\ req[r] # NoRequest
      /\ Step(r) \in {"status", "ballot"}
  BY DEF ItxReads, TypeOK, HandlerInv
<1>3. req[r] \in Request /\ poll[req[r].vote] \in PollStates
  BY <1>2 DEF TypeOK, Request
<1>4. /\ seen' \in [Requests -> {"none"} \union Present]
      /\ \A q \in Requests : q # r => seen'[q] = seen[q]
      /\ Step(r) = "status" => seen'[r] = poll[req[r].vote] /\ poll[req[r].vote] \in Present
      /\ Step(r) = "ballot" => seen'[r] = seen[r]
  BY <1>2, <1>3 DEF ItxReads, TypeOK
<1>5. TypeOK'
  BY <1>1, <1>4 DEF TypeOK, ItxReads, Method, itxVars, accVars
<1>6. ASSUME NEW q \in Requests
      PROVE  (HandlerInv(q) /\ EffectInv(q) /\ StatusInv(q))'
  <2>1. CASE q # r
    BY <1>1, <1>4, <2>1 DEF TypeOK, HandlerInv, EffectInv, StatusInv, At, Enabled, ItxReads, Step, Method, itxVars
  <2>2. CASE q = r
    <3>1. call'[r] = a /\ a \notin {"none", "sent"} /\ out[r] = "none"
      BY <1>1, <1>2 DEF TypeOK, CarriedOut, HandlerInv
    <3>2. req' = req /\ at' = at /\ result' = result /\ out' = out /\ took' = took /\ poll' = poll
      BY DEF ItxReads, itxVars
    <3>3. HandlerInv(q)'
      BY <1>2, <2>2, <3>1, <3>2 DEF HandlerInv, Step, Method, ItxSteps
    <3>4. EffectInv(q)'
      BY <1>2, <2>2, <3>1, <3>2 DEF EffectInv, At, Step, Method
    <3>5. StatusInv(q)'
      BY <1>2, <1>4, <2>2, <3>1, <3>2 DEF StatusInv, Enabled, Step, Method, HandlerInv
    <3> QED
      BY <3>3, <3>4, <3>5
  <2> QED
    BY <2>1, <2>2
<1> QED
  BY <1>5, <1>6

LEMMA ItxRefusesInv ==
  ASSUME ApiInv, NEW r \in Requests, ItxRefuses(r)
  PROVE  ApiInv'
<1> USE DEF ApiInv
<1>1. PICK a \in Refused : call' = [call EXCEPT ![r] = a]
  BY DEF ItxRefuses
<1>2. /\ call[r] = "sent" /\ result[r] = "none" /\ at[r] > 0 /\ Step(r) \in ItxSteps
      /\ out[r] = "none" /\ seen[r] = "none"
  BY DEF ItxRefuses, TypeOK, HandlerInv
<1>3. /\ req' = req /\ at' = at /\ seen' = seen /\ result' = result /\ out' = out
      /\ took' = took /\ poll' = poll /\ ballot' = ballot
  BY DEF ItxRefuses, itxVars
<1>4. TypeOK'
  BY <1>1, <1>3 DEF TypeOK, ItxRefuses, Method, accVars
<1>5. ASSUME NEW q \in Requests
      PROVE  (HandlerInv(q) /\ EffectInv(q) /\ StatusInv(q))'
  <2>1. CASE q # r
    BY <1>1, <1>3, <2>1 DEF TypeOK, HandlerInv, EffectInv, StatusInv, At, Enabled, Step, Method
  <2>2. CASE q = r
    <3>1. call'[r] = a /\ a \notin {"none", "sent", "2xx", "garbled"}
      BY <1>1 DEF TypeOK, Refused
    <3>2. HandlerInv(q)'
      BY <1>2, <1>3, <2>2, <3>1 DEF HandlerInv, Step, Method, ItxSteps
    <3>3. EffectInv(q)'
      BY <1>2, <1>3, <2>2, <3>1 DEF EffectInv, At, Step, Method
    <3>4. StatusInv(q)'
      BY <1>2, <1>3, <2>2, <3>1 DEF StatusInv, Enabled, Step, Method
    <3> QED
      BY <3>2, <3>3, <3>4
  <2> QED
    BY <2>1, <2>2
<1> QED
  BY <1>4, <1>5

\* What ITX does for one request leaves a vote that is enabled enabled.
LEMMA EnabledStays ==
  ASSUME NEW m \in Methods, NEW p \in {"active", "ended"}, NEW b, Permits(m, p, b)
  PROVE  PollAfter(m, p) \in {"active", "ended"}
BY DEF Permits, PollAfter, Casts, Changes

LEMMA LifeTypes ==
  ASSUME NEW m, NEW p \in PollStates, NEW b \in BallotStates
  PROVE  PollAfter(m, p) \in PollStates /\ BallotAfter(m, b) \in BallotStates
BY DEF PollAfter, BallotAfter, PollStates, BallotStates

\* An answer to a call that was given up is of no interest any more.
LEMMA ItxTakesInv ==
  ASSUME ApiInv, NEW r \in Requests, ItxTakes(r)
  PROVE  ApiInv'
<1> USE DEF ApiInv
<1>1. PICK a \in IF result[r] = "none" THEN CarriedOut ELSE {"none"} : call' = [call EXCEPT ![r] = a]
  BY DEF ItxTakes
<1>2. /\ call[r] = "sent" /\ Step(r) = "call" /\ at[r] > 0 /\ req[r] \in Request
      /\ result[r] \in {"none", "Unavailable"} /\ seen[r] = "none" /\ Method(r) \in Methods
  BY DEF ItxTakes, TypeOK, HandlerInv, Request, Method
<1>3. /\ req' = req /\ at' = at /\ seen' = seen /\ result' = result /\ out' = out
      /\ took' = [took EXCEPT ![r] = TRUE]
  BY DEF ItxTakes
<1>4. /\ Permits(Method(r), poll[req[r].vote], ballot[req[r].vote])
      /\ poll' = [poll EXCEPT ![req[r].vote] = PollAfter(Method(r), @)]
      /\ ballot' = [ballot EXCEPT ![req[r].vote] = BallotAfter(Method(r), @)]
  BY DEF ItxTakes
<1>5. call' \in [Requests -> {"none", "sent"} \union CarriedOut \union Refused]
  BY <1>1 DEF TypeOK
<1>6. TypeOK'
  BY <1>2, <1>3, <1>4, <1>5, LifeTypes DEF TypeOK, Request, ItxTakes, Method, accVars
<1>7. \A q \in Requests : req[q] \in Request /\ Enabled(q) => Enabled(q)'
  BY <1>2, <1>3, <1>4, EnabledStays DEF TypeOK, Enabled, Request
<1>8. ASSUME NEW q \in Requests
      PROVE  (HandlerInv(q) /\ EffectInv(q) /\ StatusInv(q))'
  <2>1. req[q] \in Request \/ req[q] = NoRequest
    BY DEF TypeOK
  <2>2. at[q] > 0 => req[q] \in Request
    BY <2>1 DEF TypeOK
  <2>3. CASE q # r
    <3>1. HandlerInv(q)' /\ EffectInv(q)'
      BY <1>1, <1>3, <2>3 DEF TypeOK, HandlerInv, EffectInv, At, Step, Method
    <3>2. StatusInv(q)'
      BY <1>1, <1>3, <1>7, <2>2, <2>3 DEF TypeOK, StatusInv, Step, Method
    <3> QED
      BY <3>1, <3>2
  <2>4. CASE q = r
    <3>1. call'[r] = a /\ a \in CarriedOut \union {"none"} /\ took'[r]
      BY <1>1, <1>3 DEF TypeOK
    <3>2. a = "none" <=> result[r] # "none"
      BY <1>1 DEF CarriedOut
    <3>3. HandlerInv(q)'
      BY <1>2, <1>3, <2>4, <3>1, <3>2 DEF HandlerInv, Step, Method, ItxSteps, CarriedOut
    <3>4. EffectInv(q)'
      BY <1>2, <1>3, <2>4, <3>1, <3>2 DEF HandlerInv, EffectInv, At, Step, Method, CarriedOut, StepNames
    <3>5. StatusInv(q)'
      BY <1>2, <1>3, <1>7, <2>4, <3>1, <3>2 DEF StatusInv, Step, Method, CarriedOut
    <3> QED
      BY <3>3, <3>4, <3>5
  <2> QED
    BY <2>3, <2>4
<1> QED
  BY <1>6, <1>8

-----------------------------------------------------------------------------
(***************************************************************************)
(* The answer, and what its caller makes of it.                            *)
(***************************************************************************)
\* A caller reads what the server wrote: success as success, an error of the design
\* as itself, and nothing of an error the method does not declare.
LEMMA UnderstandsResult ==
  ASSUME NEW m \in Methods
  PROVE  Understands(m, Result(m)) = "done"
<1>1. Result(m).status = Client[m].reads.ok
  BY WireShape DEF Result
<1>2. Result(m).status \notin Client[m].reads.errors
  BY WireShape DEF Result, WithConflict, Declared
<1> QED
  BY <1>1, <1>2 DEF Understands

LEMMA UnderstandsRefusal ==
  ASSUME NEW m \in Methods, NEW e \in WithConflict
  PROVE  /\ Understands(m, Refusal(m, e)) \in {e, "unreadable"}
         /\ e # "Conflict" => Understands(m, Refusal(m, e)) = e
<1>1. /\ Server[m].ok \in {"Created", "OK", "NoContent"}
      /\ Server[m].errors \in {Declared, WithConflict}
      /\ Client[m].reads.ok = Server[m].ok
      /\ Client[m].reads.errors = Server[m].errors
  BY WireShape
<1>2. e # "Conflict" => e \in Server[m].errors
  BY <1>1 DEF WithConflict
<1>3. CASE e \in Server[m].errors
  <2>1. Refusal(m, e).status = e /\ Refusal(m, e).body = "typed"
    BY <1>3 DEF Refusal
  <2>2. e \notin {"Created", "OK", "NoContent"}
    BY DEF WithConflict, Declared
  <2> QED
    BY <1>1, <1>3, <2>1, <2>2 DEF Understands
<1>4. CASE e \notin Server[m].errors
  <2>1. Refusal(m, e).status = "InternalServerError" /\ Refusal(m, e).body = "plain"
    BY <1>4 DEF Refusal, Unnamed
  <2> QED
    BY <1>1, <1>2, <1>4, <2>1 DEF Understands
<1> QED
  BY <1>3, <1>4

LEMMA UnderstandsLibrary ==
  ASSUME NEW m \in Methods
  PROVE  Understands(m, Unnamed) = "unreadable" /\ Understands(m, Undecodable) = "unreadable"
BY WireShape DEF Understands, Unnamed, Undecodable

LEMMA AnswerMeaning ==
  ASSUME ApiInv, NEW r \in Requests, result[r] # "none", NEW o \in Learns(r)
  PROVE  /\ o \in {"done", "unreadable", "lost"} \union WithConflict
         /\ o = "done" => took[r]
         /\ o \in {"NotFound", "Conflict"} => ~took[r] /\ result[r] # "Unavailable"
         /\ o \in {"BadRequest", "unreadable"} /\ Server[Method(r)].ok = "NoContent"
              => ~took[r] /\ result[r] # "Unavailable"
<1>1. req[r] # NoRequest /\ Method(r) \in Methods /\ result[r] \in Results
  BY DEF ApiInv, HandlerInv, TypeOK, Request, Method
<1>2. CASE o = "lost"
  BY <1>2 DEF WithConflict, Declared
<1>3. CASE o = "unreadable" /\ result[r] = "ok" /\ ResultFlaws \intersect Client[Method(r)].reads.result # {}
  <2>1. Server[Method(r)].ok # "NoContent"
    BY <1>1, <1>3, WireShape
  <2> QED
    BY <1>3, <2>1
<1>4. CASE o = Understands(Method(r), Response(r)) /\ result[r] = "ok"
  <2>1. o = "done"
    BY <1>1, <1>4, UnderstandsResult DEF Response
  <2> QED
    BY <1>4, <2>1 DEF ApiInv, EffectInv, WithConflict, Declared
<1>5. CASE o = Understands(Method(r), Response(r)) /\ result[r] \in {"undecodable", "unauthenticated"}
  <2>1. o = "unreadable"
    BY <1>1, <1>5, UnderstandsLibrary DEF Response
  <2>2. ~took[r]
    BY <1>5 DEF ApiInv, HandlerInv, EffectInv
  <2> QED
    BY <1>5, <2>1, <2>2
<1>6. CASE o = Understands(Method(r), Response(r)) /\ result[r] \in DomainErrors
  <2> DEFINE e == HandleError(result[r])
  <2>1. /\ e \in WithConflict
        /\ e = "Conflict" => result[r] = "Conflict"
        /\ e = "NotFound" => result[r] = "NotFound"
        /\ e = "BadRequest" => result[r] = "Validation"
    BY <1>6 DEF HandleError, DomainErrors, WithConflict, Declared
  <2>2. o = Understands(Method(r), Refusal(Method(r), e))
    BY <1>6 DEF Response, DomainErrors
  <2>3. o \in {e, "unreadable"} /\ (e # "Conflict" => o = e)
    BY <1>1, <2>1, <2>2, UnderstandsRefusal
  <2> HIDE DEF e
  <2>4. result[r] \in {"NotFound", "Conflict"} => ~took[r]
    BY DEF ApiInv, EffectInv
  <2>5. result[r] = "Validation" /\ Server[Method(r)].ok = "NoContent" => ~took[r]
    BY DEF ApiInv, EffectInv
  <2>6. o # "done" /\ (o = "unreadable" => e = "Conflict")
    BY <2>1, <2>3 DEF WithConflict, Declared
  <2> QED
    BY <2>1, <2>3, <2>4, <2>5, <2>6
<1> QED
  BY <1>1, <1>2, <1>3, <1>4, <1>5, <1>6 DEF Learns, Results

LEMMA AnswerInv ==
  ASSUME ApiInv, NEW r \in Requests, Answer(r)
  PROVE  ApiInv'
<1> USE DEF ApiInv
<1>1. PICK o \in Learns(r) : out' = [out EXCEPT ![r] = o]
  BY DEF Answer
<1>2. result[r] # "none" /\ out[r] = "none"
  BY DEF Answer
<1>3. /\ o \in {"done", "unreadable", "lost"} \union WithConflict
      /\ o = "done" => took[r]
      /\ o \in {"NotFound", "Conflict"} => ~took[r] /\ result[r] # "Unavailable"
      /\ o \in {"BadRequest", "unreadable"} /\ Server[Method(r)].ok = "NoContent"
           => ~took[r] /\ result[r] # "Unavailable"
  BY <1>2, AnswerMeaning
<1>4. /\ req' = req /\ at' = at /\ call' = call /\ seen' = seen /\ result' = result
      /\ took' = took /\ poll' = poll /\ ballot' = ballot
  BY DEF Answer, itxVars
<1>5. TypeOK'
  BY <1>1, <1>3, <1>4 DEF TypeOK, Answer, Method, accVars
<1>6. ASSUME NEW q \in Requests
      PROVE  (HandlerInv(q) /\ EffectInv(q) /\ StatusInv(q))'
  <2>1. q # r => out'[q] = out[q]
    BY <1>1 DEF TypeOK
  <2>2. out'[r] = o
    BY <1>1 DEF TypeOK
  <2>3. HandlerInv(q)'
    BY <1>2, <1>4, <2>1 DEF HandlerInv, Step, Method
  <2>4. EffectInv(q)'
    BY <1>3, <1>4, <2>1, <2>2 DEF EffectInv, At, Step, Method
  <2>5. StatusInv(q)'
    BY <1>4 DEF StatusInv, Enabled, Step, Method
  <2> QED
    BY <2>3, <2>4, <2>5
<1> QED
  BY <1>5, <1>6

\* The acceptances and the process leave the requests and ITX's votes alone.
LEMMA OthersInv ==
  ASSUME ApiInv, UNCHANGED <<reqVars, itxVars>>,
         \/ \E e \in Acceptances : Deliver(e) \/ HandleAcceptance(e) \/ ItxEnriches(e)
         \/ Stop \/ Exit \/ Kill \/ UNCHANGED vars
  PROVE  ApiInv'
<1> USE DEF ApiInv
<1>1. /\ req' = req /\ at' = at /\ call' = call /\ seen' = seen /\ result' = result
      /\ out' = out /\ took' = took /\ poll' = poll /\ ballot' = ballot
  BY DEF reqVars, itxVars
<1>2. /\ proc' \in {"serving", "stopping", "exited", "killed"}
      /\ acc' \in [Acceptances -> {"none", "published", "handling", "calling", "discarded",
                                   "aborted", "failed", "complete"}]
      /\ enriched' \subseteq Acceptances
  BY DEF TypeOK, Deliver, HandleAcceptance, ProcessInviteAccepted, AcceptInvite, ItxEnriches,
     Stop, Exit, Kill, vars, accVars
<1>3. TypeOK'
  BY <1>1, <1>2 DEF TypeOK, Method
<1>4. ASSUME NEW q \in Requests
      PROVE  (HandlerInv(q) /\ EffectInv(q) /\ StatusInv(q))'
  BY <1>1 DEF HandlerInv, EffectInv, StatusInv, At, Enabled, Step, Method
<1> QED
  BY <1>3, <1>4

-----------------------------------------------------------------------------
LEMMA ApiInit == Init => ApiInv
<1> SUFFICES ASSUME Init PROVE ApiInv
  OBVIOUS
<1>1. PICK life \in [Votes -> Lives] :
        /\ poll = [v \in Votes |-> life[v][1]]
        /\ ballot = [v \in Votes |-> life[v][2]]
  BY DEF Init
<1>2. poll \in [Votes -> PollStates] /\ ballot \in [Votes -> BallotStates]
  BY <1>1 DEF Lives
<1>3. TypeOK
  BY <1>2 DEF Init, TypeOK
<1>4. \A r \in Requests : HandlerInv(r) /\ EffectInv(r) /\ StatusInv(r)
  BY DEF Init, HandlerInv, EffectInv, StatusInv, At
<1> QED
  BY <1>3, <1>4 DEF ApiInv

LEMMA ApiStep == ApiInv /\ [Next]_vars => ApiInv'
<1> SUFFICES ASSUME ApiInv, [Next]_vars PROVE ApiInv'
  OBVIOUS
<1>1. ASSUME NEW r \in Requests, Send(r) PROVE ApiInv'
  BY <1>1, SendInv
<1>2. ASSUME NEW r \in Requests, Serve(r) PROVE ApiInv'
  BY <1>2, AdmitInv, LookupInv, BuildLinksInv, VerifyLinkInv, SendCallInv, ReturnInv,
     GiveUpInv, AnswerInv DEF Serve
<1>3. ASSUME NEW r \in Requests, ItxReads(r) \/ ItxTakes(r) \/ ItxRefuses(r) PROVE ApiInv'
  BY <1>3, ItxReadsInv, ItxTakesInv, ItxRefusesInv
<1>4. ASSUME NEW e \in Acceptances, Deliver(e) \/ HandleAcceptance(e) \/ ItxEnriches(e) PROVE ApiInv'
  <2>1. UNCHANGED <<reqVars, itxVars>>
    BY <1>4 DEF Deliver, HandleAcceptance, ProcessInviteAccepted, AcceptInvite, ItxEnriches
  <2> QED
    BY <1>4, <2>1, OthersInv
<1>5. ASSUME Stop \/ Exit \/ Kill \/ UNCHANGED vars PROVE ApiInv'
  <2>1. UNCHANGED <<reqVars, itxVars>>
    BY <1>5 DEF Stop, Exit, Kill, vars, reqVars, itxVars
  <2> QED
    BY <1>5, <2>1, OthersInv
<1> QED
  BY <1>1, <1>2, <1>3, <1>4, <1>5 DEF Next

LEMMA ApiInvariant == Spec => []ApiInv
BY ApiInit, ApiStep, PTL DEF Spec

\* Every reachable state is well-formed: a handler is at a step of its method's
\* flow, and its results are those the API layer knows.
THEOREM ApiTypeOK == Spec => []TypeOK
BY ApiInvariant, PTL DEF ApiInv

\* No call to end a vote is ever on its way to ITX while the vote is disabled
\* (EndVote, the check of the status before the call).
THEOREM DisabledVotesAreNotEnded == Spec => []DisabledNeverEnded
<1>1. ApiInv => DisabledNeverEnded
  BY DEF ApiInv, TypeOK, HandlerInv, StatusInv, Enabled, DisabledNeverEnded
<1> QED
  BY <1>1, ApiInvariant, PTL

-----------------------------------------------------------------------------
(***************************************************************************)
(* The refinement.                                                         *)
(***************************************************************************)
Asked == [r \in Requests |-> IF req[r] = NoRequest THEN NoRequest
                             ELSE [method |-> Method(r), vote |-> req[r].vote]]

LEMMA AskedIs ==
  ASSUME TypeOK, NEW r \in Requests
  PROVE  /\ req[r] = NoRequest => Asked[r] = NoRequest
         /\ req[r] # NoRequest => /\ Asked[r].method = Method(r) /\ Method(r) \in Methods
                                  /\ Asked[r].vote = req[r].vote /\ req[r].vote \in Votes
                                  /\ Asked[r] # NoRequest
<1>1. "none" \notin Methods
  BY MethodsNamed DEF MethodNames
<1> QED
  BY <1>1 DEF TypeOK, Asked, Request, NoRequest, Method

\* The ledger's words for what its callers may conclude.
LEMMA LedgerRefusals ==
  ASSUME NEW m \in Methods
  PROVE  Ledger!Refusals(m) = {"NotFound", "Conflict"}
           \union IF Server[m].ok = "NoContent" THEN {"BadRequest", "unreadable"} ELSE {}
BY DEF Ledger!Refusals, Quiet

\* The ledger's own copy of the life of a vote.
LEMMA LedgerLife ==
  ASSUME NEW m, NEW p, NEW b
  PROVE  /\ Ledger!Permits(m, p, b) <=> Permits(m, p, b)
         /\ Ledger!PollAfter(m, p) = PollAfter(m, p)
         /\ Ledger!BallotAfter(m, b) = BallotAfter(m, b)
BY DEF Ledger!Permits, Ledger!PollAfter, Ledger!BallotAfter, Ledger!Present, Ledger!Casts,
   Ledger!Changes, Permits, PollAfter, BallotAfter, Present, Casts, Changes

LEMMA AskStep ==
  ASSUME ApiInv, NEW r \in Requests, Send(r)
  PROVE  Ledger!Ask(r)
<1>1. PICK q \in Asks[r] : req' = [req EXCEPT ![r] = q]
  BY DEF Send
<1>2. q \in Request /\ q # NoRequest
  <2>1. q \in Request
    BY AsksAssumption
  <2>2. "none" \notin Methods
    BY MethodsNamed DEF MethodNames
  <2> QED
    BY <2>1, <2>2 DEF Request, NoRequest
<1>3. Asked' = [Asked EXCEPT ![r] = [method |-> q.method, vote |-> q.vote]]
  BY <1>1, <1>2 DEF Asked, Method, ApiInv, TypeOK
<1>4. Asked[r] = Ledger!Nothing
  BY DEF Send, Asked, NoRequest, Ledger!Nothing
<1>5. q.method \in Methods /\ q.vote \in Votes
  BY <1>2 DEF Request
<1>6. UNCHANGED <<poll, ballot, took, out>>
  BY DEF Send, itxVars
<1> QED
  BY <1>3, <1>4, <1>5, <1>6 DEF Ledger!Ask, Asked

LEMMA TakeStep ==
  ASSUME ApiInv, NEW r \in Requests, ItxTakes(r)
  PROVE  Ledger!Take(r)
<1>1. /\ req[r] # NoRequest /\ call[r] = "sent" /\ Step(r) = "call" /\ at[r] > 0
      /\ result[r] \in {"none", "Unavailable"}
  BY DEF ItxTakes, ApiInv, HandlerInv, TypeOK
<1>2. /\ Asked[r].method = Method(r) /\ Method(r) \in Methods
      /\ Asked[r].vote = req[r].vote /\ Asked[r] # NoRequest
  BY <1>1, AskedIs DEF ApiInv
<1>3. ~took[r]
  BY <1>1 DEF ApiInv, EffectInv, At
<1>4. out[r] \notin Ledger!Refusals(Method(r))
  BY <1>1, <1>2, LedgerRefusals DEF ApiInv, HandlerInv, EffectInv
<1>5. UNCHANGED <<Asked, out>>
  BY DEF ItxTakes, Asked, Method
<1>6. /\ Ledger!Permits(Method(r), poll[req[r].vote], ballot[req[r].vote])
      /\ poll' = [poll EXCEPT ![req[r].vote] = Ledger!PollAfter(Method(r), @)]
      /\ ballot' = [ballot EXCEPT ![req[r].vote] = Ledger!BallotAfter(Method(r), @)]
      /\ took' = [took EXCEPT ![r] = TRUE]
  BY LedgerLife DEF ItxTakes
<1> QED
  BY <1>2, <1>3, <1>4, <1>5, <1>6 DEF Ledger!Take, Ledger!Nothing, NoRequest, Asked

LEMMA AnswerStep ==
  ASSUME ApiInv, NEW r \in Requests, Answer(r)
  PROVE  Ledger!Answer(r)
<1>1. PICK o \in Learns(r) : out' = [out EXCEPT ![r] = o]
  BY DEF Answer
<1>2. result[r] # "none" /\ out[r] = "none" /\ req[r] # NoRequest
  BY DEF Answer, ApiInv, HandlerInv
<1>3. Asked[r].method = Method(r) /\ Method(r) \in Methods /\ Asked[r] # NoRequest
  BY <1>2, AskedIs DEF ApiInv
<1>4. /\ o \in {"done", "unreadable", "lost"} \union WithConflict
      /\ o = "done" => took[r]
      /\ o \in Ledger!Refusals(Method(r)) => ~took[r]
  BY <1>2, <1>3, AnswerMeaning, LedgerRefusals
<1>5. UNCHANGED <<poll, ballot, Asked, took>>
  BY DEF Answer, Asked, Method, itxVars
<1> QED
  BY <1>1, <1>2, <1>3, <1>4, <1>5 DEF Ledger!Answer, Ledger!Nothing, NoRequest, Asked

\* The API implements the ledger: each request takes effect at most once, "done"
\* means that it has, and NotFound or Conflict (and, of a method without a result,
\* BadRequest or an unreadable answer) that it has not and never will, whatever ITX
\* answered, and whatever became of calls that were given up.
THEOREM ApiImplementsLedger == Spec => ImplementsLedger
<1>1. Init => Ledger!Init
  <2> SUFFICES ASSUME Init PROVE Ledger!Init
    OBVIOUS
  <2>1. Ledger!Lives = Lives
    BY DEF Ledger!Lives, Ledger!PollStates, Ledger!BallotStates, Lives, PollStates, BallotStates
  <2>2. Asked = [r \in Requests |-> Ledger!Nothing]
    BY DEF Init, Asked, NoRequest, Ledger!Nothing
  <2> QED
    BY <2>1, <2>2 DEF Init, Ledger!Init, Asked
<1>2. ApiInv /\ [Next]_vars => [Ledger!Next]_Ledger!vars
  <2> SUFFICES ASSUME ApiInv, [Next]_vars PROVE [Ledger!Next]_Ledger!vars
    OBVIOUS
  <2>1. ASSUME NEW r \in Requests, Send(r) PROVE Ledger!Next
    BY <2>1, AskStep DEF Ledger!Next
  <2>2. ASSUME NEW r \in Requests, ItxTakes(r) PROVE Ledger!Next
    BY <2>2, TakeStep DEF Ledger!Next
  <2>3. ASSUME NEW r \in Requests, Answer(r) PROVE Ledger!Next
    BY <2>3, AnswerStep DEF Ledger!Next
  <2>4. ASSUME UNCHANGED <<poll, ballot, req, took, out>> PROVE UNCHANGED Ledger!vars
    BY <2>4 DEF Ledger!vars, Method
  <2>5. ASSUME NEW r \in Requests,
               \/ Admit(r) \/ Lookup(r) \/ BuildLinks(r) \/ VerifyLink(r) \/ SendCall(r)
               \/ Return(r) \/ GiveUp(r) \/ ItxReads(r) \/ ItxRefuses(r)
        PROVE UNCHANGED <<poll, ballot, req, took, out>>
    BY <2>5 DEF Admit, Lookup, BuildLinks, VerifyLink, SendCall, Return, GiveUp, ItxReads,
       ItxRefuses, Continue, Fail, itxVars
  <2>6. ASSUME \/ \E e \in Acceptances : Deliver(e) \/ HandleAcceptance(e) \/ ItxEnriches(e)
               \/ Stop \/ Exit \/ Kill \/ UNCHANGED vars
        PROVE UNCHANGED <<poll, ballot, req, took, out>>
    BY <2>6 DEF Deliver, HandleAcceptance, ProcessInviteAccepted, AcceptInvite, ItxEnriches,
       Stop, Exit, Kill, vars, reqVars, itxVars
  <2> QED
    BY <2>1, <2>2, <2>3, <2>4, <2>5, <2>6 DEF Next, Serve
<1> QED
  BY <1>1, <1>2, ApiInvariant, PTL DEF Spec, ImplementsLedger, Ledger!Spec

\* What the command line has accepted the server can decode: its checks include
\* the server's, method by method.
THEOREM CommandLineIsDecoded == Spec => []CommandLineDecodes
<1>1. ApiInv => CommandLineDecodes
  BY DEF ApiInv, HandlerInv, CommandLineDecodes
<1> QED
  BY <1>1, ApiInvariant, PTL
=============================================================================
