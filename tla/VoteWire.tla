------------------------------ MODULE VoteWire ------------------------------
(***************************************************************************)
(* The contract between the HTTP server and its clients, method by method: *)
(* what the server checks of a request before any business logic runs,     *)
(* which statuses its answer may have, what the generated client puts into *)
(* a request, what the command line checks first, and which answers the    *)
(* client turns into a result or a typed error.  The server and the client *)
(* are generated apart from each other and deployed apart from each other, *)
(* so that each has a table of its own here.                               *)
(*                                                                         *)
(* What can be wrong with a request: its body is not "json", or a field of *)
(* it is "missing" or has a wrong "format" (a UID, a time), "length",      *)
(* "enum" value or "range"; a list in its body has null "entries"; its     *)
(* path names no "uid"; its bearer "token" is not valid.                   *)
(***************************************************************************)
BodyFlaws == {"json", "missing", "format", "length", "enum", "range"}
Flaws == BodyFlaws \union {"entries", "uid", "token"}

(***************************************************************************)
(* The server's checks of a body (server/types.go: Validate...RequestBody),*)
(* with those of the values nested in it; and of a body at all.            *)
(***************************************************************************)
PollChoiceRequest == {"missing", "format"}
PollQuestionRequest == {"missing", "format", "enum"} \union PollChoiceRequest
PollCommentPromptRequest == {"missing"}
RankedChoiceRequest == {"missing", "format", "range"}
VoteAnswerRequest == {"missing", "format"} \union RankedChoiceRequest
CommentResponseRequest == {"missing", "format"}

CreateVoteRequest == {"missing", "format", "length", "enum", "range"}
                       \union PollQuestionRequest \union PollCommentPromptRequest
UpdateVoteRequest == {"missing", "format", "length", "enum", "range"}
                       \union PollQuestionRequest \union PollCommentPromptRequest
ExtendVoteRequest == {"missing", "format", "length"}
BulkResendVoteRequest == {"missing"}
CreateVoteResponseRequest == {"missing", "format"} \union VoteAnswerRequest \union CommentResponseRequest
UpdateVoteResponseRequest == {"missing"} \union VoteAnswerRequest \union CommentResponseRequest
CreateVoteResponseByLinkRequest == {"missing", "length"} \union VoteAnswerRequest \union CommentResponseRequest
UpdateVoteResponseByLinkRequest == {"missing", "length"} \union VoteAnswerRequest \union CommentResponseRequest
GetVoteBallotByLinkRequest == {"missing", "length"}

\* The errors every method declares, and those of the methods that may conflict.
Declared == {"BadRequest", "Forbidden", "InternalServerError", "NotFound",
             "ServiceUnavailable", "Unauthorized"}
WithConflict == Declared \union {"Conflict"}

(***************************************************************************)
(* The server: the parts Decode...Request refuses when they are malformed, *)
(* the status of Encode...Response and the errors Encode...Error knows.    *)
(***************************************************************************)
ServesCreateVote == [checks |-> {"json"} \union CreateVoteRequest, ok |-> "Created",
  errors |-> WithConflict]
ServesGetVote == [checks |-> {"uid"}, ok |-> "OK",
  errors |-> Declared]
ServesUpdateVote == [checks |-> {"json", "uid"} \union UpdateVoteRequest, ok |-> "OK",
  errors |-> Declared]
ServesDeleteVote == [checks |-> {"uid"}, ok |-> "NoContent",
  errors |-> Declared]
ServesExtendVote == [checks |-> {"json", "uid"} \union ExtendVoteRequest, ok |-> "OK",
  errors |-> Declared]
ServesEndVote == [checks |-> {"uid"}, ok |-> "OK",
  errors |-> WithConflict]
ServesEnableVote == [checks |-> {"uid"}, ok |-> "NoContent",
  errors |-> Declared]
ServesBulkResendVote == [checks |-> {"json", "uid"} \union BulkResendVoteRequest, ok |-> "NoContent",
  errors |-> Declared]
ServesGetVoteResults == [checks |-> {"uid"}, ok |-> "OK",
  errors |-> Declared]
ServesCreateVoteResponse == [checks |-> {"json"} \union CreateVoteResponseRequest, ok |-> "NoContent",
  errors |-> Declared]
ServesGetVoteResponse == [checks |-> {"uid"}, ok |-> "OK",
  errors |-> Declared]
ServesUpdateVoteResponse == [checks |-> {"json", "uid"} \union UpdateVoteResponseRequest, ok |-> "NoContent",
  errors |-> Declared]
ServesCreateVoteResponseByLink == [checks |-> {"json"} \union CreateVoteResponseByLinkRequest, ok |-> "NoContent",
  errors |-> WithConflict]
ServesUpdateVoteResponseByLink == [checks |-> {"json"} \union UpdateVoteResponseByLinkRequest, ok |-> "NoContent",
  errors |-> WithConflict]
ServesGetVoteBallotByLink == [checks |-> {"json"} \union GetVoteBallotByLinkRequest, ok |-> "OK",
  errors |-> Declared]
ServesResendVoteResponse == [checks |-> {"uid"}, ok |-> "NoContent",
  errors |-> Declared]

Server == [
  CreateVote |-> ServesCreateVote,
  GetVote |-> ServesGetVote,
  UpdateVote |-> ServesUpdateVote,
  DeleteVote |-> ServesDeleteVote,
  ExtendVote |-> ServesExtendVote,
  EndVote |-> ServesEndVote,
  EnableVote |-> ServesEnableVote,
  BulkResendVote |-> ServesBulkResendVote,
  GetVoteResults |-> ServesGetVoteResults,
  CreateVoteResponse |-> ServesCreateVoteResponse,
  GetVoteResponse |-> ServesGetVoteResponse,
  UpdateVoteResponse |-> ServesUpdateVoteResponse,
  CreateVoteResponseByLink |-> ServesCreateVoteResponseByLink,
  UpdateVoteResponseByLink |-> ServesUpdateVoteResponseByLink,
  GetVoteBallotByLink |-> ServesGetVoteBallotByLink,
  ResendVoteResponse |-> ServesResendVoteResponse]

Methods == DOMAIN Server

(***************************************************************************)
(* The command line: what Build...Payload refuses before anything is sent, *)
(* and the checks of nested values it shares with no one else.             *)
(***************************************************************************)
PollChoiceArgument == {"format"}
PollQuestionArgument == {"missing", "format", "enum"} \union PollChoiceArgument
RankedChoiceArgument == {"format", "range"}
VoteAnswerArgument == {"format"} \union RankedChoiceArgument
CommentResponseArgument == {"format"}

BuildsNothing == {}  \* mutant: the arguments are sent as they are
BuildsCreateVote == {"json", "missing", "format", "length", "enum", "range"} \union PollQuestionArgument
BuildsGetVote == {"uid"}
BuildsUpdateVote == {"json", "uid", "missing", "format", "length", "enum", "range"} \union PollQuestionArgument
BuildsDeleteVote == {"uid"}
BuildsExtendVote == {"json", "uid", "format", "length"}
BuildsEndVote == {"uid"}
BuildsEnableVote == {"uid"}
BuildsBulkResendVote == {"json", "uid", "missing"}
BuildsGetVoteResults == {"uid"}
BuildsCreateVoteResponse == {"json", "format"} \union VoteAnswerArgument \union CommentResponseArgument
BuildsGetVoteResponse == {"uid"}
BuildsUpdateVoteResponse == {"json", "uid"} \union VoteAnswerArgument \union CommentResponseArgument
BuildsCreateVoteResponseByLink == {"json", "length"} \union VoteAnswerArgument \union CommentResponseArgument
BuildsUpdateVoteResponseByLink == {"json", "length"} \union VoteAnswerArgument \union CommentResponseArgument
BuildsGetVoteBallotByLink == {"json", "length"}
BuildsResendVoteResponse == {"uid"}

CommandLine == [
  CreateVote |-> BuildsCreateVote,
  GetVote |-> BuildsGetVote,
  UpdateVote |-> BuildsUpdateVote,
  DeleteVote |-> BuildsDeleteVote,
  ExtendVote |-> BuildsExtendVote,
  EndVote |-> BuildsEndVote,
  EnableVote |-> BuildsEnableVote,
  BulkResendVote |-> BuildsBulkResendVote,
  GetVoteResults |-> BuildsGetVoteResults,
  CreateVoteResponse |-> BuildsCreateVoteResponse,
  GetVoteResponse |-> BuildsGetVoteResponse,
  UpdateVoteResponse |-> BuildsUpdateVoteResponse,
  CreateVoteResponseByLink |-> BuildsCreateVoteResponseByLink,
  UpdateVoteResponseByLink |-> BuildsUpdateVoteResponseByLink,
  GetVoteBallotByLink |-> BuildsGetVoteBallotByLink,
  ResendVoteResponse |-> BuildsResendVoteResponse]

(***************************************************************************)
(* The client: what may be wrong with a request of Build...Request and     *)
(* Encode...Request.  Its bodies are JSON, and no required field is absent.*)
(***************************************************************************)
SendsCreateVote == {"format", "length", "enum", "range", "entries", "token"}
SendsGetVote == {"uid", "token"}
SendsUpdateVote == {"format", "length", "enum", "range", "entries", "uid", "token"}
SendsDeleteVote == {"uid", "token"}
SendsExtendVote == {"format", "length", "uid", "token"}
SendsEndVote == {"uid", "token"}
SendsEnableVote == {"uid", "token"}
SendsBulkResendVote == {"uid", "token"}
SendsGetVoteResults == {"uid", "token"}
SendsCreateVoteResponse == {"format", "range", "entries", "token"}
SendsGetVoteResponse == {"uid", "token"}
SendsUpdateVoteResponse == {"format", "range", "entries", "uid", "token"}
SendsCreateVoteResponseByLink == {"format", "length", "range", "entries", "token"}
SendsUpdateVoteResponseByLink == {"format", "length", "range", "entries", "token"}
SendsGetVoteBallotByLink == {"length", "token"}
SendsResendVoteResponse == {"uid", "token"}

(***************************************************************************)
(* The client: the statuses Decode...Response reads, success and errors,   *)
(* and what it requires of a result (client/types.go: Validate...Response- *)
(* Body).  The server's types see to it that no required field is missing, *)
(* of the rest it checks nothing: the values are ITX's.                    *)
(***************************************************************************)
PollChoiceResponse == {"missing", "format"}
PollQuestionResponse == {"missing", "format", "enum"} \union PollChoiceResponse
PollCommentPromptResponse == {"missing", "format"}
PollQuestionDetailResponse == {"missing", "format"} \union PollChoiceResponse
GenericChoiceVoteResponse == {"missing", "format"}
RankCountResponse == {"missing", "range"}
CondorcetMatrixEntryResponse == {"missing"}
RankedChoiceVoteResponse == {"missing", "format"} \union RankCountResponse \union CondorcetMatrixEntryResponse
RankedChoiceWinnerInfoResponse == {"missing"} \union PollChoiceResponse
VoteCountResponse == {"missing"}
IRVRoundSummaryResponse == {"missing"} \union VoteCountResponse
MeekSTVVoteCountResponse == {"missing"}
MeekSTVElectedChoiceResponse == {"missing"}
MeekSTVRoundSummaryResponse == {"missing"} \union MeekSTVVoteCountResponse \union MeekSTVElectedChoiceResponse
PollResultItemResponse ==
  {"missing"} \union PollQuestionDetailResponse \union GenericChoiceVoteResponse
    \union RankedChoiceVoteResponse \union RankedChoiceWinnerInfoResponse
    \union IRVRoundSummaryResponse \union MeekSTVRoundSummaryResponse
CommentResponseWithUserResponse == {"missing", "format"}
CommentResultItemResponse == {"missing"} \union PollCommentPromptResponse \union CommentResponseWithUserResponse
VoteChoiceAnswerResponse == {"missing", "format"}
RankedVoteChoiceAnswerResponse == {"missing", "format", "range"}
VoteAnswerResponse == {"missing", "format", "enum"} \union VoteChoiceAnswerResponse
                        \union RankedVoteChoiceAnswerResponse
CommentResponseResponse == {"missing", "format"}
VoteLinkBallotResponse == {"missing"} \union VoteAnswerResponse \union CommentResponseResponse

VoteResponse == {"missing", "format", "length", "enum"}
                  \union PollQuestionResponse \union PollCommentPromptResponse
CreateVoteResult == VoteResponse
GetVoteResult == VoteResponse
UpdateVoteResult == VoteResponse
ExtendVoteResult == VoteResponse
EndVoteResult == VoteResponse
GetVoteResultsResult == {"missing", "format"} \union PollResultItemResponse \union CommentResultItemResponse
GetVoteResponseResult == {"missing", "format"} \union VoteAnswerResponse \union CommentResponseResponse
GetVoteBallotByLinkResult == {"missing", "format", "length", "enum"} \union PollQuestionResponse
                               \union PollCommentPromptResponse \union VoteLinkBallotResponse

ReadsCreateVote == [ok |-> "Created", errors |-> WithConflict, result |-> CreateVoteResult]
ReadsGetVote == [ok |-> "OK", errors |-> Declared, result |-> GetVoteResult]
ReadsUpdateVote == [ok |-> "OK", errors |-> Declared, result |-> UpdateVoteResult]
ReadsDeleteVote == [ok |-> "NoContent", errors |-> Declared, result |-> {}]
ReadsExtendVote == [ok |-> "OK", errors |-> Declared, result |-> ExtendVoteResult]
ReadsEndVote == [ok |-> "OK", errors |-> WithConflict, result |-> EndVoteResult]
ReadsEnableVote == [ok |-> "NoContent", errors |-> Declared, result |-> {}]
ReadsBulkResendVote == [ok |-> "NoContent", errors |-> Declared, result |-> {}]
ReadsGetVoteResults == [ok |-> "OK", errors |-> Declared, result |-> GetVoteResultsResult]
ReadsCreateVoteResponse == [ok |-> "NoContent", errors |-> Declared, result |-> {}]
ReadsGetVoteResponse == [ok |-> "OK", errors |-> Declared, result |-> GetVoteResponseResult]
ReadsUpdateVoteResponse == [ok |-> "NoContent", errors |-> Declared, result |-> {}]
ReadsCreateVoteResponseByLink == [ok |-> "NoContent", errors |-> WithConflict, result |-> {}]
ReadsUpdateVoteResponseByLink == [ok |-> "NoContent", errors |-> WithConflict, result |-> {}]
ReadsGetVoteBallotByLink == [ok |-> "OK", errors |-> Declared, result |-> GetVoteBallotByLinkResult]
ReadsResendVoteResponse == [ok |-> "NoContent", errors |-> Declared, result |-> {}]

Client == [
  CreateVote |-> [sends |-> SendsCreateVote, reads |-> ReadsCreateVote],
  GetVote |-> [sends |-> SendsGetVote, reads |-> ReadsGetVote],
  UpdateVote |-> [sends |-> SendsUpdateVote, reads |-> ReadsUpdateVote],
  DeleteVote |-> [sends |-> SendsDeleteVote, reads |-> ReadsDeleteVote],
  ExtendVote |-> [sends |-> SendsExtendVote, reads |-> ReadsExtendVote],
  EndVote |-> [sends |-> SendsEndVote, reads |-> ReadsEndVote],
  EnableVote |-> [sends |-> SendsEnableVote, reads |-> ReadsEnableVote],
  BulkResendVote |-> [sends |-> SendsBulkResendVote, reads |-> ReadsBulkResendVote],
  GetVoteResults |-> [sends |-> SendsGetVoteResults, reads |-> ReadsGetVoteResults],
  CreateVoteResponse |-> [sends |-> SendsCreateVoteResponse, reads |-> ReadsCreateVoteResponse],
  GetVoteResponse |-> [sends |-> SendsGetVoteResponse, reads |-> ReadsGetVoteResponse],
  UpdateVoteResponse |-> [sends |-> SendsUpdateVoteResponse, reads |-> ReadsUpdateVoteResponse],
  CreateVoteResponseByLink |-> [sends |-> SendsCreateVoteResponseByLink, reads |-> ReadsCreateVoteResponseByLink],
  UpdateVoteResponseByLink |-> [sends |-> SendsUpdateVoteResponseByLink, reads |-> ReadsUpdateVoteResponseByLink],
  GetVoteBallotByLink |-> [sends |-> SendsGetVoteBallotByLink, reads |-> ReadsGetVoteBallotByLink],
  ResendVoteResponse |-> [sends |-> SendsResendVoteResponse, reads |-> ReadsResendVoteResponse]]

(***************************************************************************)
(* The body of an answer is "typed" (what the design declares: a result,   *)
(* or an error with its code and message), or the "plain" error body of    *)
(* the Goa library, which has no code.                                     *)
(***************************************************************************)
Result(m) == [status |-> Server[m].ok, body |-> "typed"]

\* An error that is none of the design's: the library reports an internal one.
Unnamed == [status |-> "InternalServerError", body |-> "plain"]

\* Encode...Error: an error the method declares keeps its status, any other
\* is left to the library, which knows nothing of it.
Refusal(m, e) ==
  IF e \in Server[m].errors THEN [status |-> e, body |-> "typed"]
                            ELSE Unnamed

\* An error of the library itself: a request that could not be decoded.
Undecodable == [status |-> "BadRequest", body |-> "plain"]

\* What may be wrong with a result: the flaws of ITX's values.
ResultFlaws == {"format", "length", "enum", "range"}

\* What the caller of the client concludes from an answer: "done", an error
\* of the design, or "unreadable" - an error of the client's own, for a status
\* it does not know or a body without the fields it requires.
Understands(m, answer) ==
  LET knows == Client[m].reads
  IN  CASE answer.status = knows.ok                                   -> "done"
        [] answer.status \in knows.errors /\ answer.body = "typed" -> answer.status
        [] OTHER                                                      -> "unreadable"
=============================================================================
