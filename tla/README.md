# LFX v2 voting service: a TLA+ model

This directory holds TLA+ specifications of the voting service, the TLC
configurations that model-check them, and proofs that TLAPS checks. Paths below
are relative to the repository's root.

Contents: [inventory](#1-the-system), [modules](#2-modules),
[EventSync](#3-eventsync), [VoteLinks](#4-votelinks), [Reindex](#5-reindex),
[VoteApi](#6-voteapi), [runs](#7-runs-and-bounds), [fairness](#8-fairness),
[proofs](#9-proofs), [divergences](#10-where-code-and-documents-part),
[assumptions](#11-assumptions), [not modelled](#12-what-is-not-modelled).

## 1. The system

The service stands in front of ITX, the older system that owns all votes, and
has two halves that share a process and an ID mapper.

* **The API** (`cmd/voting-api/api*.go`, `internal/service`,
  `internal/infrastructure/proxy`) forwards every operation on votes and vote
  responses to ITX by HTTP and translates IDs. It stores nothing.
* **The event processor** (`cmd/voting-api/eventing`,
  `internal/infrastructure/eventing`) mirrors ITX's records. An upstream job
  writes them to the NATS KV bucket `v1-objects`; a durable JetStream consumer
  shared by all instances delivers each revision to one instance, which tells
  the indexer and fga-sync, notes the record in `v1-mappings`, and acknowledges.

| Component | State | Operations | Talks to | Correct if |
|---|---|---|---|---|
| Event processor, KV router (`event_processor.go`, `kv_handler.go`) | consumer (server side), messages in hand | start, stop, route put / soft delete / hard delete, ACK, NAK with delay | JetStream, the three handlers | nothing is lost or retried for ever; undecodable records do not block |
| Vote handler (`vote_event_handler.go`) | `vote.*` in `v1-mappings` | update, delete | mapper, publisher, `v1-mappings` | the indexer and fga-sync follow the record; a delete takes effect |
| Response handler (`vote_response_event_handler.go`) | `vote_response.*` | update, delete | the same, plus the vote's mapping and record, invite handler | never before its vote; ballot redacted if the vote is or may be pseudo-anonymous |
| Result handler (`vote_result_event_handler.go`) | `vote_result.*` | update, delete | the same | only under a live vote; created and updated told apart |
| Ballot privacy (`vote_response_privacy.go`, `event_models.go`) | none | read the vote's setting, redact | `v1-objects` | fails closed |
| Publisher (`nats_publisher.go`) | none | indexer, access and participant messages | indexer, fga-sync | a partial publication is completed on redelivery |
| Invite handler (`vote_response_invite.go`) | `v1_vote_response_lfid_invite_sent.*` | maybe send an invite | user service, invite service, `v1-mappings` | at most one invite for a response, and last |
| Invite-accepted subscriber (`invite_accepted_subscriber.go`) | subscription, context | handle, stop | NATS, ITX | handlers in flight survive a shutdown |
| Vote service (`vote_service.go`) | none | create, update, enable, extend, end, delete, resend, results | ITX, mapper, link signer | a caller can tell what happened from the answer |
| Vote-response service (`vote_response_service.go`) | none | create, read, update, resend; the same by link | ITX, mapper, link signer | a link reaches its own ballot only; contents stay private |
| Vote-link signer (`hmac_signer.go`, `main.go`) | keys, read at start-up | sign, verify | none | key rotation refuses no valid link and honours no revoked one |
| ITX client (`proxy/client.go`) | OAuth2 token | one method per ITX call | ITX | each outcome is reported as what it is |
| ID mapper (`nats_mapper.go`) | none | v1 to v2 and back | NATS | unknown and unavailable are told apart |
| Reindex tool (`scripts/reindex-vote-responses`) | scroll cursor, caches | put records back so that they are processed again | index, both buckets | never overwrites a newer record; repairs what it is meant to |
| HTTP layer (`api*.go`, `service/*_converters.go`) | none | convert, call a service, map errors | services | errors keep their meaning |
| Generated code (`gen/`) | none | decode and check, encode; the client and the command line the reverse | HTTP layer, callers | server, client and command line agree on each method |
| Process (`main.go`) | run state | start, stop in order within 30 s | all of the above | nothing in progress is cut short |
| Auth, middleware, logging, chart | none | | | |

What is hard in it: several instances share one consumer, and a delivery that
outlives AckWait runs twice; a handler makes up to ten remote calls, any of
which may fail or be its last; what it read at one call may be stale at the
next; records of a vote, its responses and its results arrive in any order;
instances with different keys serve the same links during a rollout; the reindex
tool judges records that change under it; and a call of ITX may be carried out
after the handler that made it has answered.
`PROJECT.json` lists each such hazard at its line with the properties that would
catch it.

## 2. Modules

| Module | What it is |
|---|---|
| `EventSync` | the event processor: upstream, consumer, replicas, handlers, mappings, indexer, fga-sync, invites |
| `RecordMirror` | what the event processor promises of one record, abstractly; `EventSync` implements it (`Mirror`) |
| `EventSyncProofs` | theorems about `EventSync`, for any number of replicas |
| `SingleReplicaProofs` | theorems about `EventSync` with one replica: invites, the refinement, results, acknowledged writes |
| `DeleteProofs` | theorems about `EventSync` with one replica: acknowledged deletes |
| `VoteLinks` | personalized vote links: key rotation, signing, and requests by link |
| `VoteLinksProofs` | theorems about `VoteLinks` |
| `Reindex` | the reindex tool, composed with all of `EventSync` (EXTENDS) |
| `ReindexProofs` | theorems about `Reindex`, for any number of replicas |
| `ReindexPassProofs` | theorems about `Reindex` with one replica: what a pass achieves |
| `VoteWire` | per method, what the server, the client and the command line check, send and read |
| `VoteLife` | the life of a vote in ITX, as the documents describe it (external) |
| `VoteApi` | requests through the server, the services and the ITX client; accepted invites; shutdown. EXTENDS the two above |
| `VoteLedger` | what the API promises its callers, abstractly; `VoteApi` implements it (`Ledger`) |
| `VoteApiProofs` | theorems about `VoteApi` and `VoteWire` |
| `MCEventSync`, `MCVoteLinks`, `MCReindex`, `MCVoteApi` | values of the constants for TLC |

An operator whose comment starts with "Mutant:" is not part of a specification:
it is a plausible bug in the definition below it, and the properties are checked
to notice it.

## 3. EventSync

**State.** `log[k]` is every revision written to key `k` of `v1-objects`, `cons[k]`
what the consumer knows of the last one (`new`, `out`standing, `nak`ed and waiting
for its delay, `acked`, or `dropped` after MaxDeliver attempts, with the number
`n` of attempts). `buf[w]` are deliveries that replica `w` has fetched, `job[w]` the
handler it runs: its next step `pc`, the key and revision, and the three locals
the code carries from one call to a later one (`act`, the indexer action; `redact`,
the vote's privacy). `closing` are the replicas told to shut down, whose handlers'
context is cancelled. `mapping` and `marker` are `v1-mappings`; `index`, `access`,
`grants` and `invited` are what the receivers of the messages are left with.

**Actions.** Each step of a handler is one remote call, with the early returns
that follow it:

| Steps | Code |
|---|---|
| `Receive` | `kvMessageHandler` to `kvHandler`: decode, route, soft and hard deletes |
| `ConvertVote`, `ConvertResponse`, `ConvertResult` | the conversion, of which only the ID mapper's answer matters; votes and results NAK on an unavailable mapper, responses ACK on any error |
| `ResponseParent`, `ResultParent` | the vote's mapping must exist (responses), and be live (results) |
| `ReadPrivacy` | `pollIsPseudoAnonymous` |
| `LookupAction` / `Dedupe` | created or updated / tombstone already there |
| `PublishIndex`, `VoteAccess`, `ResponseAccess`, `Participant` | the messages of one publication, in order; each may fail |
| `StoreMapping`, `Done` | mapping or tombstone, its failure ignored; ACK |
| `CheckMarker`, `ResolveInvitee`, `MarkPending`, `SendInvite` | `maybeSendInvite` |

`Write` is the upstream; `Deliver`, `Expire` (AckWait runs out), `AckMsg`, `NakMsg`
the consumer. An instance stops in one of two ways, and another one starts in its
place (`Restart`):

| Steps | Code |
|---|---|
| `Crash` | it is killed at any step, with whatever it was doing half done |
| `Shutdown` | `main.go:357-363` closes the connection of the invites and cancels the context of the event processor, before it stops anything: the handler in hand goes on, and so do those of deliveries already fetched |
| `Close` | `EventProcessor.Stop` stops the consumer and closes the connection, at any step of a handler, of which nothing gets out any more |

Between `Shutdown` and `Close` every call that takes the handler's context may fail
(`CallFails`): the mapper's lookup, reads and writes of the buckets, the invite. What
a handler makes of that failure is its own: a vote or a result is given back, a
response is acknowledged unsynced, a mapping that cannot be read counts as absent,
one that cannot be stored is ignored. Publishing and acknowledging take no context
and still work (section 10 says what comes of it).

`Faults` names what may go wrong in a run, and each fault is then possible at
every step where the code can meet it: a crash, a shutdown, a handler slower than
AckWait, an unavailable or rejecting mapper, failing reads and writes of the buckets,
transient and permanent publish errors, an invite service that does not answer
(having sent the invite or not). `{}` is the run in which nothing fails.

**Properties.**

* For any number of replicas: `ParentIndexedFirst`, `BallotOnlyIfOpen`,
  `InviteComesLast`, and the inductive invariant `IInv` behind them.
* For one replica, under every fault, kills and shutdowns included: `InviteOnce`;
  `ImplementsMirror` (the indexer never goes back to an older revision);
  `ResultUnderLiveVote`, `ResultUpdatedOnlyIfLive`. Their runs name some of the faults, the theorems none.
* For one replica, without the faults section 9 names, shutdowns among them:
  `AckedPutIsSynced`, `AckedDeleteIsGone`. Of votes and results the first holds
  through shutdowns too (`VoteAndResultPutsAreSynced`).
  `AckedDeleteIsGone` asks for the removal of the participant tuple only where every
  delete of the response is soft and names the voter: a hard delete carries no
  record, and leaves a tombstone at which the next delete stops
  (`docs/fga-contract.md:92` has the gap).
* Liveness: `Settles`, `KnownVoteSuffices`, on the assumption that the ID mapper
  answers (section 8).

## 4. VoteLinks

**State.** `secret` is the configuration an operator edits (key set, key listed
first, override), `signer[w]` the one replica `w` started with, `links` the links
sent. `privacy` and `voted` are ITX's votes and ballots, `req[w]` the request a
replica serves and `shown` what it returned. The token's encoding is abstracted to
the two IDs and the key id: a signature verifies exactly if the key is known.

**Actions.** `AddKey`, `PromoteKey`, `RemoveKey`, `ClearOverride` are the operator,
bound to the procedure of `docs/vote-links.md`: one change, rolled out before the
next, key ids not reused. `Restart` is a start-up in a rollout or after a failure
(`newVoteLinkSigner`, `NewHMACSigner`): with an override that names no listed key
the instance does not come up. `BulkResendVote` signs for any recipients the caller
names, as the code does. `Arrive` is `verifyVoteLink`; `Submit` the two submissions;
`GetVote`, `GetPoll`, `ReturnBallot` and `Fail` the calls of `GetBallotByLink`, between
which `SetPrivacy` may edit the vote.

**Properties.** `LinksKeepVerifying`, `RevokedLinksAreDead`, `ContentsOnlyIfOpen`,
`ShowsOwnVote`, and the inductive invariant `LinksInv` behind them. `LinksKeepVerifying`
rests on the procedure: links are in use with one key at the start, since the
first key ever configured has no earlier rollout in which it only verifies.

## 5. Reindex

An operator runs `scripts/reindex-vote-responses` after a release, beside the
replicas: it scrolls through the index and writes each eligible record back to
`v1-objects`, unchanged, so that it is handled once more.

**State.** Beside `EventSync`'s: `tool` (the step of the run, its options, the
document in hand and the revision read), `scroll` (documents left), `outcome` (its
tally), `parentOK` and `pseudoOK` (the answers it caches about votes), and two
history variables, `replays` and `asked`.

**Actions.** `Start` checks the options and opens the scroll; `Process` takes a
document through the scope and copy checks; `ReadRecord`, `ReadMapping`,
`ParentMapped` and `ParentPseudoAnonymous` are the reads, each of which may fail and
abort the run; `ReplayRecord` is the put conditional on the revision, which may find
the record changed or get no answer. A replay is one more revision for the consumer.
Every action of the service is interleaved with them; the run starts in states in
which responses were indexed with their ballots by an earlier release.

**Properties.** `ReplayKeepsRecord` (nothing the upstream wrote is overwritten),
`ReplayIsUpdate` (no replay is taken for a new response), `PassLeavesNoCopy`,
`PrivacyPassRedacts` (after a privacy pass that reports success, and once its
deliveries are acknowledged, no response of a pseudo-anonymous vote keeps its
ballot), `PassGrants` (a voter whose response was replayed is a participant), and
the inductive invariant `ReindexInv`.

`PrivacyPassRedacts` names what it leaves out, each for a way the code has of
keeping a ballot after such a pass:

* the run skipped the response (another vote's, undecodable, not mapped, its vote not
  mapped) or found it changed since it was read;
* the vote was open at some time since the run asked about it;
* the run found the response deleted and counted it, and the upstream wrote it again,
  which may have been while the vote was still open, before the run asked about that
  vote for another response;
* the response was written again after a delete, and a tombstone which that write
  failed to replace let the handler skip the next delete.

The last two take more revisions than the run `reindex` has; they were found on the
way to the proof, the third then with TLC on an instance with three revisions of a
response.

## 6. VoteApi

**State.** `poll[v]` and `ballot[v]` are ITX's votes; `req[r]` what request `r` asks
for, `at[r]` how far its handler is, `call[r]` its call of ITX in progress or the
answer to it, `seen[r]` the status it has read, `result[r]` what it has come to,
`out[r]` what its caller was told, `took[r]` whether ITX carried it out. `acc` and
`enriched` are the accepted invites, `proc` the process.

**Actions.** `Flow` gives the steps of each of the sixteen methods in the order of
the service's code, `Proxies` its call of ITX:

| Action | Code |
|---|---|
| `Send` | a caller, by the generated client, from the command line or a program |
| `Admit` | `Decode...Request`, `JWTAuth`, the converters of `cmd/voting-api/service` |
| `Lookup`, `BuildLinks`, `VerifyLink` | `mapRequestIDsV2ToV1`, `mapPollResponseV1ToV2`; `buildVoteLinks`; `verifyVoteLink` |
| `SendCall`, `Return`, `GiveUp` | a method of the ITX client: the request, its answer with `mapHTTPError` and the service's check of it, the timeout or a lost caller |
| `ItxReads`, `ItxTakes`, `ItxRefuses` | ITX, at any time after the call was sent, also when nobody waits for it any more |
| `Answer` | `handleError`, `Encode...`, the network, and `Decode...Response` in the client |
| `Deliver`, `ProcessInviteAccepted`, `AcceptInvite` | the invite-accepted subscriber |
| `Stop`, `Exit`, `Kill` | the end of `main`'s `run`: the subscriber, then the server with its 30 seconds |

**The wire** (`VoteWire`). A request may be flawed in nine ways (`Flaws`). For each
method `Serves...` lists the flaws the server refuses with its status and errors,
`Sends...` those the client cannot rule out, `Builds...` those the command line
refuses, `Reads...` the answers the client understands and the flaws of a result it
refuses. The checks of nested values are definitions of their own, as in the
generated code. Each table is written from its own generator output.

**Properties.**

* `ImplementsLedger`: the API is a `VoteLedger`. Each request takes effect at most
  once; "done" is said only after it has; `NotFound` and `Conflict` mean that it has
  not and never will, and so do `BadRequest` and an unreadable answer for a method
  without a result. It cannot be stronger: a method with a result translates it
  after the fact and may refuse then, and `ServiceUnavailable` or
  `InternalServerError` say nothing about ITX.
* `DisabledNeverEnded`: `EndVote`'s check and its call are two calls of ITX, and
  hold together because no vote is ever disabled again. It would break with any
  method that disables a vote.
* `CommandLineDecodes`: what the command line has accepted the server can decode.
* `HandlersEnd`: every request is answered, and every acceptance handled to its
  end, whatever ITX does, unless the process is killed under it.

## 7. Runs and bounds

All runs of `MCEventSync` have one vote and one response to it or one result of
it: the handlers never relate records other than a child and its vote. Sizes are
distinct states.

| Run | Instance | Shows | States |
|---|---|---|---|
| `sync_one` | 1 replica, shutdowns, slow handlers, publish errors, puts and hard deletes, 2 revisions of the vote and 1 of the response | `TypeOK`, `InviteComesLast`, `ImplementsMirror` | 1.2 M |
| `sync_two` | 2 replicas, slow handlers | `IInv` (with `InviteComesLast`), `ParentIndexedFirst`, `BallotOnlyIfOpen` | 1.9 M |
| `sync_transient` | 1 replica that may be killed, transient errors, lost invite answers, undecodable records | `AckedPutIsSynced`, `InviteOnce`, `Settles` | 0.4 M |
| `sync_slow` | 1 replica slower than AckWait, 2 revisions of vote and response, MaxAckPending 1 | `AckedDeleteIsGone`, `KnownVoteSuffices` | 0.8 M |
| `sync_results` | a vote and its result, 2 and 4 revisions, failing reads, mapper and publisher | `AckedDeleteIsGone`, `ResultUnderLiveVote`, `ResultUpdatedOnlyIfLive` | 0.4 M |
| `reindex` | a vote and two responses, one replica, one pass (privacy, grants, or a refused mix of options), one more revision of the vote and of a response, a failing read or put | the properties of `Reindex` | 1.4 M |
| `api` | two requests and one vote from four states of its life, or one acceptance; any method, with at most one flaw | the properties of `VoteApi` | 0.4 M |
| `links` | 2 replicas, 3 keys, 2 votes, a ballot, 1 link | the properties of `VoteLinks` | 0.5 M |
| `sync_mapper_outage`, `sync_orphan`, `sync_invites`, `sync_deletes` | the smallest that show it | section 10 | |

Why these bounds are enough to be of interest:

* **Revisions.** The vote has two, so that a put, a delete or a privacy change can
  fall between any two steps of the response's handler; the result has four, for
  put, delete, put, delete or update. A response needs a second one only where a
  delete of it is checked (`sync_slow`).
* **MaxDeliver** is 2 in place of 3: a first attempt, a redelivery and the drop
  after the last are all there. **MaxAckPending** is 2 (1 in `sync_slow`) in place
  of 1000, so that the limit is met. **Prefetch** is 1: one delivery waits behind the
  handler, enough for a revision to be superseded while it waits.
* **Faults of `sync_one`.** It names neither crashes nor failing calls to the mapper,
  the buckets and the invite service, since a shutdown has them all: between
  `Shutdown` and `Close` each of these calls may fail or not, and `Close` itself may
  fall at any step. Voters are known only by email there, which is the case the
  invites are about.
* **Replicas.** Two suffice for a delivery to be handled twice at once. They are
  interchangeable (symmetry), and in `sync_two` voters are known only by email
  (`User` is empty), which is the case invites and redaction are about.
* **Links.** Every property speaks of one link at a time and links do not
  interact, so one is enough; a link may name a ballot of another vote. Three keys
  allow an addition, a removal and another addition.

* **Reindex.** Two responses, since the caches about a vote are filled by one and
  used for the other. The first has two more revisions (the upstream's and the
  replay's), the vote two, so that its privacy may change at any step of the run.
* **API.** Requests meet only through ITX's vote, and each effect of one on the
  handler of another needs two. The first is any of the sixteen methods, the
  second one that changes a vote's state (`EnableVote`, `EndVote`); a third adds no
  new case, since a handler reads at most one state before its call. A malformed
  request never reaches ITX and is checked alone, and so is an acceptance, which
  shares only the process with requests. ITX makes at most one vote.

`CHECK_DEADLOCK FALSE` in the runs: writes and deliveries are bounded,
and when all are settled nothing is left to do.

## 8. Fairness

`FairSpec` assumes of the consumer that it hands out what is due to some replica
with room and that its AckWait timers fire, and of each replica that it goes on
with the handler it runs or takes the next delivery, on the one goroutine that runs
the callback of `Consume`. Weak fairness is enough, as each of these stays enabled
until it is taken. Nothing obliges the upstream to write, a replica to stop or not
to stop, or a fault to happen or to end.

The code makes this good at every step but one. Reads and writes of the buckets end
by the client library's default timeout, the invite and the lookup of its user by
timeouts of their own (10 s), publishing and acknowledging wait for nobody. The
mapper's lookup has no deadline: `nats_mapper.go:136` calls `RequestWithContext` with
the context it is given, below a comment that says "Send request with timeout", and
the configured timeout is stored and never used. The event handlers run under the
lifetime context of the processor (`main.go:183`), so that a lookup whose answer is
lost holds the only handler of its instance until a shutdown, and what that instance
has fetched is not handled meanwhile. `Fairness` therefore leaves the step `convert` out, and `FairSpec` adds `MapperAnswers`, the
assumption that a lookup gets an answer or an error in the end. `Settles` and
`KnownVoteSuffices` rest on it: under `Spec /\ Fairness` TLC refutes both, by a handler
that stays at `convert`.

`Settles` holds although crashes may recur, since MaxDeliver bounds the attempts.
`KnownVoteSuffices` is checked with slow handlers only: with other faults a response
may be dropped after MaxDeliver attempts, as configured.

`VoteApi`'s fairness is that of each handler: it goes on as long as the process
lives. Of ITX nothing is assumed; a call that gets no answer ends by the client's
timeout (`GiveUp`), which is the handler's own step. The ID mapper is assumed to
answer or its caller to hang up: the lookup has no timeout of its own, although the
mapper is configured with one.

## 9. Proofs

The proof modules hold for any sets of records, users, replicas, keys and links,
for any bounds and any faults, from the named assumptions of the constants alone.

**`EventSyncProofs`.** `TypeOK` is proved alone first, one lemma for each way a step
moves a replica (`Goto`, `Ack`, `Nak`) and one for each action. `ParentIndexedFirst` is
not inductive: that a response is in the indexer only after its vote rests on what
its handler saw several steps ago. `IInv` therefore says, for each step of a
handler, what may still be relied on:

* `RevisionsExist`: a delivery in hand names a revision that was written;
* `StepFits`: a step runs only for the kinds of key that have it, with the action
  the code has set by then;
* `StepSafe`: past the parent check the vote is mapped (mappings are never removed,
  only turned into tombstones); a ballot about to be published unredacted belongs
  to a vote that once was open (`log` only grows); past its publication a record is
  in the indexer; an invite about to be sent has its marker;
* `MappedIsIndexed`: a mapping is stored only after the publication.

`Invariant` proves `IInv` by one step per action, and `TypeCorrect`, `ParentsFirst`,
`BallotsStaySecret` and `InvitesComeLast` follow.

**`SingleReplicaProofs`** assumes `OneReplica`; `sync_invites` shows why. `SoloInv` adds to
`IInv` the order that one replica keeps: its deliveries of a key are in the order of
their revisions, behind the one in hand, and none is older than what the indexer
shows (`InOrder`); a marker found missing is still missing when it is claimed
(`InvitesFirst`); and what a result's handler has read of its vote's and its own
mapping still holds when it publishes (`ResultCurrent`). `InOrder` needs the
supersession of revisions by the bucket: a redelivery is always of the last one.
`OneInvite`, `IndexIsMirror` (the refinement of `RecordMirror`), `ResultsUnderLiveVotes`
and `ResultUpdatesLive` follow, under every fault.

`AckedPutsAreSynced` also assumes `NeverGivesUp`, that nothing makes a handler
acknowledge what it has not done: a record that the mapper, the indexer or fga-sync
refuses (`NeverRefused` excludes these), and for responses a mapper that does not
answer (`sync_mapper_outage`) or a shutdown during the lookup (section 10). `PutInv`
adds what a write has already reached, sink by sink (`PutStage`), and that nothing undoes it before a newer
revision does (`AckedStage`): a delivery that outlived AckWait may still be waiting
when the last one is acknowledged, but carries the same revision. It is stated under
`DistinctVoters`, that the upstream names a user in one response of a vote only, as
two responses share a tuple which the removal of either takes away. The proviso is
part of what the invariant says of a voter's tuple (`Participates`), and what only
responses give up for is a condition on responses (`WaitsOut`), so that
`VoteAndResultPutsAreSynced` assumes `OneReplica` and `NeverRefused` alone: whoever
votes twice, through shutdowns at any step and an unavailable mapper, an
acknowledged write of a vote or a result has reached both sinks.

**`DeleteProofs`.** `AckedDeletesAreGone` assumes `OneReplica`, `DistinctVoters` and
`NothingHalfDone`, that no crash, shutdown, publish error or failing put of a mapping
leaves a record published and its old tombstone in place (`sync_deletes`). `DeleteInv`
says what a delete has taken away so far (`DeleteStage`), that nothing of a record is left
while its tombstone stands, unless a write of it is being published (`TombIsGone`),
and that nothing older than an acknowledged revision is in hand (`AckedLast`). The
theorem covers what `sync_slow` is too small for: any sequence of writes and deletes
of a response, beside other responses of the same vote, under slow handlers and
failing reads. `VoteAndResultDeletesAreGone` has no proviso about voters, and lets
publishing to the indexer fail where the record is a result (`Whole`, as in
`sync_results`): a result goes out in one message, so that a failure publishes
nothing and a success goes on to replace the tombstone. For a vote that would be
false: it takes two messages, and between them the old tombstone stands over a
document that is back.

**`VoteLinksProofs`.** `LinksInv` adds `RotationSafe` (the key any replica signs with, if it
is still configured, is known to all replicas that are up; so are the key listed
first and the active key of a usable configuration) and `RequestSafe` (what a request
relies on between its calls). `Rotation` and `Requests` are kept by separate lemmas,
since requests read the keys only when they arrive. `LinksVerify`, `RevocationWorks`,
`ContentsStayPrivate` and `OwnVoteOnly` follow.

**`ReindexProofs`.** `ReindexInv` adds to the types of the tool and to `StepFits` and
`StepSafe` of `EventSync` that a response the tool has judged was mapped
(`InHand`, `MappedBeforeReplay`), that a replay is a revision equal to the one before
it, and, if reads do not fail (`MappingsRead`: no fault makes them, nor a shutdown),
that any replica which handles a replay has found
the mapping and takes it for an update. Service steps keep it by the lemmas about
`EventSync`, replays by `PutBackInvariant`. `ReplaysKeepRecords` and
`ReplaysAreUpdates` (under `MappingsRead`) follow, and so does `RunsExposeNoBallot`: whatever the mode, the
replicas and the faults, no step of a run, of the upstream or of a replica brings a
ballot into the indexer unless some record of its vote has said that the vote is
open. `CopyInv` says of each response in a privacy pass's scope which has a second
document that, once the response was met, the document is still ahead in the scroll,
where it will abort the pass; `PassesLeaveNoCopy` follows.

**`ReindexPassProofs`** is about what a pass achieves, which is the work of the handlers
its replays wake up; it assumes `OneReplica` and `NeverGivesUp`, as the theorem about
acknowledged writes does, and no other bound, fault or proviso. `PassInv` has two parts
beside `ReindexInv` and `CopyInv`.

* `ServiceInv` is what the replica keeps from whatever state the run begins in. Since
  the records there have a past that is not in `log`, `SoloInv` cannot be used: what
  replaces it says which revision the indexer was told about last. An acknowledged
  revision is that one, or a delete skipped over a tombstone (`AckedShown`); a
  tombstone stands for a delete the indexer was told about, or the record was
  written again since one (`TombShown`); the voter named by an acknowledged put is
  granted, or another record accounts for it (`GrantStage`, `AckedGranted`).
* `HidesInv` ties the run to it. `Tally` says what each count and each cached answer
  rests on, `AskedFirst` that a privacy pass asks about a vote before it replays a
  response to it. From the replay on, and until the vote is opened, every handler of
  that revision or a later one redacts (`Redacts`), so that the indexer shows no
  ballot from then on (`HiddenShown`).

`PrivacyPassesRedact` and `PassesGrant` follow: a response that was counted has been
replayed, or was found in a state in which the index holds no ballot of it, and its
last revision being acknowledged means the indexer shows that revision.

**`VoteApiProofs`.** First the tables: `WireShape` (the client reads what the server
writes; whatever the client can get wrong and the server checks, the command line
checks), `FlowShape` and `FlowSteps` (a method's main call is made once, and only
the translation of its answer follows). `ApiInv` says for each request how far it
is (`HandlerInv`: a call outlives its handler only if it was given up), what the
handler knows of its effect (`EffectInv`: not yet before its call, certainly after a
complete answer, unknown in between), and that a vote `EndVote` found enabled
stays so (`StatusInv`). `ApiInvariant` proves it by one lemma per action;
`ApiTypeOK`, `DisabledVotesAreNotEnded` and `CommandLineIsDecoded` follow, and
`ApiImplementsLedger` maps every step to a step of the ledger or a stutter.

**Only model-checked.** Liveness (`Settles`, `KnownVoteSuffices`, `HandlersEnd`), which
the provers do not reach (nor `ENABLED`, nor induction over data, which these modules
have no need of). Every other property of a passing run is stated by a theorem.

## 10. Where code and documents part

Each has a run that ends in a counterexample, with the quotation in `PROJECT.json`.

| Run | What it shows |
|---|---|
| `sync_mapper_outage` | A vote response is acknowledged, and lost, when the ID mapper is unavailable; votes and results are retried, as `docs/event-processing.md:232` says of all three. |
| `sync_orphan` | A tombstone passes for the vote's mapping, so a response is synced after its vote was deleted (`docs/event-processing.md:368` says it is not). |
| `sync_invites` | Two instances that handle one delivery both find no marker and both invite (`docs/lfid-invites.md:52` says the marker prevents it). |
| `sync_deletes` | Delete, write again with the mapping's Put failing, delete: the second delete meets the old tombstone and has no effect (`docs/event-processing.md:360` means redeliveries of the same delete). |

Noted without a run:

* A shutdown acknowledges responses it has not synced, with a healthy mapper:
  `main.go:363` cancels the handlers' context before `main.go:366` stops the consumer,
  the lookup in hand fails, and `handleVoteResponseUpdate` acknowledges any conversion
  error. `docs/event-processing.md:303-305` has "Consumer drains pending messages
  (30s timeout)", and the comment on `Stop` "gracefully". With `"shutdown"` added to
  the `Faults` of `sync_transient.cfg`, TLC refutes `AckedPutIsSynced` in six states:
  `Write`, `Deliver`, `Receive`, `Shutdown`, and `ConvertResponse` acknowledges. It is
  the fault of `sync_mapper_outage` from another cause, which is why it has no run of
  its own.
* A mapping that is not stored because of a shutdown leaves the old tombstone, as in
  `sync_deletes`, and one that is not read makes a replayed response a new one:
  with `"shutdown"` added to its `Faults`, `sync_results.cfg` refutes
  `AckedDeleteIsGone`; `ReplayIsUpdate` is stated without it.
* The comment above the mapper's lookup says "Send request with timeout"
  (`nats_mapper.go:135`); there is none (section 8).
* A vote or response written again under its tombstone is published as "updated";
  `docs/event-processing.md:353` has "created".
* `docs/vote-links.md` says of reading a ballot that no ID mapping is involved, and
  also that the project's UID is mapped; the code maps it, so that reading a
  ballot fails while the mapper is away.
* `docs/lfid-invites.md:76` and the comment on `InviteAcceptedSubscriber.Stop`
  (lines 70-72) expect Drain to let handlers in flight complete. Drain only starts
  to drain, and the context is cancelled right after: in `VoteApi` an acceptance
  then ends "aborted" or "failed".
* The reindex tool counts a record that changed since it was read as handled by the
  newer write (`reindex.go:113-115`). That write may have been handled while the vote
  was still open; the ballot then stays, in a pass that reports success.
  `PrivacyPassRedacts` is stated of votes that were pseudo-anonymous from the time
  the run asked.
* The tool asks about a vote only for a response that it has not skipped by then. A
  response it finds deleted is skipped (`reindex.go:247-260`); written again at once,
  while the vote is open, it is indexed with its ballot. If the vote then becomes
  pseudo-anonymous and the run asks about it for another response, the pass reports
  success and the ballot stays (section 5).
* A replay is "never" a new response (`reindex.go:117-119`), unless the handler's
  read of the mapping fails, which it takes for a missing one. `ReplayIsUpdate` is
  checked without that fault and without shutdowns.
* A refused token is answered with status 500 and a body without a code, since
  `JWTAuth` returns a domain error outside the API layer; `docs/api-contracts.md:601`
  has 401. The client cannot read it.
* ITX's Conflict becomes a plain 500 for the methods that do not declare it, most
  of them (`docs/api-contracts.md:604`).
* An unknown ID in ITX's answer is reported as `BadRequest` although the request
  took effect (`VoteService.CreateVote`, `UpdateVote`, `ExtendVote`, `EndVote`).
* Null entries in a vote's questions, choices or prompts panic in the converters;
  those of ballots refuse them.
* The command line refuses a vote without the optional `poll_type`: it checks the
  value before the default is set. Results always carry `poll_end_time`, as "" if
  ITX sends none, which the client's check of the format refuses.
* The server's write deadline, 15 s, is shorter than the timeout of an ITX call,
  30 s: a slow call may succeed with no answer to its caller.

## 11. Assumptions

* `v1-objects` stores one revision per key, so a superseded revision is not
  redelivered, though a replica may still hold it. First deliveries may come in
  any order of keys, which allows more than the stream does.
* The indexer and fga-sync apply messages in the order in which they were
  published, and delete-access clears every tuple of its object.
* A response keeps its vote. A voter without a username has an email.
* `junk` stands for a record that cannot be decoded, `reject` for one whose IDs
  are missing or unknown. Invites are enabled and configured.
* ITX carries out a call at most once, and answers 404 only if the vote or the
  ballot is not there; the caller of a creation does not name its vote. A vote that
  was enabled is never disabled again (`docs/api-contracts.md`).
* In `VoteLinks` ITX may refuse any submission; its own rules (vote active, voter not removed, one
  creation) are not relied on by any property.
* Instances hold one request by link each: requests share no state, so two
  instances stand for two concurrent requests anywhere.

## 12. What is not modelled

* Middleware, logging and tracing, the validation of a JWT (a library's, without
  state) and the deployment chart.
* The layout of messages and documents, which receivers outside this repository
  interpret, and the conversion field by field between the API's types and ITX's.
* In the generated code: the declarations and constructors of types, help texts.
* In the reindex tool: the paging of the scroll, and documents without an
  `object_id`, which it counts and skips.
* Start-up other than the reading of signing keys.

What could come next: the format flaws of results field by field, to say which of
ITX's values a client cannot read.
