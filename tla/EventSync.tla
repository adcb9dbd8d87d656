------------------------------ MODULE EventSync ------------------------------
(***************************************************************************)
(* The event processor: v1 records that an upstream job writes to the      *)
(* v1-objects KV bucket reach the replicas of the voting service through a *)
(* durable JetStream consumer, and each replica publishes them to the      *)
(* indexer and to fga-sync and notes in v1-mappings what it has published. *)
(*                                                                         *)
(*   log      every revision written to a key of v1-objects; only the last *)
(*            one is stored, older ones live on in replicas that hold them *)
(*   cons     the consumer's state for the stored revision of each key     *)
(*   buf      deliveries fetched by a replica and not yet handled          *)
(*   job      the handler a replica is running, step by step               *)
(*   closing  replicas told to shut down: their handlers' context is over  *)
(*   mapping  v1-mappings, keys vote.*, vote_response.* and vote_result.*  *)
(*   marker   v1-mappings, keys v1_vote_response_lfid_invite_sent.*        *)
(*   invited  how many invites the invite service has sent for a response  *)
(*   index    what the indexer was last told about a key                   *)
(*   access   the revision whose own access tuples fga-sync holds (0: none)*)
(*   grants   participant tuples fga-sync holds, as <<vote, user>>         *)
(*                                                                         *)
(* Each step of a handler is one remote call it makes, so that the steps   *)
(* of several replicas, of the upstream and of the consumer interleave.    *)
(***************************************************************************)
EXTENDS Naturals, Sequences, FiniteSets

CONSTANTS
  Vote,          \* keys itx-poll.*
  Response,      \* keys itx-poll-vote.*
  Result,        \* keys itx-poll-results.*
  ParentOf,      \* the vote a response or a result names in poll_id
  User, NoUser,  \* usernames; NoUser is a voter known only by email
  Replica,       \* running instances of the service
  Ops,           \* bound: the kinds of write the upstream makes
  Faults,        \* bound: what may go wrong, see FaultKinds
  ParticipantGrants, \* VOTE_PARTICIPANT_GRANTS_ENABLED
  MaxDeliver,    \* consumer MaxDeliver (3 in main.go)
  MaxAckPending, \* consumer MaxAckPending (1000 in main.go)
  Prefetch,      \* bound: deliveries a replica holds beside the one it handles
  MaxRevisions   \* bound: writes to each key

Child == Response \cup Result
Key == Vote \cup Child
OpKinds == {"put", "soft", "hard", "junk"}

\* crash   a replica is killed, restarts    slow    AckWait runs out mid-handler
\* mapper  ID mapper unavailable            reject  ID mapper knows no such ID
\* kvread  v1-mappings / v1-objects read    kvput   v1-mappings write
\* publish transient publish error          payload permanent publish error
\* invite  the invite service does not answer
\* shutdown  a replica is told to stop, as in a rolling restart
FaultKinds == {"crash", "slow", "mapper", "reject", "kvread", "kvput",
               "publish", "payload", "invite", "shutdown"}

ASSUME KeysAssumption ==
  /\ Vote \cap Response = {}
  /\ Vote \cap Result = {}
  /\ Response \cap Result = {}
  /\ ParentOf \in [Child -> Vote]
ASSUME BoundsAssumption ==
  /\ NoUser \notin User
  /\ Ops \subseteq OpKinds
  /\ Faults \subseteq FaultKinds
  /\ ParticipantGrants \in BOOLEAN
  /\ MaxDeliver \in Nat \ {0}
  /\ MaxAckPending \in Nat \ {0}
  /\ Prefetch \in Nat \ {0}
  /\ MaxRevisions \in [Key -> Nat]

VARIABLES log, cons, buf, job, closing, mapping, marker, invited, index, access, grants

stream == <<log, cons>>
tracking == <<mapping, marker>>
sinks == <<index, access, grants>>
vars == <<log, cons, buf, job, closing, mapping, marker, invited, index, access, grants>>

-----------------------------------------------------------------------------
(* Types *)

\* A revision: how it was written and the fields the handlers decide on. open
\* is a vote whose pseudo_anonymity is false; user and removed are a response's.
Entry == [op: OpKinds, open: BOOLEAN, user: User \cup {NoUser}, removed: BOOLEAN]

Delivery == [key: Key, rev: Nat]

Steps == {"convert", "parent", "privacy", "lookup", "dedupe", "index", "access",
          "participant", "record", "marker", "resolve", "pend", "send", "done"}
Actions == {"created", "updated", "deleted"}

Idle == [pc |-> "idle"]
Job == [pc: Steps, key: Key, rev: Nat, act: Actions, redact: BOOLEAN]

QueuesTypeOK ==
  /\ log \in [Key -> Seq(Entry)]
  /\ cons \in [Key -> [st: {"none", "new", "out", "nak", "acked", "dropped"},
                       n: 0..MaxDeliver]]
  /\ buf \in [Replica -> Seq(Delivery)]
  /\ job \in [Replica -> Job \cup {Idle}]
  /\ closing \subseteq Replica
  /\ "shutdown" \notin Faults => closing = {}

EffectsTypeOK ==
  /\ mapping \in [Key -> {"none", "live", "tomb"}]
  /\ marker \in [Response -> {"none", "pending", "sent"}]
  /\ invited \in [Response -> Nat]
  /\ index \in [Key -> [rev: Nat, doc: {"none", "full", "redacted"},
                        act: Actions \cup {"none"}]]
  /\ access \in [Key -> Nat]
  /\ grants \subseteq Vote \X User

TypeOK == QueuesTypeOK /\ EffectsTypeOK

Init ==
  /\ log = [k \in Key |-> <<>>]
  /\ cons = [k \in Key |-> [st |-> "none", n |-> 0]]
  /\ buf = [w \in Replica |-> <<>>]
  /\ job = [w \in Replica |-> Idle]
  /\ closing = {}
  /\ mapping = [k \in Key |-> "none"]
  /\ marker = [r \in Response |-> "none"]
  /\ invited = [r \in Response |-> 0]
  /\ index = [k \in Key |-> [rev |-> 0, doc |-> "none", act |-> "none"]]
  /\ access = [k \in Key |-> 0]
  /\ grants = {}

-----------------------------------------------------------------------------
(* The v1-objects bucket, written by the upstream sync job *)

Stored(k) == log[k][Len(log[k])]

\* What a read of the record behind key k returns: a hard delete leaves no
\* value, a soft delete leaves the record with its fields.
Found(k) == log[k] # <<>> /\ Stored(k).op # "hard"
Decodes(k) == Found(k) /\ Stored(k).op # "junk"

\* The writes the upstream makes to a key: a field that the record's kind does
\* not have, or that a tombstone or an undecodable value loses, is fixed.
Writes(k) ==
  { e \in [op: Ops, open: BOOLEAN, user: User \cup {NoUser}, removed: BOOLEAN] :
      /\ e.op \in {"hard", "junk"} => ~e.open /\ e.user = NoUser /\ ~e.removed
      /\ k \notin Vote => ~e.open
      /\ k \notin Response => e.user = NoUser /\ ~e.removed
      /\ e.op \in {"soft", "hard"} => log[k] # <<>> }

\* A new revision supersedes the stored one, delivered or not.
Supersede(k, e) ==
  /\ log' = [log EXCEPT ![k] = Append(@, e)]
  /\ cons' = [cons EXCEPT ![k] = [st |-> "new", n |-> 0]]

Write(k, e) ==
  /\ Len(log[k]) < MaxRevisions[k]
  /\ e \in Writes(k)
  /\ Supersede(k, e)
  /\ UNCHANGED <<buf, job, closing, tracking, invited, sinks>>

-----------------------------------------------------------------------------
(* The durable consumer shared by the replicas *)

Pending == {k \in Key : cons[k].st \in {"out", "nak"}}

\* The server hands the stored revision of k to replica w: a first delivery
\* within MaxAckPending, or a redelivery after a NAK's delay.
Deliver(w, k) ==
  /\ \/ cons[k].st = "new" /\ Cardinality(Pending) < MaxAckPending
     \/ cons[k].st = "nak"
  /\ cons[k].n < MaxDeliver
  /\ Len(buf[w]) < Prefetch
  /\ buf' = [buf EXCEPT ![w] = Append(@, [key |-> k, rev |-> Len(log[k])])]
  /\ cons' = [cons EXCEPT ![k] = [st |-> "out", n |-> @.n + 1]]
  /\ UNCHANGED <<log, job, closing, tracking, invited, sinks>>

Holds(w, k) ==
  \/ \E i \in DOMAIN buf[w] : buf[w][i] = [key |-> k, rev |-> Len(log[k])]
  \/ job[w] # Idle /\ job[w].key = k /\ job[w].rev = Len(log[k])

\* What becomes of an unacknowledged delivery: redelivered, unless it was the
\* last one MaxDeliver allows.
AfterAttempt(k) == IF cons[k].n < MaxDeliver THEN "nak" ELSE "dropped"

\* AckWait runs out: nobody holds the delivery any more, or its holder is slow.
Expire(k) ==
  /\ cons[k].st = "out"
  /\ "slow" \in Faults \/ \A w \in Replica : ~Holds(w, k)
  /\ cons' = [cons EXCEPT ![k].st = AfterAttempt(k)]
  /\ UNCHANGED <<log, buf, job, closing, tracking, invited, sinks>>

\* Acknowledgements name a stream sequence; one for a superseded revision
\* finds nothing, and a NAK only counts while the delivery is outstanding.
AckMsg(d) ==
  cons' = IF d.rev = Len(log[d.key])
            THEN [cons EXCEPT ![d.key].st = "acked"] ELSE cons

NakMsg(d) ==
  cons' = IF d.rev = Len(log[d.key]) /\ cons[d.key].st = "out"
            THEN [cons EXCEPT ![d.key].st = AfterAttempt(d.key)] ELSE cons

-----------------------------------------------------------------------------
(* Replicas that stop: another one starts in their place, with nothing in memory *)

Restart(w) ==
  /\ job' = [job EXCEPT ![w] = Idle]
  /\ buf' = [buf EXCEPT ![w] = <<>>]
  /\ closing' = closing \ {w}
  /\ UNCHANGED <<stream, tracking, invited, sinks>>

\* A replica is killed at any step.
Crash(w) ==
  /\ "crash" \in Faults
  /\ job[w] # Idle \/ buf[w] # <<>>
  /\ Restart(w)

\* A shutdown first closes the connection that invites go out on and cancels the
\* context of the handlers. They go on, the one in hand and those of deliveries
\* already fetched, and may still publish and acknowledge.
Shutdown(w) ==
  /\ "shutdown" \in Faults
  /\ w \notin closing
  /\ job[w] # Idle \/ buf[w] # <<>>
  /\ closing' = closing \cup {w}
  /\ UNCHANGED <<stream, buf, job, tracking, invited, sinks>>

\* Then the consumer is stopped and the connection closed, whatever a handler
\* was doing: no message of it gets out any more.
Close(w) == w \in closing /\ Restart(w)

\* A call that takes the handler's context fails for a reason of its own, or
\* because the context was cancelled before the call or while it waits; an
\* answer that came just before is a success.
CallFails(w, fault) == fault \in Faults \/ w \in closing

-----------------------------------------------------------------------------
(* Running a handler: the callback of Consume, one delivery at a time *)

At(w, pc) == job[w].pc = pc
Goto(w, pc) == job' = [job EXCEPT ![w].pc = pc] /\ UNCHANGED <<stream, buf, closing>>

Ack(w) == AckMsg(job[w]) /\ job' = [job EXCEPT ![w] = Idle] /\ UNCHANGED <<log, buf, closing>>

\* Mutant: the replica keeps a delivery it could not handle and tries again later.
NakToBack(w) ==
  /\ NakMsg(job[w])
  /\ job' = [job EXCEPT ![w] = Idle]
  /\ buf' = [buf EXCEPT ![w] = Append(@, [key |-> job[w].key, rev |-> job[w].rev])]
  /\ UNCHANGED <<log, closing>>

Nak(w) == NakMsg(job[w]) /\ job' = [job EXCEPT ![w] = Idle] /\ UNCHANGED <<log, buf, closing>>

KeyOf(w) == job[w].key
EntryOf(w) == log[job[w].key][job[w].rev]

\* Take the oldest delivery in hand: an undecodable record is acknowledged and
\* forgotten, a delete goes to the delete path, anything else is converted.
Receive(w) ==
  /\ job[w] = Idle
  /\ buf[w] # <<>>
  /\ LET d == Head(buf[w])
         op == log[d.key][d.rev].op
     IN \/ /\ op = "junk"
           /\ AckMsg(d)
           /\ UNCHANGED job
        \/ /\ op # "junk"
           /\ job' = [job EXCEPT ![w] =
                [pc |-> IF op = "put" THEN "convert" ELSE "dedupe",
                 key |-> d.key, rev |-> d.rev, act |-> "created", redact |-> FALSE]]
           /\ UNCHANGED cons
  /\ buf' = [buf EXCEPT ![w] = Tail(@)]
  /\ UNCHANGED <<log, closing, tracking, invited, sinks>>

\* The record names a project the mapper translates. A vote waits out an
\* unavailable mapper; a record it rejects is dropped.
ConvertVote(w) ==
  /\ At(w, "convert") /\ KeyOf(w) \in Vote
  /\ \/ Goto(w, "lookup")
     \/ CallFails(w, "mapper") /\ Nak(w)
     \/ "reject" \in Faults /\ Ack(w)
  /\ UNCHANGED <<tracking, invited, sinks>>

\* Mutant: the parent check is left out.
ConvertResponseOrphan(w) ==
  /\ At(w, "convert") /\ KeyOf(w) \in Response
  /\ \/ Goto(w, "privacy")
     \/ (CallFails(w, "mapper") \/ "reject" \in Faults) /\ Ack(w)
  /\ UNCHANGED <<tracking, invited, sinks>>

\* A response is dropped on any conversion error, an unavailable mapper included.
ConvertResponse(w) ==
  /\ At(w, "convert") /\ KeyOf(w) \in Response
  /\ \/ Goto(w, "parent")
     \/ (CallFails(w, "mapper") \/ "reject" \in Faults) /\ Ack(w)
  /\ UNCHANGED <<tracking, invited, sinks>>

ConvertResult(w) ==
  /\ At(w, "convert") /\ KeyOf(w) \in Result
  /\ \/ Goto(w, "parent")
     \/ CallFails(w, "mapper") /\ Nak(w)
     \/ "reject" \in Faults /\ Ack(w)
  /\ UNCHANGED <<tracking, invited, sinks>>

\* Mutant: the handler waits for the mapping instead of giving the delivery back.
ResponseParentWaits(w) ==
  /\ At(w, "parent") /\ KeyOf(w) \in Response
  /\ mapping[ParentOf[KeyOf(w)]] # "none" /\ Goto(w, "privacy")
  /\ UNCHANGED <<tracking, invited, sinks>>

\* A response waits for its vote to have a mapping, of whatever value.
ResponseParent(w) ==
  /\ At(w, "parent") /\ KeyOf(w) \in Response
  /\ \/ mapping[ParentOf[KeyOf(w)]] # "none" /\ Goto(w, "privacy")
     \/ mapping[ParentOf[KeyOf(w)]] = "none" /\ Nak(w)
     \/ CallFails(w, "kvread") /\ Nak(w)
  /\ UNCHANGED <<tracking, invited, sinks>>

\* Mutant: a tombstone counts as a mapping.
ResultParentTombstoned(w) ==
  /\ At(w, "parent") /\ KeyOf(w) \in Result
  /\ \/ mapping[ParentOf[KeyOf(w)]] # "none" /\ Goto(w, "lookup")
     \/ mapping[ParentOf[KeyOf(w)]] = "none" /\ Nak(w)
     \/ CallFails(w, "kvread") /\ Nak(w)
  /\ UNCHANGED <<tracking, invited, sinks>>

\* A result waits for its vote to have a live mapping.
ResultParent(w) ==
  /\ At(w, "parent") /\ KeyOf(w) \in Result
  /\ \/ mapping[ParentOf[KeyOf(w)]] = "live" /\ Goto(w, "lookup")
     \/ mapping[ParentOf[KeyOf(w)]] # "live" /\ Nak(w)
     \/ CallFails(w, "kvread") /\ Nak(w)
  /\ UNCHANGED <<tracking, invited, sinks>>

\* Mutant: a record that is not there hides nothing.
PseudoAnonymousIfSaid(v) == Decodes(v) /\ ~Stored(v).open

\* A vote is pseudo-anonymous unless its stored record says otherwise.
PseudoAnonymous(v) == ~Decodes(v) \/ ~Stored(v).open

\* Mutant: a response waits for the record of its vote to be there.
ReadPrivacyOrWait(w) ==
  /\ At(w, "privacy")
  /\ \/ /\ Decodes(ParentOf[KeyOf(w)])
        /\ job' = [job EXCEPT ![w].pc = "lookup",
                              ![w].redact = PseudoAnonymous(ParentOf[KeyOf(w)])]
        /\ UNCHANGED <<stream, buf, closing>>
     \/ ~Decodes(ParentOf[KeyOf(w)]) /\ Nak(w)
     \/ CallFails(w, "kvread") /\ Nak(w)
  /\ UNCHANGED <<tracking, invited, sinks>>

\* The ballot is redacted if the vote is pseudo-anonymous now.
ReadPrivacy(w) ==
  /\ At(w, "privacy")
  /\ \/ /\ job' = [job EXCEPT ![w].pc = "lookup",
                              ![w].redact = PseudoAnonymous(ParentOf[KeyOf(w)])]
        /\ UNCHANGED <<stream, buf, closing>>
     \/ CallFails(w, "kvread") /\ Nak(w)
  /\ UNCHANGED <<tracking, invited, sinks>>

\* Mutant: a tombstone counts as a mapping for results too.
UpdateMarkAny(k) == {"live", "tomb"}

\* The mapping values that make a write an update. A tombstone counts as one
\* for votes and responses, not for results.
UpdateMark(k) == IF k \in Result THEN {"live"} ELSE {"live", "tomb"}

\* Mutant: the mapping is claimed before the record is published.
LookupActionClaims(w) ==
  /\ At(w, "lookup")
  /\ \E act \in {"created", "updated"} :
       /\ act = "updated" => mapping[KeyOf(w)] \in UpdateMark(KeyOf(w))
       /\ act = "created" => \/ mapping[KeyOf(w)] \notin UpdateMark(KeyOf(w))
                             \/ CallFails(w, "kvread")
       /\ job' = [job EXCEPT ![w].pc = "index", ![w].act = act]
  /\ mapping' = [mapping EXCEPT ![KeyOf(w)] = "live"]
  /\ UNCHANGED <<stream, buf, closing, marker, invited, sinks>>

\* Created or updated: a mapping that cannot be read counts as absent.
LookupAction(w) ==
  /\ At(w, "lookup")
  /\ \E act \in {"created", "updated"} :
       /\ act = "updated" => mapping[KeyOf(w)] \in UpdateMark(KeyOf(w))
       /\ act = "created" => \/ mapping[KeyOf(w)] \notin UpdateMark(KeyOf(w))
                             \/ CallFails(w, "kvread")
       /\ job' = [job EXCEPT ![w].pc = "index", ![w].act = act]
  /\ UNCHANGED <<stream, buf, closing, tracking, invited, sinks>>

\* A delete whose mapping is already a tombstone is acknowledged unpublished.
Dedupe(w) ==
  /\ At(w, "dedupe")
  /\ \/ mapping[KeyOf(w)] = "tomb" /\ Ack(w)
     \/ /\ mapping[KeyOf(w)] # "tomb" \/ CallFails(w, "kvread")
        /\ job' = [job EXCEPT ![w].pc = "index", ![w].act = "deleted"]
        /\ UNCHANGED <<stream, buf, closing>>
  /\ UNCHANGED <<tracking, invited, sinks>>

-----------------------------------------------------------------------------
(* Publishing: several messages in a row, each of which may fail.  A transient *)
(* failure starts the handler again on redelivery, any other one ends it.      *)

\* Mutant: a transient failure ends the handler too.
PublishFailsForGood(w) ==
  /\ Faults \cap {"publish", "payload"} # {} /\ Ack(w)
  /\ UNCHANGED sinks

PublishFails(w) ==
  /\ \/ "publish" \in Faults /\ Nak(w)
     \/ "payload" \in Faults /\ Ack(w)
  /\ UNCHANGED sinks

\* What the indexer stores: nothing after a delete, and a response without
\* ballot when it was redacted.
Document(w) ==
  IF job[w].act = "deleted" THEN "none"
  ELSE IF job[w].redact THEN "redacted" ELSE "full"

PublishIndex(w) ==
  /\ At(w, "index")
  /\ \/ /\ index' = [index EXCEPT ![KeyOf(w)] =
                     [rev |-> job[w].rev, doc |-> Document(w), act |-> job[w].act]]
        /\ Goto(w, IF KeyOf(w) \in Result THEN "record" ELSE "access")
        /\ UNCHANGED <<access, grants>>
     \/ PublishFails(w)
  /\ UNCHANGED <<tracking, invited>>

\* delete_access clears every tuple of a vote; update_access leaves the
\* participants alone.
VoteAccess(w) ==
  /\ At(w, "access") /\ KeyOf(w) \in Vote
  /\ \/ /\ IF job[w].act = "deleted"
             THEN /\ access' = [access EXCEPT ![KeyOf(w)] = 0]
                  /\ grants' = {g \in grants : g[1] # KeyOf(w)}
             ELSE /\ access' = [access EXCEPT ![KeyOf(w)] = job[w].rev]
                  /\ UNCHANGED grants
        /\ Goto(w, "record")
        /\ UNCHANGED index
     \/ PublishFails(w)
  /\ UNCHANGED <<tracking, invited>>

ResponseAccess(w) ==
  /\ At(w, "access") /\ KeyOf(w) \in Response
  /\ \/ /\ access' = [access EXCEPT ![KeyOf(w)] =
                       IF job[w].act = "deleted" THEN 0 ELSE job[w].rev]
        /\ Goto(w, "participant")
        /\ UNCHANGED <<index, grants>>
     \/ PublishFails(w)
  /\ UNCHANGED <<tracking, invited>>

\* The participant tuple of a response goes when the voter was removed or the
\* response was soft-deleted; it is put, once grants are enabled, for any other.
RevokesIfRemoved(e) == e.op = "put" /\ e.removed  \* mutant: soft deletes forgotten
RevokesParticipant(e) == e.op = "soft" \/ (e.op = "put" /\ e.removed)
GrantsParticipant(e) == e.op = "put" /\ ~e.removed /\ ParticipantGrants

\* Mutant: a voter without a username is granted like any other.
ParticipantForAnyone(w) ==
  /\ At(w, "participant")
  /\ LET e == EntryOf(w)
         tuple == <<ParentOf[KeyOf(w)], e.user>>
     IN \/ /\ grants' = IF RevokesParticipant(e) THEN grants \ {tuple}
                         ELSE IF GrantsParticipant(e) THEN grants \cup {tuple}
                         ELSE grants
           /\ Goto(w, "record")
           /\ UNCHANGED <<index, access>>
        \/ PublishFails(w)
  /\ UNCHANGED <<tracking, invited>>

\* Mutant: only a new response is sent to fga-sync as a participant.
ParticipantOnCreate(w) ==
  /\ At(w, "participant")
  /\ LET e == EntryOf(w)
         tuple == <<ParentOf[KeyOf(w)], e.user>>
     IN \/ /\ grants' = IF e.user = NoUser THEN grants
                         ELSE IF RevokesParticipant(e) THEN grants \ {tuple}
                         ELSE IF GrantsParticipant(e) /\ job[w].act = "created"
                                THEN grants \cup {tuple}
                         ELSE grants
           /\ Goto(w, "record")
           /\ UNCHANGED <<index, access>>
        \/ PublishFails(w)
  /\ UNCHANGED <<tracking, invited>>

Participant(w) ==
  /\ At(w, "participant")
  /\ LET e == EntryOf(w)
         tuple == <<ParentOf[KeyOf(w)], e.user>>
     IN \/ /\ grants' = IF e.user = NoUser THEN grants
                         ELSE IF RevokesParticipant(e) THEN grants \ {tuple}
                         ELSE IF GrantsParticipant(e) THEN grants \cup {tuple}
                         ELSE grants
           /\ Goto(w, "record")
           /\ UNCHANGED <<index, access>>
        \/ PublishFails(w)
  /\ UNCHANGED <<tracking, invited>>

\* A new response of a voter known only by email is to be invited.
InviteDue(w) ==
  /\ KeyOf(w) \in Response
  /\ job[w].act = "created"
  /\ EntryOf(w).user = NoUser

\* Mutant: the mapping is created, never overwritten once it is a tombstone.
StoreMappingOnce(w) ==
  /\ At(w, "record")
  /\ \/ mapping' = [mapping EXCEPT ![KeyOf(w)] =
                       IF job[w].act = "deleted" \/ @ = "tomb" THEN "tomb" ELSE "live"]
     \/ CallFails(w, "kvput") /\ UNCHANGED mapping
  /\ Goto(w, IF InviteDue(w) THEN "marker" ELSE "done")
  /\ UNCHANGED <<marker, invited, sinks>>

\* Note what was published; a failure to do so is ignored.
StoreMapping(w) ==
  /\ At(w, "record")
  /\ \/ mapping' = [mapping EXCEPT ![KeyOf(w)] =
                       IF job[w].act = "deleted" THEN "tomb" ELSE "live"]
     \/ CallFails(w, "kvput") /\ UNCHANGED mapping
  /\ Goto(w, IF InviteDue(w) THEN "marker" ELSE "done")
  /\ UNCHANGED <<marker, invited, sinks>>

Done(w) ==
  /\ At(w, "done")
  /\ Ack(w)
  /\ UNCHANGED <<tracking, invited, sinks>>

-----------------------------------------------------------------------------
(* Inviting the voter, after everything else and best effort *)

\* Mutant: a marker that cannot be read counts as absent.
CheckMarkerUnread(w) ==
  /\ At(w, "marker")
  /\ \/ (marker[KeyOf(w)] = "none" \/ CallFails(w, "kvread")) /\ Goto(w, "resolve")
     \/ marker[KeyOf(w)] # "none" /\ Goto(w, "done")
  /\ UNCHANGED <<tracking, invited, sinks>>

\* A marker that is there, or cannot be read, ends the invite.
CheckMarker(w) ==
  /\ At(w, "marker")
  /\ \/ marker[KeyOf(w)] = "none" /\ Goto(w, "resolve")
     \/ marker[KeyOf(w)] # "none" /\ Goto(w, "done")
     \/ CallFails(w, "kvread") /\ Goto(w, "done")
  /\ UNCHANGED <<tracking, invited, sinks>>

\* Mutant: the invite goes out without claiming the marker first.
ResolveInviteeUnmarked(w) ==
  /\ At(w, "resolve")
  /\ \/ Goto(w, "done")
     \/ Decodes(ParentOf[KeyOf(w)]) /\ Goto(w, "send")
  /\ UNCHANGED <<tracking, invited, sinks>>

\* The email may belong to a user already; a vote without a readable name ends
\* the invite too.
ResolveInvitee(w) ==
  /\ At(w, "resolve")
  /\ \/ Goto(w, "done")
     \/ Decodes(ParentOf[KeyOf(w)]) /\ Goto(w, "pend")
  /\ UNCHANGED <<tracking, invited, sinks>>

\* The marker is claimed by a plain put, whoever else has put it meanwhile. A put
\* that fails ends the invite, and may have been stored all the same.
MarkPending(w) ==
  /\ At(w, "pend")
  /\ \/ marker' = [marker EXCEPT ![KeyOf(w)] = "pending"] /\ Goto(w, "send")
     \/ /\ CallFails(w, "kvput")
        /\ marker' \in {marker, [marker EXCEPT ![KeyOf(w)] = "pending"]}
        /\ Goto(w, "done")
  /\ UNCHANGED <<mapping, invited, sinks>>

\* The invite is sent, and the marker overwritten with its id if that works; or
\* no answer comes, and the invite may have been sent all the same.
SendInvite(w) ==
  /\ At(w, "send")
  /\ \/ /\ invited' = [invited EXCEPT ![KeyOf(w)] = @ + 1]
        /\ \/ marker' = [marker EXCEPT ![KeyOf(w)] = "sent"]
           \/ CallFails(w, "kvput") /\ UNCHANGED marker
     \/ /\ CallFails(w, "invite")
        /\ invited' \in {invited, [invited EXCEPT ![KeyOf(w)] = @ + 1]}
        /\ UNCHANGED marker
  /\ Goto(w, "done")
  /\ UNCHANGED <<mapping, sinks>>

-----------------------------------------------------------------------------

Handle(w) ==
  \/ Receive(w)
  \/ ConvertVote(w) \/ ConvertResponse(w) \/ ConvertResult(w)
  \/ ResponseParent(w) \/ ResultParent(w) \/ ReadPrivacy(w)
  \/ LookupAction(w) \/ Dedupe(w)
  \/ PublishIndex(w) \/ VoteAccess(w) \/ ResponseAccess(w) \/ Participant(w)
  \/ StoreMapping(w) \/ Done(w)
  \/ CheckMarker(w) \/ ResolveInvitee(w) \/ MarkPending(w) \/ SendInvite(w)

Stops(w) == Crash(w) \/ Shutdown(w) \/ Close(w)

Next ==
  \/ \E k \in Key : \E e \in Entry : Write(k, e)
  \/ \E k \in Key : Expire(k)
  \/ \E w \in Replica, k \in Key : Deliver(w, k)
  \/ \E w \in Replica : Handle(w) \/ Stops(w)

Spec == Init /\ [][Next]_vars

\* The consumer keeps delivering to a replica with room and keeps its timers, and
\* a replica goes on with the handler it runs. Nothing obliges the upstream to
\* write or a replica to stop or restart, and no fault has to happen.
Fairness ==
  /\ \A k \in Key : WF_vars(Expire(k)) /\ WF_vars(\E w \in Replica : Deliver(w, k))
  /\ \A w \in Replica : WF_vars(Handle(w) /\ ~At(w, "convert"))

\* An assumption about the ID mapper, which the code does not make good: the
\* lookup has no deadline, so that a request whose answer is lost holds the
\* replica's only handler until a shutdown cancels it.
MapperAnswers == \A w \in Replica : WF_vars(Handle(w) /\ At(w, "convert"))

FairSpec == Spec /\ Fairness /\ MapperAnswers

-----------------------------------------------------------------------------
(* Safety, for any number of replicas *)

\* The indexer holds a response or a result only if it was told about the vote
\* before: the mapping a child waits for (vote_response_event_handler.go:57,
\* vote_result_event_handler.go:44) is written after the vote was published.
ParentIndexedFirst ==
  \A c \in Child : index[c].doc # "none" => index[ParentOf[c]].rev > 0

\* A ballot is indexed beside its voter only if the vote's record said, at some
\* time, that the vote is not pseudo-anonymous: a missing, deleted, undecodable
\* or unreadable record never lets one through (pollIsPseudoAnonymous).
EverOpen(v) == \E i \in 1..Len(log[v]) : log[v][i].open
BallotOnlyIfOpen ==
  \A r \in Response : index[r].doc = "full" => EverOpen(ParentOf[r])

\* Nobody is invited to a vote before the indexer knows the response and the
\* vote, and no invite goes out without its marker (maybeSendInvite).
InviteComesLast ==
  \A r \in Response : invited[r] > 0 =>
    /\ index[r].rev > 0 /\ index[ParentOf[r]].rev > 0
    /\ marker[r] # "none"

\* The inductive invariant behind these three: what a replica may rely on at
\* each step of its handler, whatever the others do meanwhile.
RevisionsExist ==
  /\ \A k \in Key : cons[k].st # "none" => Len(log[k]) > 0
  /\ \A w \in Replica : \A i \in 1..Len(buf[w]) :
       buf[w][i].rev \in 1..Len(log[buf[w][i].key])
  /\ \A w \in Replica : job[w] # Idle => job[w].rev \in 1..Len(log[job[w].key])

StepFits(w) ==
  /\ job[w].pc \in {"privacy", "participant", "marker", "resolve", "pend", "send"}
       => KeyOf(w) \in Response
  /\ job[w].pc = "parent" => KeyOf(w) \in Child
  /\ job[w].pc = "access" => KeyOf(w) \notin Result
  /\ job[w].pc \in {"convert", "parent", "privacy", "lookup", "marker", "resolve",
                    "pend", "send"} => job[w].act = "created"

StepSafe(w) ==
  \* past the parent check, the vote of a child that is not being deleted is mapped
  /\ (/\ job[w].pc \notin {"idle", "convert", "parent", "dedupe"}
      /\ job[w].act # "deleted" /\ KeyOf(w) \in Child)
       => mapping[ParentOf[KeyOf(w)]] # "none"
  \* a ballot about to be published was once open
  /\ (/\ job[w].pc \in {"lookup", "index"} /\ job[w].act # "deleted"
      /\ ~job[w].redact /\ KeyOf(w) \in Response)
       => EverOpen(ParentOf[KeyOf(w)])
  \* past its publication, the indexer knows the record
  /\ job[w].pc \in {"access", "participant", "record", "marker", "resolve", "pend",
                    "send", "done"} => index[KeyOf(w)].rev > 0
  \* an invite about to be sent is marked
  /\ job[w].pc = "send" => marker[KeyOf(w)] # "none"

MappedIsIndexed == \A k \in Key : mapping[k] # "none" => index[k].rev > 0

IInv ==
  /\ TypeOK
  /\ RevisionsExist
  /\ \A w \in Replica : StepFits(w) /\ StepSafe(w)
  /\ MappedIsIndexed
  /\ ParentIndexedFirst
  /\ BallotOnlyIfOpen
  /\ InviteComesLast

-----------------------------------------------------------------------------
(* Safety of a single replica, whose deliveries are handled in sequence *)

\* A voter known only by email is invited at most once, however often the
\* record is delivered, retried or cut short by a crash (maybeSendInvite).
InviteOnce == \A r \in Response : invited[r] <= 1

\* What the indexer shows of a record only moves forward through the revisions
\* the upstream wrote, whatever is redelivered or dropped on the way.
Mirror == INSTANCE RecordMirror
            WITH written <- [k \in Key |-> Len(log[k])],
                 shown <- [k \in Key |-> index[k].rev]
ImplementsMirror == Mirror!Spec

\* A record that was acknowledged is in the indexer as last written, its access
\* tuples are those of that revision, a removed voter is no participant of the
\* vote, and any other named voter is one unless the vote was deleted since.
PutIsSynced(k) ==
  (cons[k].st = "acked" /\ Stored(k).op = "put") =>
    /\ index[k].rev = Len(log[k]) /\ index[k].doc # "none"
    /\ k \notin Result => access[k] = Len(log[k])
    /\ (k \in Response /\ Stored(k).user # NoUser) =>
         LET tuple == <<ParentOf[k], Stored(k).user>>
         IN /\ RevokesParticipant(Stored(k)) => tuple \notin grants
            /\ GrantsParticipant(Stored(k)) =>
                 \/ tuple \in grants
                 \/ \E i \in DOMAIN log[ParentOf[k]] :
                      log[ParentOf[k]][i].op \in {"soft", "hard"}
AckedPutIsSynced == \A k \in Key : PutIsSynced(k)

\* A delete that was acknowledged has taken the record out of the indexer and
\* its tuples out of fga-sync, the participant tuple of a response included if
\* each of its deletes named that voter: a hard delete names none, and leaves a
\* tombstone that the next delete stops at (handleVoteDelete,
\* handleVoteResponseDelete, handleVoteResultDelete).
DeletesName(r, u) ==
  \A i \in DOMAIN log[r] :
    log[r][i].op \in {"soft", "hard"} => log[r][i].op = "soft" /\ log[r][i].user = u
DeleteIsGone(k) ==
  (cons[k].st = "acked" /\ Stored(k).op \in {"soft", "hard"}) =>
    /\ index[k].doc = "none" /\ access[k] = 0
    /\ (k \in Response /\ DeletesName(k, Stored(k).user)) =>
         <<ParentOf[k], Stored(k).user>> \notin grants
AckedDeleteIsGone == \A k \in Key : DeleteIsGone(k)

\* A child is published only while its vote is mapped and not deleted: results
\* and, as docs/event-processing.md has it, responses.
PublishesUnderLiveVote(c) ==
  (index'[c] # index[c] /\ index'[c].doc # "none") => mapping[ParentOf[c]] = "live"
ResultUnderLiveVote == [][\A c \in Result : PublishesUnderLiveVote(c)]_vars
ResponseUnderLiveVote == [][\A c \in Response : PublishesUnderLiveVote(c)]_vars

\* "updated" is published only for a result that is mapped and not deleted
\* (handleVoteResultUpdate).
UpdatesLive(k) ==
  (index'[k] # index[k] /\ index'[k].act = "updated") => mapping[k] = "live"
ResultUpdatedOnlyIfLive == [][\A k \in Result : UpdatesLive(k)]_vars

-----------------------------------------------------------------------------
(* Liveness *)

\* No delivery is retried for ever or forgotten: it is acknowledged, or dropped
\* after MaxDeliver attempts, unless a newer revision takes its place.
Settles ==
  \A k \in Key :
    cons[k].st \in {"new", "out", "nak"} ~> cons[k].st \in {"acked", "dropped"}

\* A response that arrives when its vote is already mapped is not dropped.
KnownVoteSuffices ==
  \A r \in Response :
    (cons[r].st = "new" /\ mapping[ParentOf[r]] # "none") ~> cons[r].st = "acked"
=============================================================================
