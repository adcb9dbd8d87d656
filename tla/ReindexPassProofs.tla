--------------------------- MODULE ReindexPassProofs ---------------------------
(***************************************************************************)
(* What a pass of the reindex tool achieves beside a single replica that   *)
(* no fault makes give up: the documents a privacy pass has seen lose      *)
(* their ballots, and the voters of the responses it replayed are granted. *)
(***************************************************************************)
EXTENDS ReindexProofs, DeleteProofs

USE DEF caches

-----------------------------------------------------------------------------
(* Invariants of the service, whichever state it began in *)

Deletes == {"soft", "hard"}
PastIndex == {"access", "participant", "record", "marker", "resolve", "pend", "send",
              "done"}
PastGrant == {"record", "marker", "resolve", "pend", "send", "done"}

\* A handler past the indexer has told it about its own revision.
Published(w) == job[w].pc \in PastIndex => index[KeyOf(w)].rev = job[w].rev

\* The indexer was last told about a delete, and holds no document then.
DeleteShown(k) == index[k].rev # 0 /\ log[k][index[k].rev].op \in Deletes
DeleteClears(k) == DeleteShown(k) => index[k].doc = "none"

\* No job is about an undecodable record.
NoJunk(w) == job[w] # Idle => EntryOf(w).op # "junk"

\* A tombstone stands for a delete the indexer was told about last, unless the
\* record was written again since some delete of it.
TombShown(k) == mapping[k] = "tomb" => WrittenAgain(k) \/ DeleteShown(k)

\* The revision that was acknowledged is the one the indexer was told about, or
\* a delete skipped over the tombstone of another.
AckedShown(k) ==
  (cons[k].st = "acked" /\ Stored(k).op # "junk") =>
    \/ index[k].rev = Len(log[k])
    \/ Stored(k).op \in Deletes /\ (WrittenAgain(k) \/ DeleteShown(k))

\* The voter a revision names is a participant, or why not.
RevokedElsewhere(k, u) ==
  \E o \in Response \ {k} :
    /\ ParentOf[o] = ParentOf[k]
    /\ \E i \in 1..Len(log[o]) : log[o][i].user = u /\ RevokesParticipant(log[o][i])
Granted(k, n) ==
  (GrantsParticipant(log[k][n]) /\ log[k][n].user # NoUser) =>
    \/ <<ParentOf[k], log[k][n].user>> \in grants
    \/ VoteDeleted(ParentOf[k])
    \/ RevokedElsewhere(k, log[k][n].user)
GrantStage(w) ==
  (job[w].pc \in PastGrant /\ KeyOf(w) \in Response) => Granted(KeyOf(w), job[w].rev)

\* A response that was written since the beginning has its voter granted.
AckedGranted(k) ==
  (cons[k].st = "acked" /\ Stored(k).op = "put" /\ Len(log[k]) >= 2) =>
    Granted(k, Len(log[k]))

ServiceInv ==
  /\ TypeOK /\ RevisionsExist /\ ShownIsWritten
  /\ \A w \in Replica :
       /\ StepFits(w) /\ StepSafe(w) /\ InOrder(w)
       /\ DeletesAreDeletes(w) /\ DeletesDelete(w) /\ NoJunk(w)
       /\ Published(w) /\ GrantStage(w)
  /\ \A k \in Key : DeleteClears(k) /\ TombShown(k) /\ AckedShown(k)
  /\ \A r \in Response : AckedGranted(r)

-----------------------------------------------------------------------------
(* Invariants of the tool *)

\* What the tally and the caches say.
Counted(r) ==
  /\ outcome[r] = "eligible" => ~tool.mode.apply
  /\ outcome[r] = "reindexed" => tool.mode.skipReindexed
  /\ outcome[r] = "failed" => tool.pc # "finished"
  /\ outcome[r] = "named" => pseudoOK[ParentOf[r]] = "no"
  /\ outcome[r] = "replayed" => replays[r] # 0
  /\ outcome[r] \in {"replayed", "conflict"} => Len(log[r]) >= 2
Answered(v) ==
  /\ asked[v] <= Len(log[v])
  /\ pseudoOK[v] = "no" => asked[v] # 0 /\ log[v][asked[v]].open
Tally == (\A r \in Response : Counted(r)) /\ (\A v \in Vote : Answered(v))

\* In a privacy pass, only what was asked about is replayed.
AskedFirst ==
  tool.mode.pseudoOnly =>
    /\ tool.pc = "replay" => pseudoOK[ParentOf[tool.id]] # "unknown"
    /\ \A r \in Response : replays[r] # 0 => pseudoOK[ParentOf[r]] # "unknown"

\* From a replay on, and while its vote is not opened, every handler redacts.
Hidden(r) ==
  /\ tool.mode.pseudoOnly /\ replays[r] # 0
  /\ ~OpenedSince(ParentOf[r], asked[ParentOf[r]])
Redacts(w) ==
  (/\ job[w].pc \in {"lookup", "index"} /\ KeyOf(w) \in Response
   /\ job[w].act # "deleted"
   /\ Hidden(KeyOf(w)) /\ job[w].rev >= replays[KeyOf(w)])
  => job[w].redact
HiddenShown(r) == (Hidden(r) /\ index[r].rev >= replays[r]) => index[r].doc # "full"

HidesInv ==
  /\ Tally /\ AskedFirst
  /\ \A w \in Replica : Redacts(w)
  /\ \A r \in Response : HiddenShown(r)

-----------------------------------------------------------------------------
(* The steps of a handler *)

\* What a handler under way knows of the job it is at.
LEMMA AtJob ==
  ASSUME TypeOK, RevisionsExist, NEW w \in Replica, Handle(w), ~Receive(w)
  PROVE  /\ job[w] \in Job /\ job[w] # Idle /\ KeyOf(w) \in Key /\ log' = log
         /\ job[w].rev \in 1..Len(log[KeyOf(w)]) /\ Len(log[KeyOf(w)]) \in Nat
         /\ EntryOf(w) = log[KeyOf(w)][job[w].rev] /\ EntryOf(w) \in Entry
         /\ KeyOf(w) = job[w].key
         /\ job'[w] # Idle => /\ KeyOf(w)' = KeyOf(w) /\ job'[w].rev = job[w].rev
                              /\ EntryOf(w)' = EntryOf(w)
<1>1. Continues(w) /\ job[w] \in Job
  BY HandleContinues
<1>2. /\ job[w] # Idle /\ KeyOf(w) \in Key /\ KeyOf(w) = job[w].key
      /\ job[w].rev \in 1..Len(log[KeyOf(w)]) /\ Len(log[KeyOf(w)]) \in Nat
  BY <1>1, BusyRevision
<1>3. EntryOf(w) = log[KeyOf(w)][job[w].rev] /\ EntryOf(w) \in Entry
  BY <1>2 DEF EntryOf, TypeOK, QueuesTypeOK
<1>4. job'[w] # Idle => /\ KeyOf(w)' = KeyOf(w) /\ job'[w].rev = job[w].rev
                        /\ EntryOf(w)' = EntryOf(w)
  BY <1>1 DEF Continues, KeyOf, EntryOf
<1> QED BY <1>1, <1>2, <1>3, <1>4 DEF Continues

\* A handler gets past the indexer by publishing to it, and past the participant
\* tuple, if its record has one, by publishing that.
LEMMA StepsPast ==
  ASSUME TypeOK, RevisionsExist, NEW w \in Replica, Handle(w), ~Receive(w),
         job'[w] # Idle
  PROVE  /\ job'[w].pc \in PastIndex => PublishIndex(w) \/ job[w].pc \in PastIndex
         /\ job'[w].pc \in PastGrant =>
              \/ PublishIndex(w) \/ VoteAccess(w) \/ Participant(w)
              \/ job[w].pc \in PastGrant
         /\ ~Ack(w) /\ ~Nak(w)
<1>1. ~Ack(w) /\ ~Nak(w)
  BY StepOrder DEF Ack, Nak, TypeOK, QueuesTypeOK
<1>2. job'[w].pc \in PastIndex => PublishIndex(w) \/ job[w].pc \in PastIndex
  BY <1>1, StepOrder DEF PastIndex, ResponseAccess, VoteAccess, Participant,
     StoreMapping, CheckMarker, ResolveInvitee, MarkPending, SendInvite, At
<1>3. job'[w].pc \in PastGrant =>
        \/ PublishIndex(w) \/ VoteAccess(w) \/ Participant(w) \/ job[w].pc \in PastGrant
  BY <1>1, StepOrder DEF PastGrant, StoreMapping, CheckMarker, ResolveInvitee,
     MarkPending, SendInvite, At
<1> QED BY <1>1, <1>2, <1>3

LEMMA MappingMoves ==
  ASSUME NEW w \in Replica, Handle(w)
  PROVE  \/ mapping' = mapping
         \/ /\ At(w, "record") /\ ~Receive(w) /\ index' = index
            /\ mapping' = [mapping EXCEPT ![KeyOf(w)] =
                             IF job[w].act = "deleted" THEN "tomb" ELSE "live"]
<1>1. CASE StoreMapping(w)
  BY <1>1 DEF StoreMapping, Receive, At, Idle, sinks
<1>2. CASE ~StoreMapping(w)
  BY <1>2 DEF Handle, Receive, ConvertVote, ConvertResponse, ConvertResult,
     ResponseParent, ResultParent, ReadPrivacy, LookupAction, Dedupe, Done, CheckMarker,
     ResolveInvitee, VoteAccess, ResponseAccess, Participant, PublishIndex,
     MarkPending, SendInvite, tracking
<1> QED BY <1>1, <1>2

LEMMA HandleNoJunk ==
  ASSUME TypeOK, RevisionsExist, NEW w \in Replica, NoJunk(w), Handle(w)
  PROVE  NoJunk(w)'
<1>1. CASE Receive(w)
  BY <1>1, ReceiveHead DEF NoJunk, EntryOf
<1>2. CASE ~Receive(w)
  BY <1>2, AtJob DEF NoJunk
<1> QED BY <1>1, <1>2

LEMMA HandlePublished ==
  ASSUME TypeOK, RevisionsExist, NEW w \in Replica, Published(w), Handle(w)
  PROVE  Published(w)'
<1>1. CASE Receive(w)
  BY <1>1, ReceiveGoes DEF Published, PastIndex
<1>2. CASE ~Receive(w)
  <2> SUFFICES ASSUME job'[w].pc \in PastIndex
               PROVE  index'[KeyOf(w)'].rev = job'[w].rev
    BY DEF Published
  <2>1. /\ KeyOf(w)' = KeyOf(w) /\ job'[w].rev = job[w].rev /\ KeyOf(w) \in Key
        /\ ~Ack(w) /\ ~Nak(w)
        /\ PublishIndex(w) \/ job[w].pc \in PastIndex
    BY <1>2, AtJob, StepsPast DEF Idle, PastIndex
  <2>2. CASE PublishIndex(w)
    <3>1. index' = [index EXCEPT ![KeyOf(w)] =
                      [rev |-> job[w].rev, doc |-> Document(w), act |-> job[w].act]]
      BY <2>1, <2>2 DEF PublishIndex, PublishFails
    <3> QED BY <2>1, <3>1 DEF TypeOK, EffectsTypeOK
  <2>3. CASE job[w].pc \in PastIndex
    <3>1. index' = index
      BY <2>3, IndexMoves DEF At, PastIndex
    <3> QED BY <2>1, <2>3, <3>1 DEF Published
  <2> QED BY <2>1, <2>2, <2>3
<1> QED BY <1>1, <1>2

\* What the indexer is told about a record, and when.
LEMMA ShownMoves ==
  ASSUME TypeOK, RevisionsExist, NEW w \in Replica, Handle(w), NEW k \in Key
  PROVE  \/ index'[k] = index[k]
         \/ /\ ~Receive(w) /\ k = KeyOf(w) /\ job[w].pc = "index"
            /\ index'[k].rev = job[w].rev /\ index'[k].doc = Document(w)
<1>1. \/ index' = index
      \/ /\ At(w, "index") /\ ~Receive(w)
         /\ index' = [index EXCEPT ![KeyOf(w)] =
                 [rev |-> job[w].rev, doc |-> Document(w), act |-> job[w].act]]
  BY IndexMoves
<1> QED BY <1>1 DEF TypeOK, EffectsTypeOK, At

LEMMA HandleClears ==
  ASSUME TypeOK, RevisionsExist, NEW w \in Replica, DeletesDelete(w), Handle(w),
         NEW k \in Key, DeleteClears(k)
  PROVE  DeleteClears(k)'
<1>1. log' = log
  BY HandleLog
<1>2. CASE index'[k] = index[k]
  BY <1>1, <1>2 DEF DeleteClears, DeleteShown
<1>3. CASE /\ ~Receive(w) /\ k = KeyOf(w) /\ job[w].pc = "index"
           /\ index'[k].rev = job[w].rev /\ index'[k].doc = Document(w)
  <2> SUFFICES ASSUME log[k][job[w].rev].op \in Deletes PROVE index'[k].doc = "none"
    BY <1>1, <1>3 DEF DeleteClears, DeleteShown
  <2>1. IsDelete(w) /\ job[w] # Idle
    BY <1>3, AtJob DEF IsDelete, Deletes
  <2>2. job[w].act = "deleted"
    BY <1>3, <2>1 DEF DeletesDelete
  <2> QED BY <1>3, <2>2 DEF Document
<1> QED BY <1>2, <1>3, ShownMoves

\* Nothing is published over a delete but another, unless the record was written
\* again: the deliveries come in order.
LEMMA HandleKeepsShown ==
  ASSUME TypeOK, RevisionsExist, NEW w \in Replica, InOrder(w), NoJunk(w), Handle(w),
         NEW k \in Key, DeleteShown(k), ~WrittenAgain(k)
  PROVE  DeleteShown(k)'
<1>1. log' = log
  BY HandleLog
<1>2. CASE index'[k] = index[k]
  BY <1>1, <1>2 DEF DeleteShown
<1>3. CASE /\ ~Receive(w) /\ k = KeyOf(w) /\ job[w].pc = "index"
           /\ index'[k].rev = job[w].rev
  <2> DEFINE i == index[k].rev
             j == job[w].rev
  <2>1. /\ i <= j /\ j \in 1..Len(log[k]) /\ Len(log[k]) \in Nat /\ i \in Nat /\ i # 0
        /\ log[k][i].op \in Deletes /\ log[k][j] \in Entry /\ log[k][j].op # "junk"
    BY <1>3, AtJob DEF InOrder, DeleteShown, NoJunk, TypeOK, EffectsTypeOK
  <2>2. DOMAIN log[k] = 1..Len(log[k])
    BY DEF TypeOK, QueuesTypeOK
  <2>3. log[k][j].op # "put"
    <3>1. CASE i = j
      BY <2>1, <3>1 DEF Deletes
    <3>2. CASE i < j
      BY <2>1, <2>2, <3>2 DEF WrittenAgain, Deletes
    <3> QED BY <2>1, <3>1, <3>2
  <2>4. log[k][j].op \in Deletes
    BY <2>1, <2>3 DEF Entry, OpKinds, Deletes
  <2> QED BY <1>1, <1>3, <2>1, <2>4 DEF DeleteShown
<1> QED BY <1>2, <1>3, ShownMoves

LEMMA HandleTombShown ==
  ASSUME TypeOK, RevisionsExist, NEW w \in Replica, InOrder(w), NoJunk(w),
         DeletesAreDeletes(w), Published(w), Handle(w), NEW k \in Key, TombShown(k)
  PROVE  TombShown(k)'
<1> SUFFICES ASSUME mapping'[k] = "tomb", ~WrittenAgain(k)' PROVE DeleteShown(k)'
  BY DEF TombShown
<1>1. log' = log /\ ~WrittenAgain(k)
  BY HandleLog DEF WrittenAgain
<1>2. CASE mapping[k] = "tomb"
  BY <1>1, <1>2, HandleKeepsShown DEF TombShown
<1>3. CASE mapping[k] # "tomb"
  <2>1. /\ At(w, "record") /\ ~Receive(w) /\ index' = index
        /\ mapping' = [mapping EXCEPT ![KeyOf(w)] =
                         IF job[w].act = "deleted" THEN "tomb" ELSE "live"]
    BY <1>3, MappingMoves
  <2>2. k = KeyOf(w) /\ job[w].act = "deleted"
    BY <1>3, <2>1 DEF TypeOK, EffectsTypeOK
  <2>3. /\ index[k].rev = job[w].rev /\ job[w].rev # 0
        /\ log[k][job[w].rev].op \in Deletes
    BY <2>1, <2>2, AtJob DEF Published, PastIndex, At, DeletesAreDeletes, Deletes
  <2> QED BY <1>1, <2>1, <2>3 DEF DeleteShown
<1> QED BY <1>2, <1>3

LEMMA HandleAckedShown ==
  ASSUME NeverGivesUp, TypeOK, RevisionsExist, NEW w \in Replica, InOrder(w), NoJunk(w),
         DeletesAreDeletes(w), Published(w), Handle(w),
         NEW k \in Key, TombShown(k), AckedShown(k)
  PROVE  AckedShown(k)'
<1>1. log' = log /\ (WrittenAgain(k)' <=> WrittenAgain(k)) /\ Stored(k)' = Stored(k)
  BY HandleLog DEF WrittenAgain, Stored
<1> SUFFICES ASSUME cons'[k].st = "acked", Stored(k).op # "junk"
             PROVE  \/ index'[k].rev = Len(log[k])
                    \/ Stored(k).op \in Deletes /\ (WrittenAgain(k) \/ DeleteShown(k)')
  BY <1>1 DEF AckedShown
<1>2. CASE cons[k].st = "acked" /\ index[k].rev = Len(log[k])
  <2>1. CASE index'[k] = index[k]
    BY <1>2, <2>1
  <2>2. CASE ~Receive(w) /\ k = KeyOf(w) /\ index'[k].rev = job[w].rev
    <3>1. /\ job[w].rev \in 1..Len(log[k]) /\ Len(log[k]) \in Nat
          /\ index[k].rev <= job[w].rev
      BY <2>2, AtJob DEF InOrder
    <3> QED BY <1>2, <2>2, <3>1
  <2> QED BY <2>1, <2>2, ShownMoves
<1>3. CASE cons[k].st = "acked" /\ index[k].rev # Len(log[k])
  BY <1>3, HandleKeepsShown DEF AckedShown
<1>4. CASE cons[k].st # "acked" /\ Receive(w)
  <2>1. /\ 1 \in 1..Len(buf[w]) /\ AckMsg(buf[w][1])
        /\ log[buf[w][1].key][buf[w][1].rev].op = "junk"
    BY <1>4, ReceiveHead
  <2>2. buf[w][1].key \in Key
    BY <2>1, HeldTypes
  <2>3. buf[w][1].key = k /\ buf[w][1].rev = Len(log[k])
    BY <1>4, <2>1, <2>2 DEF AckMsg, TypeOK, QueuesTypeOK
  <2> QED BY <2>1, <2>3 DEF Stored
<1>5. CASE cons[k].st # "acked" /\ ~Receive(w)
  <2>1. /\ k = KeyOf(w) /\ job[w].rev = Len(log[k])
        /\ Done(w) \/ Dedupe(w)
    BY <1>5, NewAcks DEF NeverGivesUp, WaitsOut
  <2>2. job[w] # Idle /\ EntryOf(w) = Stored(k)
    BY <1>5, <2>1, AtJob DEF Stored
  <2>3. CASE Done(w)
    <3>1. index' = index /\ index[k].rev = job[w].rev
      BY <2>1, <2>3, IndexMoves DEF Done, At, Published, PastIndex
    <3> QED BY <2>1, <3>1
  <2>4. CASE Dedupe(w)
    <3>1. Stored(k).op \in Deletes /\ index' = index
      BY <2>2, <2>4 DEF Dedupe, At, DeletesAreDeletes, Deletes, sinks
    <3>2. cons' # cons /\ mapping[k] = "tomb"
      BY <1>5, <2>1, <2>4 DEF Dedupe, stream
    <3>3. WrittenAgain(k) \/ DeleteShown(k)
      BY <3>2 DEF TombShown
    <3> QED BY <1>1, <3>1, <3>3 DEF DeleteShown
  <2> QED BY <2>1, <2>3, <2>4
<1> QED BY <1>2, <1>3, <1>4, <1>5

\* A handler takes the participant tuple of a revision away only for a deleted
\* vote, or for a response that revokes it.
LEMMA HandleKeepsGranted ==
  ASSUME TypeOK, RevisionsExist, NEW w \in Replica, StepFits(w), DeletesAreDeletes(w),
         Handle(w), NEW k \in Response, NEW n \in 1..Len(log[k]), Granted(k, n),
         (job[w] # Idle /\ KeyOf(w) = k) => job[w].rev = n
  PROVE  Granted(k, n)'
<1> DEFINE e == log[k][n]
           tuple == <<ParentOf[k], e.user>>
<1>1. log' = log
  BY HandleLog
<1>2. /\ VoteDeleted(ParentOf[k]) => VoteDeleted(ParentOf[k])'
      /\ RevokedElsewhere(k, e.user) => RevokedElsewhere(k, e.user)'
  BY <1>1 DEF VoteDeleted, RevokedElsewhere
<1> SUFFICES ASSUME GrantsParticipant(e), e.user # NoUser, tuple \in grants,
                    tuple \notin grants'
             PROVE  VoteDeleted(ParentOf[k]) \/ RevokedElsewhere(k, e.user)
  BY <1>1, <1>2 DEF Granted
<1>3. CASE /\ ~Receive(w) /\ KeyOf(w) \in Vote /\ job[w].act = "deleted"
           /\ grants' = {g \in grants : g[1] # KeyOf(w)}
  <2>1. tuple[1] = ParentOf[k]
    OBVIOUS
  <2>2. KeyOf(w) = ParentOf[k]
    <3> HIDE DEF tuple, e
    <3> QED BY <1>3, <2>1
  <2>3. EntryOf(w).op \in {"soft", "hard"}
    BY <1>3, AtJob DEF DeletesAreDeletes
  <2>4. VoteDeleted(ParentOf[k])
    BY <1>3, <2>2, <2>3, AtJob DEF VoteDeleted
  <2> QED BY <2>4
<1>4. CASE /\ ~Receive(w) /\ At(w, "participant")
           /\ grants' = IF RevokesParticipant(EntryOf(w))
                          THEN grants \ {<<ParentOf[KeyOf(w)], EntryOf(w).user>>}
                        ELSE IF GrantsParticipant(EntryOf(w))
                          THEN grants \cup {<<ParentOf[KeyOf(w)], EntryOf(w).user>>}
                        ELSE grants
  <2>1. /\ RevokesParticipant(EntryOf(w))
        /\ tuple = <<ParentOf[KeyOf(w)], EntryOf(w).user>>
    <3> HIDE DEF tuple, e
    <3> QED BY <1>4
  <2>2. ParentOf[KeyOf(w)] = ParentOf[k] /\ EntryOf(w).user = e.user
    BY <2>1
  <2>3. /\ KeyOf(w) \in Response /\ job[w] # Idle
        /\ job[w].rev \in 1..Len(log[KeyOf(w)])
        /\ EntryOf(w) = log[KeyOf(w)][job[w].rev]
    BY <1>4, AtJob DEF At, StepFits
  <2>4. KeyOf(w) # k
    <3>1. ~(RevokesParticipant(e) /\ GrantsParticipant(e))
      BY DEF RevokesParticipant, GrantsParticipant
    <3> QED BY <2>1, <2>3, <3>1
  <2>5. RevokedElsewhere(k, e.user)
    <3> HIDE DEF e
    <3> QED BY <2>1, <2>2, <2>3, <2>4 DEF RevokedElsewhere
  <2> QED BY <2>5
<1> QED BY <1>3, <1>4, GrantMoves

LEMMA HandleGrantStage ==
  ASSUME TypeOK, RevisionsExist, NEW w \in Replica, StepFits(w), DeletesAreDeletes(w),
         GrantStage(w), Handle(w)
  PROVE  GrantStage(w)'
<1>1. CASE Receive(w)
  BY <1>1, ReceiveGoes DEF GrantStage, PastGrant
<1>2. CASE ~Receive(w)
  <2> SUFFICES ASSUME job'[w].pc \in PastGrant, KeyOf(w)' \in Response
               PROVE  Granted(KeyOf(w), job[w].rev)'
    BY DEF GrantStage
  <2>0. PICK k, n : k = KeyOf(w) /\ n = job[w].rev
    OBVIOUS
  <2>1. job'[w] # Idle /\ job[w] \in Job
    BY <1>2, AtJob DEF Idle, PastGrant
  <2>2. /\ KeyOf(w)' = k /\ job'[w].rev = n /\ k \in Response /\ n \in 1..Len(log[k])
        /\ EntryOf(w) = log[k][n] /\ log' = log /\ ~Ack(w) /\ ~Nak(w)
    BY <1>2, <2>0, <2>1, AtJob, StepsPast
  <2> SUFFICES Granted(k, n)'
    BY <2>2
  <2>3. CASE job[w].pc \in PastGrant
    <3>1. Granted(k, n)
      BY <2>0, <2>2, <2>3 DEF GrantStage
    <3> QED BY <2>0, <2>2, <3>1, HandleKeepsGranted
  <2>4. CASE PublishIndex(w) \/ VoteAccess(w)
    <3>1. k \notin Vote /\ k \notin Result
      BY <2>2, KeysAssumption
    <3>2. PublishIndex(w) /\ Goto(w, "access")
      BY <2>0, <2>2, <2>4, <3>1 DEF PublishIndex, VoteAccess, PublishFails
    <3>3. job'[w].pc = "access"
      BY <2>1, <3>2, GotoJob
    <3> QED BY <3>3 DEF PastGrant
  <2>5. CASE Participant(w)
    <3>1. /\ ~PublishFails(w)
          /\ grants' = IF log[k][n].user = NoUser THEN grants
                       ELSE IF RevokesParticipant(log[k][n])
                         THEN grants \ {<<ParentOf[k], log[k][n].user>>}
                       ELSE IF GrantsParticipant(log[k][n])
                         THEN grants \cup {<<ParentOf[k], log[k][n].user>>}
                       ELSE grants
      BY <2>0, <2>2, <2>5 DEF Participant, PublishFails
    <3>2. ~(RevokesParticipant(log[k][n]) /\ GrantsParticipant(log[k][n]))
      BY DEF RevokesParticipant, GrantsParticipant
    <3>3. (GrantsParticipant(log[k][n]) /\ log[k][n].user # NoUser)
             => <<ParentOf[k], log[k][n].user>> \in grants'
      BY <3>1, <3>2
    <3> QED BY <2>2, <3>3 DEF Granted
  <2> QED BY <1>2, <2>1, <2>3, <2>4, <2>5, StepsPast
<1> QED BY <1>1, <1>2

LEMMA HandleAckedGranted ==
  ASSUME NeverGivesUp, TypeOK, RevisionsExist, NEW w \in Replica, StepFits(w), InOrder(w),
         DeletesAreDeletes(w), GrantStage(w), Handle(w),
         NEW r \in Response, AckedShown(r), AckedGranted(r)
  PROVE  AckedGranted(r)'
<1>0. PICK n : n = Len(log[r])
  OBVIOUS
<1>1. log' = log /\ r \in Key /\ n \in Nat
  BY <1>0, HandleLog DEF Key, Child, TypeOK, QueuesTypeOK
<1> SUFFICES ASSUME cons'[r].st = "acked", log[r][n].op = "put", n >= 2
             PROVE  Granted(r, n)'
  BY <1>0, <1>1 DEF AckedGranted, Stored
<1>2. n \in 1..Len(log[r])
  BY <1>0, <1>1
<1>3. CASE cons[r].st = "acked"
  <2>1. Granted(r, n)
    BY <1>0, <1>3 DEF AckedGranted, Stored
  <2>2. index[r].rev = n
    BY <1>0, <1>3 DEF AckedShown, Stored, Deletes
  <2>3. (job[w] # Idle /\ KeyOf(w) = r) => job[w].rev = n
    <3> SUFFICES ASSUME job[w] # Idle, job[w].key = r PROVE job[w].rev = n
      BY DEF KeyOf
    <3>1. job[w].rev \in 1..n /\ n <= job[w].rev
      BY <1>0, <2>2 DEF RevisionsExist, InOrder
    <3> QED BY <1>1, <3>1
  <2> QED BY <1>2, <2>1, <2>3, HandleKeepsGranted
<1>4. CASE cons[r].st # "acked" /\ Receive(w)
  <2>1. /\ 1 \in 1..Len(buf[w]) /\ AckMsg(buf[w][1])
        /\ log[buf[w][1].key][buf[w][1].rev].op = "junk"
    BY <1>1, <1>4, ReceiveHead
  <2>2. buf[w][1].key \in Key
    BY <2>1, HeldTypes
  <2>3. buf[w][1].key = r /\ buf[w][1].rev = n
    BY <1>0, <1>1, <1>4, <2>1, <2>2 DEF AckMsg, TypeOK, QueuesTypeOK
  <2> QED BY <2>1, <2>3
<1>5. CASE cons[r].st # "acked" /\ ~Receive(w)
  <2>1. /\ r = KeyOf(w) /\ job[w].rev = n
        /\ Done(w) \/ Dedupe(w)
    BY <1>0, <1>1, <1>5, NewAcks DEF NeverGivesUp, WaitsOut
  <2>2. job[w] # Idle /\ EntryOf(w) = log[r][n]
    BY <1>5, <2>1, AtJob
  <2>3. Done(w)
    BY <2>1, <2>2 DEF Dedupe, At, DeletesAreDeletes
  <2>4. Granted(r, n)
    BY <2>1, <2>3 DEF Done, At, GrantStage, PastGrant
  <2> QED BY <1>2, <2>1, <2>4, HandleKeepsGranted
<1> QED BY <1>3, <1>4, <1>5

-----------------------------------------------------------------------------
(* Steps that write or deliver records, those of the tool included *)

\* What holds of a revision goes on to hold: nothing takes back what was written.
LEMMA WrittenStays ==
  ASSUME TypeOK, TypeOK', Extends, NEW k \in Key
  PROVE  /\ Len(log[k]) \in Nat /\ Len(log'[k]) \in Nat /\ Len(log[k]) <= Len(log'[k])
         /\ \A i \in 1..Len(log[k]) : log'[k][i] = log[k][i] /\ i \in 1..Len(log'[k])
         /\ DOMAIN log[k] = 1..Len(log[k]) /\ DOMAIN log'[k] = 1..Len(log'[k])
         /\ WrittenAgain(k) => WrittenAgain(k)'
<1>1. /\ log[k] \in Seq(Entry) /\ log'[k] \in Seq(Entry)
      /\ Len(log[k]) <= Len(log'[k]) /\ \A i \in 1..Len(log[k]) : log'[k][i] = log[k][i]
  BY DEF TypeOK, QueuesTypeOK, Extends
<1>2. /\ Len(log[k]) \in Nat /\ Len(log'[k]) \in Nat
      /\ DOMAIN log[k] = 1..Len(log[k]) /\ DOMAIN log'[k] = 1..Len(log'[k])
  BY <1>1
<1>3. \A i \in 1..Len(log[k]) : i \in 1..Len(log'[k])
  BY <1>1, <1>2
<1>4. WrittenAgain(k) => WrittenAgain(k)'
  BY <1>1, <1>2, <1>3 DEF WrittenAgain
<1> QED BY <1>1, <1>2, <1>3, <1>4

LEMMA GrantedStays ==
  ASSUME TypeOK, TypeOK', Extends, grants' = grants,
         NEW k \in Response, NEW n \in 1..Len(log[k]), Granted(k, n)
  PROVE  Granted(k, n)'
<1>1. k \in Key /\ ParentOf[k] \in Key
  BY KeysAssumption DEF Key, Child
<1>2. log'[k][n] = log[k][n]
  BY <1>1, WrittenStays
<1>3. VoteDeleted(ParentOf[k]) => VoteDeleted(ParentOf[k])'
  BY <1>1, WrittenStays DEF VoteDeleted
<1>4. ASSUME NEW u, RevokedElsewhere(k, u) PROVE RevokedElsewhere(k, u)'
  <2>0. PICK o \in Response \ {k} :
          /\ ParentOf[o] = ParentOf[k]
          /\ \E i \in 1..Len(log[o]) : log[o][i].user = u /\ RevokesParticipant(log[o][i])
    BY <1>4 DEF RevokedElsewhere
  <2>1. PICK i \in 1..Len(log[o]) : log[o][i].user = u /\ RevokesParticipant(log[o][i])
    BY <2>0
  <2>2. o \in Key
    BY DEF Key, Child
  <2>3. log'[o][i] = log[o][i] /\ i \in 1..Len(log'[o])
    BY <2>2, WrittenStays
  <2> QED BY <2>0, <2>1, <2>3 DEF RevokedElsewhere
<1> QED BY <1>2, <1>3, <1>4 DEF Granted

\* The parts of ServiceInv that the steps of a handler can disturb.
Stages ==
  /\ \A w \in Replica : /\ DeletesAreDeletes(w) /\ DeletesDelete(w) /\ NoJunk(w)
                        /\ Published(w) /\ GrantStage(w)
  /\ \A k \in Key : DeleteClears(k) /\ TombShown(k) /\ AckedShown(k)
  /\ \A r \in Response : AckedGranted(r)

LEMMA QuietStages ==
  ASSUME TypeOK, TypeOK', RevisionsExist, ShownIsWritten, Stages, Extends,
         UNCHANGED <<mapping, index, grants>>,
         \A w \in Replica : job'[w] = job[w] \/ job'[w] = Idle,
         \A k \in Key : cons'[k].st = "acked" => cons[k].st = "acked" /\ log'[k] = log[k]
  PROVE  Stages'
<1>1. ASSUME NEW w \in Replica
      PROVE  /\ DeletesAreDeletes(w)' /\ DeletesDelete(w)' /\ NoJunk(w)'
             /\ Published(w)' /\ GrantStage(w)'
  <2>1. CASE job'[w] = Idle
    BY <2>1 DEF DeletesAreDeletes, DeletesDelete, NoJunk, Published, GrantStage,
                PastIndex, PastGrant, Idle
  <2>2. CASE job'[w] = job[w] /\ job[w] # Idle
    <3>1. /\ job[w] \in Job /\ KeyOf(w) \in Key /\ KeyOf(w) = job[w].key
          /\ job[w].rev \in 1..Len(log[KeyOf(w)])
      BY <2>2, BusyRevision DEF TypeOK, QueuesTypeOK
    <3>2. KeyOf(w)' = KeyOf(w)
      BY <2>2 DEF KeyOf
    <3>3. EntryOf(w)' = EntryOf(w)
      BY <2>2, <3>1, WrittenStays DEF EntryOf
    <3>4. DeletesAreDeletes(w)' /\ DeletesDelete(w)' /\ NoJunk(w)' /\ Published(w)'
      BY <2>2, <3>2, <3>3
         DEF Stages, DeletesAreDeletes, DeletesDelete, NoJunk, Published, IsDelete
    <3>5. GrantStage(w)'
      <4> SUFFICES ASSUME job[w].pc \in PastGrant, KeyOf(w) \in Response
                   PROVE  Granted(KeyOf(w), job[w].rev)'
        BY <2>2, <3>2 DEF GrantStage
      <4>1. PICK k, n : k = KeyOf(w) /\ n = job[w].rev
        OBVIOUS
      <4>2. Granted(k, n)
        BY <4>1 DEF Stages, GrantStage
      <4>3. Granted(k, n)'
        BY <3>1, <4>1, <4>2, GrantedStays
      <4> QED BY <2>2, <3>2, <4>1, <4>3
    <3> QED BY <3>4, <3>5
  <2> QED BY <2>1, <2>2
<1>2. ASSUME NEW k \in Key
      PROVE  DeleteClears(k)' /\ TombShown(k)' /\ AckedShown(k)'
  <2>1. index[k].rev \in Nat /\ index[k].rev <= Len(log[k])
    BY <1>2 DEF ShownIsWritten, TypeOK, EffectsTypeOK
  <2>2. /\ Len(log[k]) \in Nat
        /\ \A i \in 1..Len(log[k]) : log'[k][i] = log[k][i]
        /\ WrittenAgain(k) => WrittenAgain(k)'
    BY WrittenStays
  <2>3. DeleteShown(k)' <=> DeleteShown(k)
    <3>1. index[k].rev # 0 => log'[k][index[k].rev] = log[k][index[k].rev]
      BY <2>1, <2>2
    <3> QED BY <3>1 DEF DeleteShown
  <2>4. DeleteClears(k)'
    BY <2>3 DEF Stages, DeleteClears
  <2>5. TombShown(k)'
    BY <2>2, <2>3 DEF Stages, TombShown
  <2>6. AckedShown(k)'
    <3> SUFFICES ASSUME cons'[k].st = "acked" PROVE AckedShown(k)'
      BY DEF AckedShown
    <3>1. cons[k].st = "acked" /\ Stored(k)' = Stored(k) /\ Len(log'[k]) = Len(log[k])
      BY DEF Stored
    <3> QED BY <2>2, <2>3, <3>1 DEF Stages, AckedShown
  <2> QED BY <2>4, <2>5, <2>6
<1>3. ASSUME NEW r \in Response PROVE AckedGranted(r)'
  <2> SUFFICES ASSUME cons'[r].st = "acked", Stored(r)'.op = "put", Len(log'[r]) >= 2
               PROVE  Granted(r, Len(log[r]))'
    BY DEF AckedGranted
  <2>1. PICK n : n = Len(log[r])
    OBVIOUS
  <2>2. /\ r \in Key /\ n \in Nat /\ cons[r].st = "acked"
        /\ Stored(r)' = Stored(r) /\ Len(log'[r]) = n
    BY <2>1 DEF Key, Child, Stored, TypeOK, QueuesTypeOK
  <2>3. Granted(r, n) /\ n \in 1..Len(log[r])
    BY <2>1, <2>2 DEF Stages, AckedGranted
  <2> QED BY <2>2, <2>3, GrantedStays
<1> QED BY <1>1, <1>2, <1>3 DEF Stages

LEMMA HandleStages ==
  ASSUME OneReplica, NeverGivesUp, ServiceInv, NEW w \in Replica, Handle(w)
  PROVE  Stages'
<1>1. /\ TypeOK /\ RevisionsExist /\ StepFits(w) /\ InOrder(w)
      /\ DeletesAreDeletes(w) /\ DeletesDelete(w) /\ NoJunk(w)
      /\ Published(w) /\ GrantStage(w)
  BY DEF ServiceInv
<1>2. \A x \in Replica : x = w
  BY DEF OneReplica
<1>3. /\ DeletesAreDeletes(w)' /\ DeletesDelete(w)' /\ NoJunk(w)'
      /\ Published(w)' /\ GrantStage(w)'
  BY <1>1, HandleDeletes, HandleDeletesDelete, HandleNoJunk, HandlePublished,
     HandleGrantStage
<1>4. ASSUME NEW k \in Key
      PROVE  DeleteClears(k)' /\ TombShown(k)' /\ AckedShown(k)'
  BY <1>1, HandleClears, HandleTombShown, HandleAckedShown DEF ServiceInv
<1>5. ASSUME NEW r \in Response PROVE AckedGranted(r)'
  <2>1. r \in Key
    BY DEF Key, Child
  <2> QED BY <1>1, <2>1, HandleAckedGranted DEF ServiceInv
<1> QED BY <1>2, <1>3, <1>4, <1>5 DEF Stages

LEMMA NextServiceInv ==
  ASSUME OneReplica, NeverGivesUp, ServiceInv, [Next]_vars
  PROVE  ServiceInv'
<1>1. /\ TypeOK /\ RevisionsExist /\ ShownIsWritten /\ Stages
      /\ \A w \in Replica : StepFits(w) /\ StepSafe(w) /\ InOrder(w)
  BY DEF ServiceInv, Stages
<1>2. /\ TypeOK' /\ RevisionsExist' /\ Grows
      /\ \A w \in Replica : StepFits(w)' /\ StepSafe(w)'
  BY <1>1, NextKeeps
<1>3. ShownIsWritten' /\ \A w \in Replica : InOrder(w)'
  BY <1>1, <1>2, NextInOrder
<1>4. Extends
  BY <1>1, NextExtends
<1>5. CASE \E w \in Replica : Handle(w)
  <2>1. Stages'
    BY <1>5, HandleStages
  <2> QED BY <1>2, <1>3, <2>1 DEF ServiceInv, Stages
<1>6. CASE ~\E w \in Replica : Handle(w)
  <2>1. UNCHANGED <<mapping, index, grants>>
    BY <1>6 DEF Next, Write, Expire, Deliver, Stops, Crash, Shutdown, Close,
       Restart, vars, sinks, tracking
  <2>2. \A w \in Replica : job'[w] = job[w] \/ job'[w] = Idle
    BY <1>1, <1>6, StopsRevisions DEF Next, Write, Expire, Deliver, vars
  <2>3. ASSUME NEW k \in Key, cons'[k].st = "acked"
        PROVE  cons[k].st = "acked" /\ log'[k] = log[k]
    <3>1. CASE UNCHANGED stream
      BY <2>3, <3>1 DEF stream
    <3>2. (\E w \in Replica : Stops(w)) => UNCHANGED stream
      BY <1>1, StopsQueues DEF TypeOK
    <3> QED BY <1>1, <1>6, <2>3, <3>1, <3>2, AckedBefore DEF Next
  <2>4. Stages'
    BY <1>1, <1>2, <1>4, <2>1, <2>2, <2>3, QuietStages
  <2> QED BY <1>2, <1>3, <2>4 DEF ServiceInv, Stages
<1> QED BY <1>5, <1>6

\* A record put back is a write like any other to the service.
LEMMA PutBackServiceInv ==
  ASSUME ServiceInv, TypeOK', RevisionsExist', NEW r \in Response, NEW e \in Entry,
         Supersede(r, e),
         UNCHANGED <<buf, job, closing, mapping, marker, invited, index, access, grants>>
  PROVE  ServiceInv'
<1>1. /\ TypeOK /\ RevisionsExist /\ ShownIsWritten /\ Stages /\ r \in Key
      /\ \A w \in Replica : StepFits(w) /\ StepSafe(w) /\ InOrder(w)
  BY DEF ServiceInv, Stages, Key, Child
<1>2. Extends /\ Grows
  BY <1>1, SupersedeExtends, WriteGrows
<1>3. \A w \in Replica : StepFits(w)' /\ StepSafe(w)' /\ InOrder(w)'
  BY <1>1, <1>2, OthersKeep, IdleInOrder
<1>4. ShownIsWritten'
  BY <1>1, <1>2 DEF ShownIsWritten, Extends, TypeOK, QueuesTypeOK, EffectsTypeOK
<1>5. ASSUME NEW k \in Key, cons'[k].st = "acked"
      PROVE  cons[k].st = "acked" /\ log'[k] = log[k]
  BY <1>1, <1>5 DEF Supersede, TypeOK, QueuesTypeOK
<1>6. Stages'
  BY <1>1, <1>2, <1>5, QuietStages
<1> QED BY <1>3, <1>4, <1>6 DEF ServiceInv, Stages

-----------------------------------------------------------------------------
(* What the tool knows, and what its replays hide, beside any number of       *)
(* replicas                                                                   *)

\* The service writes and handles records while the tool stands still.
LEMMA StillTally ==
  ASSUME TypeOK, TypeOK', ToolTypeOK, Extends, UNCHANGED toolVars, Tally, AskedFirst
  PROVE  Tally' /\ AskedFirst'
<1>1. UNCHANGED <<tool, outcome, pseudoOK, asked, replays>>
  BY DEF toolVars
<1>2. \A r \in Response : /\ Len(log[r]) \in Nat /\ Len(log'[r]) \in Nat
                          /\ Len(log[r]) <= Len(log'[r])
  <2>1. \A r \in Response : r \in Key
    BY DEF Key, Child
  <2> QED BY <2>1, WrittenStays
<1>3. ASSUME NEW v \in Vote
      PROVE  /\ asked[v] <= Len(log'[v])
             /\ asked[v] # 0 => log'[v][asked[v]] = log[v][asked[v]]
  <2>1. v \in Key /\ asked[v] \in Nat /\ asked[v] <= Len(log[v])
    BY DEF Key, ToolTypeOK, Tally, Answered
  <2> QED BY <2>1, WrittenStays
<1>4. Tally'
  BY <1>1, <1>2, <1>3 DEF Tally, Counted, Answered
<1> QED BY <1>1, <1>4 DEF AskedFirst

\* No vote is opened again by what comes later.
LEMMA HiddenBefore ==
  ASSUME TypeOK, TypeOK', Extends, tool'.mode = tool.mode,
         NEW r \in Response, replays'[r] = replays[r],
         asked'[ParentOf[r]] = asked[ParentOf[r]], Hidden(r)'
  PROVE  Hidden(r)
<1>1. ParentOf[r] \in Key
  BY KeysAssumption DEF Key, Child
<1>2. OpenedSince(ParentOf[r], asked[ParentOf[r]])
        => OpenedSince(ParentOf[r], asked[ParentOf[r]])'
  BY <1>1, WrittenStays DEF OpenedSince
<1> QED BY <1>2 DEF Hidden

\* A vote that was not opened since it was asked about is pseudo-anonymous.
LEMMA HiddenIsPseudo ==
  ASSUME TypeOK, ToolTypeOK, Tally, NEW r \in Response, Hidden(r)
  PROVE  PseudoAnonymous(ParentOf[r])
<1>1. PICK v \in Vote : v = ParentOf[r]
  BY KeysAssumption DEF Child
<1>2. /\ log[v] \in Seq(Entry) /\ Len(log[v]) \in Nat /\ asked[v] <= Len(log[v])
      /\ asked[v] \in Nat
  BY DEF Key, TypeOK, QueuesTypeOK, ToolTypeOK, Tally, Answered
<1>3. CASE log[v] = <<>>
  BY <1>1, <1>3 DEF PseudoAnonymous, Decodes, Found
<1>4. CASE log[v] # <<>>
  <2>1. Len(log[v]) \in DOMAIN log[v]
    BY <1>2, <1>4
  <2>2. ~Stored(v).open
    BY <1>1, <1>2, <2>1 DEF Hidden, OpenedSince, Stored
  <2> QED BY <1>1, <2>2 DEF PseudoAnonymous
<1> QED BY <1>3, <1>4

LEMMA HandleRedacts ==
  ASSUME TypeOK, RevisionsExist, ToolTypeOK, Tally, UNCHANGED toolVars,
         NEW w \in Replica, StepFits(w), Redacts(w), Handle(w)
  PROVE  Redacts(w)'
<1>1. CASE Receive(w)
  BY <1>1, ReceiveGoes DEF Redacts
<1>2. CASE ~Receive(w)
  <2> SUFFICES ASSUME job'[w].pc \in {"lookup", "index"}, KeyOf(w)' \in Response,
                      job'[w].act # "deleted",
                      Hidden(KeyOf(w)'), job'[w].rev >= replays[KeyOf(w)']
               PROVE  job'[w].redact
    <3>1. log' = log
      BY HandleLog
    <3>2. UNCHANGED <<tool, replays, asked>>
      BY DEF toolVars
    <3> QED BY <3>1, <3>2 DEF Redacts, Hidden, OpenedSince
  <2>0. PICK r : r = KeyOf(w)
    OBVIOUS
  <2>1. /\ job[w] \in Job /\ r \in Response /\ KeyOf(w)' = r /\ job'[w].rev = job[w].rev
        /\ Hidden(r) /\ job[w].rev >= replays[r]
        /\ r \notin Vote /\ r \notin Result
    BY <1>2, <2>0, AtJob, KeysAssumption DEF Idle
  <2>2. CASE ReadPrivacy(w) /\ job'[w].pc = "lookup"
    <3> DEFINE hidden == PseudoAnonymous(ParentOf[KeyOf(w)])
    <3>1. hidden
      BY <2>0, <2>1, HiddenIsPseudo
    <3>2. ~Nak(w)
      BY <2>2 DEF Nak, Idle, TypeOK, QueuesTypeOK
    <3>3. job' = [job EXCEPT ![w].pc = "lookup", ![w].redact = hidden]
      BY <2>2, <3>2 DEF ReadPrivacy
    <3> HIDE DEF hidden
    <3>4. job'[w].redact = hidden
      BY <2>1, <3>3 DEF TypeOK, QueuesTypeOK, Job
    <3> QED BY <3>1, <3>4
  <2>3. CASE LookupAction(w)
    <3>1. job[w].pc = "lookup" /\ \E act \in {"created", "updated"} :
             job' = [job EXCEPT ![w].pc = "index", ![w].act = act]
      BY <2>3 DEF LookupAction, At
    <3>2. job'[w].redact = job[w].redact
      BY <2>1, <3>1 DEF TypeOK, QueuesTypeOK, Job
    <3>3. job[w].act # "deleted" /\ job[w].redact
      BY <2>0, <2>1, <3>1 DEF Redacts, StepFits
    <3> QED BY <3>1, <3>2, <3>3
  <2>4. CASE Dedupe(w) /\ job'[w].pc = "index"
    <3>1. job'[w].act = "deleted"
      BY <2>1, <2>4 DEF Dedupe, Ack, Idle, TypeOK, QueuesTypeOK, Job
    <3> QED BY <3>1
  <2>5. ~ConvertVote(w) /\ ~ResultParent(w)
    BY <2>0, <2>1 DEF ConvertVote, ResultParent
  <2> QED BY <1>2, <2>2, <2>3, <2>4, <2>5, StepOrder DEF Idle
<1> QED BY <1>1, <1>2

LEMMA HandleHides ==
  ASSUME TypeOK, RevisionsExist, UNCHANGED toolVars,
         NEW w \in Replica, Redacts(w), Handle(w), NEW r \in Response, HiddenShown(r)
  PROVE  HiddenShown(r)'
<1>1. /\ r \in Key /\ log' = log
  BY HandleLog DEF Key, Child
<1>2. UNCHANGED <<tool, replays, asked>>
  BY DEF toolVars
<1>3. Hidden(r)' <=> Hidden(r)
  BY <1>1, <1>2 DEF Hidden, OpenedSince
<1>4. CASE index'[r] = index[r]
  BY <1>2, <1>3, <1>4 DEF HiddenShown
<1>5. CASE /\ r = KeyOf(w) /\ job[w].pc = "index"
           /\ index'[r].rev = job[w].rev /\ index'[r].doc = Document(w)
  <2> SUFFICES ASSUME Hidden(r), job[w].rev >= replays[r] PROVE Document(w) # "full"
    BY <1>2, <1>3, <1>5 DEF HiddenShown
  <2>1. job[w].act # "deleted" => job[w].redact
    BY <1>5 DEF Redacts
  <2> QED BY <2>1 DEF Document
<1> QED BY <1>1, <1>4, <1>5, ShownMoves

\* A step that leaves the handlers' jobs and the indexer alone.
LEMMA QuietHides ==
  ASSUME TypeOK, TypeOK', RevisionsExist, Extends, tool'.mode = tool.mode,
         UNCHANGED <<asked, replays, index>>, HidesInv,
         \A w \in Replica : job'[w] = job[w] \/ job'[w] = Idle
  PROVE  /\ \A w \in Replica : Redacts(w)'
         /\ \A r \in Response : HiddenShown(r)'
<1>1. \A r \in Response : Hidden(r)' => Hidden(r)
  BY HiddenBefore
<1>2. ASSUME NEW w \in Replica PROVE Redacts(w)'
  <2>1. CASE job'[w] = Idle
    BY <2>1 DEF Redacts, Idle
  <2>2. CASE job'[w] = job[w]
    <3>1. KeyOf(w)' = KeyOf(w)
      BY <2>2 DEF KeyOf
    <3> QED BY <1>1, <2>2, <3>1 DEF HidesInv, Redacts
  <2> QED BY <2>1, <2>2
<1>3. ASSUME NEW r \in Response PROVE HiddenShown(r)'
  BY <1>1 DEF HidesInv, HiddenShown
<1> QED BY <1>2, <1>3

LEMMA ServiceHides ==
  ASSUME ReindexInv, TypeOK', HidesInv, [Next]_vars, UNCHANGED toolVars
  PROVE  HidesInv'
<1>1. /\ TypeOK /\ ToolTypeOK /\ RevisionsExist /\ Tally /\ AskedFirst
      /\ \A w \in Replica : StepFits(w) /\ Redacts(w)
      /\ \A r \in Response : HiddenShown(r)
  BY DEF ReindexInv, HidesInv
<1>2. Extends
  BY <1>1, NextExtends
<1>3. UNCHANGED <<tool, asked, replays>>
  BY DEF toolVars
<1>4. Tally' /\ AskedFirst'
  BY <1>1, <1>2, StillTally
<1>5. CASE \E w \in Replica : Handle(w)
  <2> PICK w \in Replica : Handle(w)
    BY <1>5
  <2>1. Redacts(w)' /\ \A r \in Response : HiddenShown(r)'
    BY <1>1, HandleRedacts, HandleHides
  <2>2. ASSUME NEW x \in Replica \ {w} PROVE Redacts(x)'
    <3>1. job'[x] = job[x] /\ log' = log
      BY <1>1, HandleMovesOne, HandleLog
    <3> QED BY <1>1, <1>3, <3>1 DEF Redacts, Hidden, OpenedSince, KeyOf
  <2> QED BY <1>4, <2>1, <2>2 DEF HidesInv
<1>6. CASE ~\E w \in Replica : Handle(w)
  <2>1. index' = index /\ \A w \in Replica : job'[w] = job[w] \/ job'[w] = Idle
    BY <1>1, <1>6, StopsQueues, StopsRevisions DEF Next, Write, Expire, Deliver, vars,
       sinks, TypeOK
  <2>2. /\ \A w \in Replica : Redacts(w)'
        /\ \A r \in Response : HiddenShown(r)'
    BY <1>1, <1>2, <1>3, <2>1, QuietHides
  <2> QED BY <1>4, <2>2 DEF HidesInv
<1> QED BY <1>5, <1>6

\* A step of the run keeps the tally if the response in hand is counted rightly
\* and the answers cached before are kept.
LEMMA TallyKept ==
  ASSUME TypeOK, TypeOK', ToolTypeOK, Extends, Tally, tool'.mode = tool.mode, NEW r,
         \A x \in Response : x # r =>
           outcome'[x] = outcome[x] /\ replays'[x] = replays[x],
         r \in Response =>
           \/ Counted(r)'
           \/ outcome'[r] = outcome[r] /\ replays'[r] = replays[r],
         \A x \in Response : outcome'[x] = "failed" => tool'.pc # "finished",
         \A v \in Vote : \/ pseudoOK[v] = "unknown" /\ Answered(v)'
                         \/ pseudoOK'[v] = pseudoOK[v] /\ asked'[v] = asked[v]
  PROVE  Tally'
<1>1. ASSUME NEW x \in Response PROVE Counted(x)'
  <2>1. Len(log[x]) \in Nat /\ Len(log'[x]) \in Nat /\ Len(log[x]) <= Len(log'[x])
    <3>1. x \in Key
      BY DEF Key, Child
    <3> QED BY <3>1, WrittenStays
  <2>2. pseudoOK[ParentOf[x]] = "no" => pseudoOK'[ParentOf[x]] = "no"
    BY KeysAssumption DEF Child
  <2>3. CASE outcome'[x] = outcome[x] /\ replays'[x] = replays[x]
    BY <2>1, <2>2, <2>3 DEF Tally, Counted
  <2> QED BY <2>3
<1>2. ASSUME NEW v \in Vote, pseudoOK'[v] = pseudoOK[v], asked'[v] = asked[v]
      PROVE  Answered(v)'
  <2>1. v \in Key /\ asked[v] \in Nat /\ Answered(v)
    BY DEF Key, ToolTypeOK, Tally
  <2>2. /\ Len(log[v]) \in Nat /\ Len(log'[v]) \in Nat /\ Len(log[v]) <= Len(log'[v])
        /\ \A i \in 1..Len(log[v]) : log'[v][i] = log[v][i]
    BY <2>1, WrittenStays
  <2> QED BY <1>2, <2>1, <2>2 DEF Answered
<1> QED BY <1>1, <1>2 DEF Tally

\* Steps of the run that neither write nor ask about the privacy of a vote.
LEMMA PlainTally ==
  ASSUME TypeOK, ToolTypeOK, Tally, AskedFirst, UNCHANGED <<log, replays, pseudoOK, asked>>,
         \/ Start \/ Finish \/ Abort \/ (\E h \in scroll : Pick(h))
         \/ ReadRecord \/ ReadMapping \/ ParentMapped,
         tool.pc \in {"read", "mapping", "parent"} => tool.id \in Response
  PROVE  Tally' /\ AskedFirst' /\ tool'.mode = tool.mode
<1>0. /\ TypeOK => Extends
      /\ tool \in [pc: ToolSteps, mode: Options, id: Response \cup {NoneInHand},
                   rev: Nat, copies: SUBSET Copied]
      /\ outcome \in [Response -> Outcomes]
  BY SameLogExtends DEF ToolTypeOK
<1> DEFINE Goes == /\ outcome' = outcome /\ tool'.mode = tool.mode
                   /\ tool'.pc = "finished" => \A x \in Response : outcome[x] # "failed"
                   /\ tool'.pc = "replay" => ~tool.mode.pseudoOnly
           Harmless(what) == /\ what \in Outcomes \ {"failed", "named", "replayed", "conflict"}
                             /\ what = "eligible" => ~tool.mode.apply
                             /\ what = "reindexed" => tool.mode.skipReindexed
           Counts == \E r \in Response : \E what : Count(r, what) /\ Harmless(what)
<1>1. ASSUME Start \/ Finish \/ Abort PROVE Goes
  <2>1. CASE Start
    BY <1>0, <2>1 DEF Start, ToolGoto
  <2>2. CASE Finish
    BY <1>0, <2>2 DEF Finish, ToolGoto
  <2>3. CASE Abort
    BY <1>0, <2>3 DEF Abort, PutDown
  <2> QED BY <1>1, <2>1, <2>2, <2>3
<1>2. ASSUME NEW h \in scroll, Pick(h) PROVE Goes \/ Counts
  <2>1. h.id \in Response
    BY DEF ToolTypeOK, Hit
  <2>2. CASE Count(h.id, "reindexed") /\ tool.mode.skipReindexed
    BY <2>1, <2>2 DEF Outcomes, Skips
  <2>3. CASE Count(h.id, "other")
    BY <2>1, <2>3 DEF Outcomes, Skips
  <2>4. CASE /\ outcome' = outcome
             /\ \/ ToolGoto("aborted") \/ UNCHANGED tool
                \/ tool' = [tool EXCEPT !.pc = "read", !.id = h.id]
    BY <1>0, <1>2, <2>4 DEF ToolGoto, Pick, ToolAt
  <2> QED BY <1>2, <2>2, <2>3, <2>4 DEF Pick
<1>3. ASSUME tool.id \in Response,
             \E what \in {"notfound", "undecodable", "deleted", "nomap", "tomb", "noparent"} :
               Count(tool.id, what)
      PROVE  Counts
  BY <1>3 DEF Outcomes, Skips
<1>4. ASSUME ReadRecord PROVE Goes \/ Counts
  <2>1. \/ \E what \in {"notfound", "undecodable", "deleted"} : Count(tool.id, what)
        \/ /\ outcome' = outcome
           /\ tool' = [tool EXCEPT !.pc = "mapping", !.rev = Len(log[tool.id])]
    BY <1>4 DEF ReadRecord
  <2>2. tool.id \in Response
    BY <1>4 DEF ReadRecord, ToolAt
  <2>3. CASE /\ outcome' = outcome
             /\ tool' = [tool EXCEPT !.pc = "mapping", !.rev = Len(log[tool.id])]
    <3>1. tool'.mode = tool.mode /\ tool'.pc = "mapping"
      BY <1>0, <2>3
    <3> QED BY <2>3, <3>1
  <2> QED BY <1>3, <2>1, <2>2, <2>3
<1>5. ASSUME ReadMapping PROVE Goes \/ Counts
  <2>1. \/ \E what \in {"nomap", "tomb"} : Count(tool.id, what)
        \/ outcome' = outcome /\ ToolGoto("parent")
    BY <1>5 DEF ReadMapping
  <2>2. tool.id \in Response
    BY <1>5 DEF ReadMapping, ToolAt
  <2> QED BY <1>0, <1>3, <2>1, <2>2 DEF ToolGoto
<1>6. ASSUME ParentMapped PROVE Goes \/ Counts
  <2>1. \/ Count(tool.id, "noparent")
        \/ Count(tool.id, "eligible") /\ ~tool.mode.apply
        \/ outcome' = outcome /\ ToolGoto("privacy")
        \/ outcome' = outcome /\ ToolGoto("replay") /\ ~tool.mode.pseudoOnly
    BY <1>6 DEF ParentMapped, Eligible
  <2>2. tool.id \in Response
    BY <1>6 DEF ParentMapped, ToolAt
  <2>3. CASE Count(tool.id, "eligible") /\ ~tool.mode.apply
    BY <2>2, <2>3 DEF Outcomes, Skips
  <2> QED BY <1>0, <1>3, <2>1, <2>2, <2>3 DEF ToolGoto
<1>7. CASE Goes
  <2>1. Tally'
    BY <1>7 DEF Tally, Counted, Answered
  <2> QED BY <1>7, <2>1 DEF AskedFirst
<1>8. CASE Counts
  <2>1. PICK r \in Response : \E what : Count(r, what) /\ Harmless(what)
    BY <1>8
  <2>2. PICK what : Count(r, what) /\ Harmless(what)
    BY <2>1
  <2>3. /\ tool'.mode = tool.mode /\ tool'.pc = "scan" /\ outcome'[r] = what
        /\ \A x \in Response \ {r} : outcome'[x] = outcome[x]
    BY <1>0, <2>2 DEF Count, PutDown
  <2>4. Tally'
    BY <2>2, <2>3 DEF Tally, Counted, Answered
  <2> QED BY <2>3, <2>4 DEF AskedFirst
<1> HIDE DEF Goes, Counts
<1> QED BY <1>1, <1>2, <1>4, <1>5, <1>6, <1>7, <1>8

\* The privacy of a vote is asked about once, before its responses are replayed.
LEMMA PrivacyTally ==
  ASSUME TypeOK, TypeOK', ToolTypeOK, Tally, AskedFirst, ParentPseudoAnonymous, log' = log,
         replays' = replays, tool.id \in Response
  PROVE  /\ Tally' /\ AskedFirst' /\ tool'.mode = tool.mode
         /\ \A v \in Vote : pseudoOK[v] # "unknown" => asked'[v] = asked[v]
<1> PICK r \in Response : r = tool.id
  OBVIOUS
<1> PICK v \in Vote : v = ParentOf[r]
  BY KeysAssumption DEF Child
<1>0. /\ Extends /\ v \in Key /\ tool.pc = "privacy"
      /\ tool \in [pc: ToolSteps, mode: Options, id: Response \cup {NoneInHand},
                   rev: Nat, copies: SUBSET Copied]
      /\ outcome \in [Response -> Outcomes] /\ pseudoOK \in [Vote -> Cached]
      /\ asked \in [Vote -> Nat] /\ Len(log[v]) \in Nat
  BY SameLogExtends
     DEF ToolTypeOK, Key, ParentPseudoAnonymous, ToolAt, TypeOK, QueuesTypeOK
<1>1. \A u \in Vote \ {v} : pseudoOK'[u] = pseudoOK[u] /\ asked'[u] = asked[u]
  BY <1>0 DEF ParentPseudoAnonymous
<1>2. pseudoOK[v] # "unknown" => pseudoOK'[v] = pseudoOK[v] /\ asked'[v] = asked[v]
  BY <1>0 DEF ParentPseudoAnonymous
<1>3. pseudoOK[v] = "unknown" =>
        /\ pseudoOK'[v] = IF PseudoAnonymous(v) THEN "yes" ELSE "no"
        /\ asked'[v] = Len(log[v])
  BY <1>0 DEF ParentPseudoAnonymous
<1>4. pseudoOK[v] = "unknown" => Answered(v)'
  <2>1. ~PseudoAnonymous(v) => Len(log[v]) # 0 /\ log[v][Len(log[v])].open
    BY <1>0 DEF PseudoAnonymous, Decodes, Found, Stored, TypeOK, QueuesTypeOK
  <2> QED BY <1>0, <1>3, <2>1 DEF Answered
<1>5. /\ tool'.mode = tool.mode /\ pseudoOK'[v] # "unknown"
      /\ \/ outcome' = outcome /\ tool'.pc = "replay" /\ tool'.id = r
         \/ /\ tool'.pc = "scan" /\ \A x \in Response \ {r} : outcome'[x] = outcome[x]
            /\ \/ outcome'[r] = "eligible" /\ ~tool.mode.apply
               \/ outcome'[r] = "named" /\ pseudoOK'[v] = "no"
  <2>1. pseudoOK'[v] \in {"yes", "no"}
    BY <1>0, <1>2, <1>3 DEF Cached
  <2>2. \/ pseudoOK'[v] = "yes" /\ Eligible(v)
        \/ pseudoOK'[v] = "no" /\ Count(r, "named")
    <3> DEFINE pseudo == IF pseudoOK[v] # "unknown" THEN pseudoOK[v]
                         ELSE IF PseudoAnonymous(v) THEN "yes" ELSE "no"
    <3>1. /\ pseudoOK' = [pseudoOK EXCEPT ![v] = pseudo]
          /\ IF pseudo = "yes" THEN Eligible(v) ELSE Count(r, "named")
      BY DEF ParentPseudoAnonymous
    <3>2. pseudoOK'[v] = pseudo
      BY <1>0, <3>1
    <3> HIDE DEF pseudo
    <3> QED BY <2>1, <3>1, <3>2
  <2> QED BY <1>0, <2>1, <2>2 DEF Eligible, ToolGoto, Count, PutDown
<1>6. Tally'
  <2>1. \A u \in Vote : \/ pseudoOK[u] = "unknown" /\ Answered(u)'
                        \/ pseudoOK'[u] = pseudoOK[u] /\ asked'[u] = asked[u]
    BY <1>1, <1>2, <1>4
  <2>2. \A x \in Response : outcome'[x] = "failed" => tool'.pc # "finished"
    BY <1>5
  <2>3. Counted(r)' \/ outcome'[r] = outcome[r]
    BY <1>5 DEF Counted
  <2>4. \A x \in Response : x # r => outcome'[x] = outcome[x]
    BY <1>5
  <2> QED BY <1>0, <1>5, <2>1, <2>2, <2>3, <2>4, TallyKept
<1>7. AskedFirst'
  BY <1>1, <1>2, <1>5, KeysAssumption DEF AskedFirst, Child
<1> QED BY <1>1, <1>2, <1>5, <1>6, <1>7

\* The revision a replay writes is newer than any that a handler is at or that
\* the indexer was told about.
LEMMA ReplayHides ==
  ASSUME ReindexInv, TypeOK', HidesInv, ReplayRecord
  PROVE  HidesInv'
<1> PICK r \in Response : r = tool.id /\ tool.pc = "replay" /\ tool.rev \in 1..Len(log[r])
  BY DEF ReindexInv, InHand, ReplayRecord, ToolAt
<1>0. /\ TypeOK /\ ToolTypeOK /\ RevisionsExist /\ Tally /\ AskedFirst /\ r \in Key
      /\ Len(log[r]) \in Nat /\ log[r][tool.rev] \in Entry
      /\ tool \in [pc: ToolSteps, mode: Options, id: Response \cup {NoneInHand},
                   rev: Nat, copies: SUBSET Copied]
      /\ outcome \in [Response -> Outcomes] /\ replays \in [Response -> Nat]
  BY DEF ReindexInv, HidesInv, ToolTypeOK, Key, Child, TypeOK, QueuesTypeOK
<1>1. PICK what \in {"replayed", "conflict", "failed"} :
        /\ Count(r, what)
        /\ \/ what # "conflict" /\ Unmodified(r) /\ PutBack(r)
           \/ what = "conflict" /\ ~Unmodified(r) /\ UNCHANGED <<stream, replays>>
           \/ what = "failed" /\ UNCHANGED <<stream, replays>>
  BY DEF ReplayRecord
<1>2. /\ UNCHANGED <<job, index, pseudoOK, asked>>
      /\ tool'.mode = tool.mode /\ tool'.pc = "scan" /\ outcome'[r] = what
      /\ \A x \in Response \ {r} : outcome'[x] = outcome[x]
  BY <1>0, <1>1 DEF ReplayRecord, sinks, Count, PutDown
<1>3. /\ \/ /\ what # "conflict" /\ Supersede(r, log[r][tool.rev])
            /\ Len(log[r]) = tool.rev /\ Len(log'[r]) = Len(log[r]) + 1
            /\ replays'[r] = Len(log[r]) + 1
         \/ /\ what = "conflict" => Len(log[r]) # tool.rev
            /\ what # "replayed" /\ log' = log /\ replays' = replays
      /\ \A x \in Response \ {r} : replays'[x] = replays[x]
  BY <1>0, <1>1 DEF Unmodified, PutBack, Supersede, stream, TypeOK, QueuesTypeOK
<1>4. Extends
  BY <1>0, <1>3, SupersedeExtends, SameLogExtends
<1>5. Tally'
  <2>1. Counted(r)'
    BY <1>0, <1>2, <1>3 DEF Counted
  <2> QED BY <1>0, <1>2, <1>3, <1>4, <2>1, TallyKept
<1>6. AskedFirst'
  BY <1>0, <1>2, <1>3 DEF AskedFirst
<1>7. \A x \in Response \ {r} : Hidden(x)' => Hidden(x)
  BY <1>0, <1>2, <1>3, <1>4, HiddenBefore
<1>8. CASE replays' = replays
  BY <1>0, <1>2, <1>4, <1>5, <1>6, <1>8, QuietHides DEF HidesInv
<1>9. CASE replays'[r] = Len(log[r]) + 1
  <2>1. ASSUME NEW w \in Replica PROVE Redacts(w)'
    <3> SUFFICES ASSUME job[w].pc \in {"lookup", "index"}, KeyOf(w) \in Response
                 PROVE  Redacts(w)'
      BY <1>2 DEF Redacts, KeyOf
    <3>1. /\ job[w] \in Job /\ job[w].rev \in 1..Len(log[KeyOf(w)])
          /\ KeyOf(w)' = KeyOf(w) /\ Len(log[KeyOf(w)]) \in Nat
      BY <1>0, <1>2, BusyRevision DEF KeyOf, Idle, TypeOK, QueuesTypeOK
    <3>2. CASE KeyOf(w) = r
      BY <1>0, <1>2, <1>9, <3>1, <3>2 DEF Redacts
    <3>3. CASE KeyOf(w) # r
      BY <1>2, <1>3, <1>7, <3>1, <3>3 DEF HidesInv, Redacts
    <3> QED BY <3>2, <3>3
  <2>2. ASSUME NEW x \in Response PROVE HiddenShown(x)'
    <3>1. index[r].rev \in Nat /\ index[r].rev <= Len(log[r])
      BY <1>0 DEF ReindexInv, IndexedExist, TypeOK, EffectsTypeOK
    <3>2. CASE x = r
      BY <1>0, <1>2, <1>9, <3>1, <3>2 DEF HiddenShown
    <3>3. CASE x # r
      BY <1>2, <1>3, <1>7, <3>3 DEF HidesInv, HiddenShown
    <3> QED BY <3>2, <3>3
  <2> QED BY <1>5, <1>6, <2>1, <2>2 DEF HidesInv
<1> QED BY <1>3, <1>8, <1>9

LEMMA RunHides ==
  ASSUME ReindexInv, TypeOK', HidesInv, Run \/ Abort, ~ReplayRecord
  PROVE  HidesInv'
<1>0. /\ TypeOK /\ ToolTypeOK /\ RevisionsExist /\ Tally /\ AskedFirst
      /\ tool.pc \in {"read", "mapping", "parent", "privacy"} => tool.id \in Response
  BY DEF ReindexInv, HidesInv, InHand
<1>1. UNCHANGED vars /\ UNCHANGED replays
  BY DEF Run, Abort, Start, Pick, Finish, Process, ReadRecord, ReadMapping,
         ParentMapped, ParentPseudoAnonymous
<1>2. UNCHANGED <<log, job, index>>
  BY <1>1 DEF vars
<1>3. /\ Tally' /\ AskedFirst' /\ tool'.mode = tool.mode
      /\ \A v \in Vote : pseudoOK[v] # "unknown" => asked'[v] = asked[v]
  <2>1. CASE ParentPseudoAnonymous
    <3>1. tool.id \in Response
      BY <1>0, <2>1 DEF ParentPseudoAnonymous, ToolAt
    <3> QED BY <1>0, <1>1, <1>2, <2>1, <3>1, PrivacyTally
  <2>2. CASE \/ Start \/ Finish \/ Abort \/ (\E h \in scroll : Pick(h))
             \/ ReadRecord \/ ReadMapping \/ ParentMapped
    <3>1. UNCHANGED <<pseudoOK, asked>>
      BY <2>2 DEF Abort, Start, Pick, Finish, ReadRecord, ReadMapping, ParentMapped
    <3> QED BY <1>0, <1>1, <1>2, <2>2, <3>1, PlainTally
  <2> QED BY <2>1, <2>2 DEF Run, Process
<1>4. \A r \in Response : Hidden(r)' => Hidden(r)
  BY <1>0, <1>1, <1>2, <1>3, KeysAssumption DEF Hidden, OpenedSince, AskedFirst, Child
<1>5. \A w \in Replica : Redacts(w)'
  BY <1>1, <1>2, <1>4 DEF HidesInv, Redacts, KeyOf
<1>6. \A r \in Response : HiddenShown(r)'
  BY <1>1, <1>2, <1>4 DEF HidesInv, HiddenShown
<1> QED BY <1>3, <1>5, <1>6 DEF HidesInv

LEMMA NextHides ==
  ASSUME ReindexInv, TypeOK', HidesInv, [ReindexNext]_allVars
  PROVE  HidesInv'
<1>1. CASE Service \/ UNCHANGED allVars
  BY <1>1, ServiceHides DEF Service, allVars
<1>2. CASE ReplayRecord
  BY <1>2, ReplayHides
<1>3. CASE (Run \/ Abort) /\ ~ReplayRecord
  BY <1>3, RunHides
<1> QED BY <1>1, <1>2, <1>3 DEF ReindexNext

-----------------------------------------------------------------------------
(* The theorems *)

PassInv == ReindexInv /\ CopyInv /\ ServiceInv /\ HidesInv

LEMMA InitPass == ReindexInit => PassInv
<1> SUFFICES ASSUME ReindexInit PROVE PassInv
  OBVIOUS
<1>1. ReindexInv
  BY ReindexInitInvariant
<1>2. /\ TypeOK /\ ToolTypeOK /\ RevisionsExist
      /\ \A w \in Replica : StepFits(w) /\ StepSafe(w)
  BY <1>1 DEF ReindexInv
<1>3. /\ \A w \in Replica : job[w] = Idle /\ buf[w] = <<>>
      /\ \A k \in Key : /\ Len(log[k]) \in Nat /\ mapping[k] # "tomb"
                        /\ IF Synced(k) THEN index[k].rev = 1 /\ log[k][1].op = "put"
                                        ELSE index[k].rev = 0 /\ cons[k].st = "none"
  BY <1>2 DEF ReindexInit, FirstEntry, TypeOK, QueuesTypeOK
<1>4. \A k \in Key : Synced(k) => Len(log[k]) = 1
  <2> SUFFICES ASSUME NEW k \in Key, Synced(k) PROVE Len(log[k]) = 1
    OBVIOUS
  <2>1. \E e \in Entry : log[k] = <<e>>
    BY DEF ReindexInit
  <2> QED BY <2>1
<1>5. ShownIsWritten
  BY <1>3, <1>4 DEF ShownIsWritten
<1>6. \A w \in Replica : /\ InOrder(w) /\ DeletesAreDeletes(w) /\ DeletesDelete(w)
                         /\ NoJunk(w) /\ Published(w) /\ GrantStage(w) /\ Redacts(w)
  BY <1>3 DEF InOrder, DeletesAreDeletes, DeletesDelete, NoJunk, Published, GrantStage,
              Redacts, PastIndex, PastGrant, Idle
<1>7. \A k \in Key : DeleteClears(k) /\ TombShown(k) /\ AckedShown(k)
  BY <1>3, <1>4 DEF DeleteClears, DeleteShown, TombShown, AckedShown, Deletes
<1>8. \A r \in Response : AckedGranted(r)
  <2> SUFFICES ASSUME NEW r \in Response, cons[r].st = "acked", Len(log[r]) >= 2
               PROVE  FALSE
    BY DEF AckedGranted
  <2>1. r \in Key
    BY DEF Key, Child
  <2>2. Synced(r)
    BY <1>3, <2>1
  <2>3. Len(log[r]) = 1
    BY <1>4, <2>1, <2>2
  <2> QED BY <2>3
<1>9. HidesInv
  BY <1>2, <1>6 DEF ReindexInit, HidesInv, Tally, Counted, Answered, AskedFirst, Hidden,
                    HiddenShown, Key, TypeOK, QueuesTypeOK
<1>10. CopyInv
  BY <1>2 DEF ReindexInit, CopyInv
<1> QED BY <1>1, <1>2, <1>5, <1>6, <1>7, <1>8, <1>9, <1>10 DEF PassInv, ServiceInv

LEMMA NextPass ==
  ASSUME OneReplica, NeverGivesUp, PassInv, [ReindexNext]_allVars
  PROVE  PassInv'
<1>1. ReindexInv'
  BY ReindexNextInvariant DEF PassInv
<1>2. TypeOK' /\ ToolTypeOK' /\ RevisionsExist'
  BY <1>1 DEF ReindexInv
<1>3. CopyInv' /\ HidesInv'
  BY <1>2, CopyNext, NextHides DEF PassInv
<1>4. ServiceInv'
  <2>1. CASE UNCHANGED vars
    BY <2>1, NextServiceInv DEF PassInv
  <2>2. CASE Service
    BY <2>2, NextServiceInv DEF PassInv, Service
  <2>3. CASE ReplayRecord
    <3> PICK r \in Response : r = tool.id /\ tool.rev \in 1..Len(log[r])
      BY <2>3 DEF PassInv, ReindexInv, InHand, ReplayRecord, ToolAt
    <3>1. log[r][tool.rev] \in Entry
      BY DEF PassInv, ServiceInv, TypeOK, QueuesTypeOK, Key, Child
    <3>2. UNCHANGED <<buf, job, closing, mapping, marker, invited, index, access, grants>>
      BY <2>3 DEF ReplayRecord, tracking, sinks
    <3>3. Supersede(r, log[r][tool.rev]) \/ UNCHANGED stream
      BY <2>3 DEF ReplayRecord, PutBack
    <3>4. CASE UNCHANGED stream
      <4>1. UNCHANGED vars
        BY <3>2, <3>4 DEF vars, stream
      <4> QED BY <4>1, NextServiceInv DEF PassInv
    <3> QED BY <1>2, <3>1, <3>2, <3>3, <3>4, PutBackServiceInv DEF PassInv
  <2>4. CASE (Run \/ Abort) /\ ~ReplayRecord
    <3>1. UNCHANGED vars
      BY <2>4 DEF Run, Abort, Start, Pick, Finish, Process, ReadRecord, ReadMapping,
         ParentMapped, ParentPseudoAnonymous
    <3> QED BY <3>1, NextServiceInv DEF PassInv
  <2> QED BY <2>1, <2>2, <2>3, <2>4 DEF ReindexNext, allVars
<1> QED BY <1>1, <1>3, <1>4 DEF PassInv

\* PassInv holds in every reachable state of a run beside one replica.
THEOREM PassInvariant ==
  ASSUME OneReplica, NeverGivesUp
  PROVE  ReindexSpec => []PassInv
<1>1. PassInv /\ [ReindexNext]_allVars => PassInv'
  BY NextPass
<1> QED BY <1>1, InitPass, PTL DEF ReindexSpec

\* Once a replayed response, or one written meanwhile, is acknowledged, the voter
\* it names is a participant of the vote, unless the vote was deleted or another
\* response of the same voter took the tuple away: beside one replica, for any
\* records, options and faults but those that make a handler give up.
THEOREM PassesGrant ==
  ASSUME OneReplica, NeverGivesUp
  PROVE  ReindexSpec => []PassGrants
<1>1. PassInv => PassGrants
  <2> SUFFICES ASSUME PassInv, NEW r \in Indexed, outcome[r] \in {"replayed", "conflict"},
                      cons[r].st = "acked", GrantsParticipant(Stored(r)),
                      Stored(r).user # NoUser
               PROVE  \/ <<ParentOf[r], Stored(r).user>> \in grants
                      \/ DeletedOnce(ParentOf[r]) \/ RevokedByAnother(r)
    BY DEF PassGrants
  <2>1. /\ r \in Response /\ TypeOK /\ ParentOf[r] \in Key
        /\ Len(log[r]) >= 2 /\ Stored(r).op = "put"
    BY ReindexAssumption, KeysAssumption
       DEF PassInv, ServiceInv, HidesInv, Tally, Counted, GrantsParticipant, Key, Child
  <2>2. \A k \in Key : DOMAIN log[k] = 1..Len(log[k])
    BY <2>1 DEF TypeOK, QueuesTypeOK
  <2>3. Granted(r, Len(log[r]))
    BY <2>1 DEF PassInv, ServiceInv, AckedGranted
  <2>4. VoteDeleted(ParentOf[r]) => DeletedOnce(ParentOf[r])
    BY <2>1, <2>2 DEF VoteDeleted, DeletedOnce
  <2>5. RevokedElsewhere(r, Stored(r).user) => RevokedByAnother(r)
    BY <2>2 DEF RevokedElsewhere, RevokedByAnother, Key, Child
  <2> QED BY <2>3, <2>4, <2>5 DEF Granted, Stored
<1> QED BY <1>1, PassInvariant, PTL

\* After a privacy pass that reports success, no document of a response it has
\* counted keeps the ballot, whatever the upstream writes meanwhile, with the
\* exceptions Redacted names: beside one replica, for any records, options and
\* faults but those that make a handler give up.
THEOREM PrivacyPassesRedact ==
  ASSUME OneReplica, NeverGivesUp
  PROVE  ReindexSpec => []PrivacyPassRedacts
<1>1. PassInv => PrivacyPassRedacts
  <2> SUFFICES ASSUME PassInv, PassSucceeded, NEW r \in Indexed,
                      outcome[r] \notin {"none", "other", "noparent", "undecodable",
                                         "nomap", "conflict"},
                      outcome[r] \in {"notfound", "deleted", "tomb"} => Stored(r).op # "put",
                      cons[r].st = "acked", Stored(r).op # "junk",
                      ~OpenedSince(ParentOf[r], asked[ParentOf[r]]),
                      Stored(r).op = "put" \/ ~WrittenAgain(r)
               PROVE  index[r].doc # "full"
    BY DEF PrivacyPassRedacts, Redacted
  <2>1. /\ r \in Response /\ r \in Key /\ TypeOK /\ ToolTypeOK /\ RevisionsExist
        /\ AckedShown(r) /\ DeleteClears(r)
        /\ Counted(r) /\ Answered(ParentOf[r]) /\ HiddenShown(r)
    BY ReindexAssumption, KeysAssumption
       DEF PassInv, CopyInv, ServiceInv, HidesInv, Tally, Key, Child
  <2>2. /\ log[r] \in Seq(Entry) /\ Len(log[r]) \in 1..Len(log[r]) /\ Stored(r) \in Entry
    <3>1. Len(log[r]) > 0
      BY <2>1 DEF RevisionsExist
    <3> QED BY <2>1, <3>1 DEF TypeOK, QueuesTypeOK, Stored
  <2>3. CASE Stored(r).op # "put"
    <3>1. Stored(r).op \in Deletes
      BY <2>2, <2>3 DEF Entry, OpKinds, Deletes
    <3>2. DeleteShown(r)
      BY <2>1, <2>2, <2>3, <3>1 DEF AckedShown, DeleteShown, Stored
    <3> QED BY <2>1, <3>2 DEF DeleteClears
  <2>4. CASE Stored(r).op = "put"
    <3>1. outcome[r] = "replayed"
      <4>1. outcome[r] \in Outcomes
        BY <2>1 DEF ToolTypeOK
      <4>2. outcome[r] # "named"
        <5>1. PICK v \in Vote : v = ParentOf[r]
          BY <2>1, KeysAssumption DEF Child
        <5>2. /\ asked[v] \in Nat /\ Len(log[v]) \in Nat
              /\ DOMAIN log[v] = 1..Len(log[v])
          BY <2>1, <5>1 DEF Key, ToolTypeOK, TypeOK, QueuesTypeOK
        <5> QED BY <2>1, <5>1, <5>2 DEF Counted, Answered, OpenedSince
      <4>3. outcome[r] \notin {"eligible", "reindexed", "failed"}
        BY <2>1 DEF Counted, PassSucceeded, ToolAt, PassInv, CopyInv
      <4> QED BY <2>4, <4>1, <4>2, <4>3 DEF Outcomes, Skips
    <3>2. Hidden(r)
      BY <2>1, <3>1 DEF Hidden, Counted, PassSucceeded
    <3>3. index[r].rev = Len(log[r])
      BY <2>1, <2>4 DEF AckedShown, Deletes
    <3>4. replays[r] <= Len(log[r])
      BY <2>1, <2>2, <3>2 DEF Hidden, PassInv, ReindexInv, ReplaysExist
    <3> QED BY <2>1, <2>2, <3>2, <3>3, <3>4 DEF HiddenShown, ToolTypeOK
  <2> QED BY <2>3, <2>4
<1> QED BY <1>1, PassInvariant, PTL
=============================================================================
