------------------------------ MODULE DeleteProofs ----------------------------
(***************************************************************************)
(* What an acknowledged delete has taken away, when a single replica meets *)
(* no fault that leaves a record half published or what was published      *)
(* unnoted: the tombstone that lets the next delete be skipped then always *)
(* stands for a record that is gone.                                       *)
(***************************************************************************)
EXTENDS SingleReplicaProofs

\* A replica that dies, or fails to note what it published, leaves the old
\* tombstone over a record that is back, and one that is shut down may do either;
\* a publication that fails for good is acknowledged without effect.
NothingUnnoted == Faults \cap {"crash", "shutdown", "payload", "kvput"} = {}

\* A publication that fails between two messages leaves the old tombstone too;
\* a result is published in one message.
Whole(k) == k \in Result \/ "publish" \notin Faults

NothingHalfDone == NothingUnnoted /\ "publish" \notin Faults

IsDelete(w) == EntryOf(w).op \in {"soft", "hard"}

\* A delete of the response has been carried out, on the voter it names if any
\* and if no other response of the vote names that voter.
VoterGone(k) ==
  (k \in Response /\ DistinctVoters) =>
    \E i \in 1..Len(log[k]) :
      /\ log[k][i].op \in {"soft", "hard"}
      /\ log[k][i].op = "soft" => <<ParentOf[k], log[k][i].user>> \notin grants

Gone(k) == index[k].doc = "none" /\ access[k] = 0 /\ VoterGone(k)

ResultsHaveNoAccess == \A k \in Result : access[k] = 0

\* A delete is published as one.
DeletesDelete(w) ==
  (job[w] # Idle /\ IsDelete(w)) => job[w].pc = "dedupe" \/ job[w].act = "deleted"

\* A delete has taken effect where its handler has published it.
DeleteStage(w) ==
  (job[w] # Idle /\ IsDelete(w)) =>
    /\ job[w].pc \in {"access", "participant", "record", "done"} =>
         index[KeyOf(w)].doc = "none"
    /\ job[w].pc \in {"participant", "record", "done"} => access[KeyOf(w)] = 0
    /\ job[w].pc \in {"record", "done"} => VoterGone(KeyOf(w))

\* A write that has been published over a tombstone goes on to overwrite it.
Republishing(w, k) ==
  /\ job[w] # Idle /\ KeyOf(w) = k /\ ~IsDelete(w)
  /\ job[w].pc \in {"access", "participant", "record"}

TombIsGone(k) ==
  (mapping[k] = "tomb" /\ \A w \in Replica : ~Republishing(w, k)) => Gone(k)

\* Nothing older than an acknowledged revision is in hand.
AckedLast(w, k) ==
  cons[k].st = "acked" =>
    /\ \A i \in 1..Len(buf[w]) : buf[w][i].key = k => buf[w][i].rev = Len(log[k])
    /\ (job[w] # Idle /\ job[w].key = k) => job[w].rev = Len(log[k])

AckedGone(k) ==
  (cons[k].st = "acked" /\ Stored(k).op \in {"soft", "hard"}) => Gone(k)

DeleteInv ==
  /\ SoloInv
  /\ ResultsHaveNoAccess
  /\ \A w \in Replica : DeletesAreDeletes(w) /\ DeletesDelete(w)
  /\ \A w \in Replica, k \in Key : AckedLast(w, k)
  /\ \A w \in Replica : DeleteStage(w)
  /\ \A k \in Key : Whole(k) => TombIsGone(k) /\ AckedGone(k)

-----------------------------------------------------------------------------
(* The steps of a handler *)

\* The step a handler is at is the action it takes.
LEMMA StepAt ==
  ASSUME NEW w \in Replica, Handle(w), ~Receive(w)
  PROVE  /\ job[w].pc = "convert" =>
              ConvertVote(w) \/ ConvertResponse(w) \/ ConvertResult(w)
         /\ job[w].pc = "dedupe" => Dedupe(w)
         /\ job[w].pc = "index" => PublishIndex(w)
         /\ job[w].pc = "access" => VoteAccess(w) \/ ResponseAccess(w)
         /\ job[w].pc = "participant" => Participant(w)
         /\ job[w].pc = "record" => StoreMapping(w)
         /\ job[w].pc = "done" => Done(w)
BY DEF Handle, ConvertVote, ConvertResponse, ConvertResult, ResponseParent,
   ResultParent, ReadPrivacy, LookupAction, Dedupe, PublishIndex, VoteAccess,
   ResponseAccess, Participant, StoreMapping, Done, CheckMarker, ResolveInvitee,
   MarkPending, SendInvite, At

LEMMA HandleDeletesDelete ==
  ASSUME TypeOK, RevisionsExist, NEW w \in Replica, StepFits(w), DeletesDelete(w),
         Handle(w)
  PROVE  DeletesDelete(w)'
<1> SUFFICES ASSUME job'[w] # Idle, IsDelete(w)'
             PROVE  job'[w].pc = "dedupe" \/ job'[w].act = "deleted"
  BY DEF DeletesDelete
<1>1. CASE Receive(w)
  BY <1>1, ReceiveHead DEF IsDelete, EntryOf
<1>2. CASE ~Receive(w)
  <2>1. /\ job[w] # Idle /\ ~Ack(w) /\ ~Nak(w)
        /\ job[w] \in Job /\ EntryOf(w)' = EntryOf(w)
    BY <1>2, HandleContinues, BusyRevision, StepOrder, Stands
       DEF EntryOf, Continues
  <2>2. job[w].pc = "dedupe" \/ job[w].act = "deleted"
    BY <2>1 DEF DeletesDelete, IsDelete
  <2>3. CASE Dedupe(w)
    BY <2>1, <2>3 DEF Dedupe, TypeOK, QueuesTypeOK, Job
  <2>4. CASE ~Dedupe(w)
    <3>1. job[w].act = "deleted"
      BY <1>2, <2>2, <2>4, StepAt
    <3>2. ~LookupAction(w)
      BY <3>1 DEF LookupAction, At, StepFits
    <3> QED BY <1>2, <2>1, <2>4, <3>1, <3>2, ActKept
  <2> QED BY <2>3, <2>4
<1> QED BY <1>1, <1>2

\* A handler's step brings nothing back of a record it does not publish a write of.
LEMMA HandleKeepsGone ==
  ASSUME SoloInv, NEW w \in Replica, DeletesDelete(w), Handle(w), NEW k \in Key,
         (job[w] # Idle /\ KeyOf(w) = k) =>
           IsDelete(w) \/ job[w].pc \notin {"index", "access", "participant"}
  PROVE  /\ index[k].doc = "none" => index'[k].doc = "none"
         /\ access[k] = 0 => access'[k] = 0
         /\ VoterGone(k) => VoterGone(k)'
<1>0. /\ TypeOK /\ RevisionsExist /\ StepFits(w)
      /\ DistinctVoters' => DistinctVoters
  BY VotersWereDistinct DEF SoloInv, IInv, Next
<1>1. CASE Receive(w)
  BY <1>0, <1>1 DEF Receive, sinks, VoterGone
<1>2. CASE ~Receive(w)
  <2>1. /\ job[w] \in Job /\ job[w] # Idle /\ KeyOf(w) \in Key /\ log' = log
        /\ job[w].rev \in 1..Len(log[KeyOf(w)]) /\ EntryOf(w) = log[KeyOf(w)][job[w].rev]
    BY <1>0, <1>2, HandleContinues, BusyRevision, Stands DEF EntryOf, KeyOf
  <2>2. (KeyOf(w) = k /\ job[w].pc \in {"index", "access", "participant"})
          => IsDelete(w) /\ job[w].act = "deleted"
    BY <2>1 DEF DeletesDelete
  <2>3. index[k].doc = "none" => index'[k].doc = "none"
    <3>1. \/ index' = index
          \/ /\ job[w].pc = "index"
             /\ index' = [index EXCEPT ![KeyOf(w)] =
                 [rev |-> job[w].rev, doc |-> Document(w), act |-> job[w].act]]
      BY IndexMoves DEF At
    <3>2. job[w].act = "deleted" => Document(w) = "none"
      BY DEF Document
    <3>3. \/ index'[k] = index[k]
          \/ KeyOf(w) = k /\ job[w].pc = "index" /\ index'[k].doc = Document(w)
      BY <1>0, <2>1, <3>1 DEF TypeOK, EffectsTypeOK
    <3> QED BY <2>2, <3>2, <3>3
  <2>4. access[k] = 0 => access'[k] = 0
    BY <1>0, <2>1, <2>2, AccessMoves DEF TypeOK, EffectsTypeOK, At
  <2>5. ASSUME k \in Response, DistinctVoters, NEW i \in 1..Len(log[k]),
               log[k][i].op \in {"soft", "hard"},
               log[k][i].op = "soft" => <<ParentOf[k], log[k][i].user>> \notin grants
        PROVE  log[k][i].op = "soft" => <<ParentOf[k], log[k][i].user>> \notin grants'
    <3> DEFINE tuple == <<ParentOf[k], log[k][i].user>>
    <3> SUFFICES ASSUME log[k][i].op = "soft", tuple \notin grants
                 PROVE  tuple \notin grants'
      BY <2>5
    <3>1. CASE grants' \subseteq grants
      BY <3>1
    <3>2. CASE ~(grants' \subseteq grants)
      <4>1. /\ At(w, "participant") /\ EntryOf(w).user # NoUser
            /\ GrantsParticipant(EntryOf(w))
            /\ grants' = grants \cup {<<ParentOf[KeyOf(w)], EntryOf(w).user>>}
        BY <3>2, GrantMoves
      <4>2. KeyOf(w) \in Response
        BY <1>0, <4>1 DEF At, StepFits
      <4>3. KeyOf(w) # k
        BY <2>2, <4>1 DEF At, IsDelete, GrantsParticipant
      <4>4. ParentOf[KeyOf(w)] = ParentOf[k] => EntryOf(w).user # log[k][i].user
        BY <2>1, <2>5, <4>1, <4>2, <4>3 DEF DistinctVoters
      <4>5. <<ParentOf[KeyOf(w)], EntryOf(w).user>> # tuple
        BY <4>4
      <4> HIDE DEF tuple
      <4> QED BY <4>1, <4>5
    <3> QED BY <3>1, <3>2
  <2>6. VoterGone(k) => VoterGone(k)'
    BY <1>0, <2>1, <2>5 DEF VoterGone
  <2> QED BY <2>3, <2>4, <2>6
<1> QED BY <1>1, <1>2

LEMMA HandleDeleteStage ==
  ASSUME SoloInv, ResultsHaveNoAccess, NEW w \in Replica,
         DeletesDelete(w), DeleteStage(w), Handle(w)
  PROVE  DeleteStage(w)'
<1>0. TypeOK /\ TypeOK' /\ RevisionsExist /\ StepFits(w)
  BY NextTypeOK DEF SoloInv, IInv, Next
<1>1. CASE Receive(w)
  BY <1>0, <1>1, ReceiveGoes DEF DeleteStage
<1>2. CASE ~Receive(w)
  <2> SUFFICES ASSUME job'[w] # Idle, IsDelete(w)' PROVE DeleteStage(w)'
    BY DEF DeleteStage
  <2>0. PICK k, r : k = KeyOf(w) /\ r = job[w].rev
    OBVIOUS
  <2>1. /\ job[w] \in Job /\ job[w] # Idle /\ log' = log /\ k \in Key
        /\ r \in 1..Len(log[k]) /\ EntryOf(w) = log[k][r] /\ IsDelete(w)
        /\ KeyOf(w)' = k /\ ~Ack(w) /\ ~Nak(w) /\ ~PublishFails(w)
    BY <1>0, <1>2, <2>0, HandleContinues, BusyRevision, Stands, StepOrder
       DEF Continues, EntryOf, KeyOf, IsDelete, PublishFails
  <2>2. job[w].pc # "dedupe" => job[w].act = "deleted"
    BY <2>1 DEF DeletesDelete
  <2>3. /\ index[k].doc = "none" => index'[k].doc = "none"
        /\ access[k] = 0 => access'[k] = 0
        /\ VoterGone(k) => VoterGone(k)'
    BY <2>0, <2>1, HandleKeepsGone
  <2>4. ASSUME NEW pc, Goto(w, pc) PROVE job'[w].pc = pc
    BY <1>0, <2>1, <2>4, GotoJob
  <2>5. PublishIndex(w) => index'[k].doc = "none"
    <3> SUFFICES ASSUME PublishIndex(w) PROVE index'[k].doc = "none"
      OBVIOUS
    <3>1. index' = [index EXCEPT ![k] =
                 [rev |-> r, doc |-> Document(w), act |-> job[w].act]]
      BY <2>0, <2>1 DEF PublishIndex
    <3>2. Document(w) = "none"
      BY <2>2 DEF PublishIndex, At, Document
    <3> QED BY <1>0, <2>1, <3>1, <3>2 DEF TypeOK, EffectsTypeOK
  <2>6. VoteAccess(w) \/ ResponseAccess(w) => access'[k] = 0
    <3> SUFFICES ASSUME VoteAccess(w) \/ ResponseAccess(w) PROVE access'[k] = 0
      OBVIOUS
    <3>1. access' = [access EXCEPT ![k] = 0]
      BY <2>0, <2>1, <2>2 DEF VoteAccess, ResponseAccess, At
    <3> QED BY <1>0, <2>1, <3>1 DEF TypeOK, EffectsTypeOK
  <2>7. Participant(w) => VoterGone(k)'
    <3> SUFFICES ASSUME Participant(w), log[k][r].op = "soft"
                 PROVE  <<ParentOf[k], log[k][r].user>> \notin grants'
      BY <2>1 DEF VoterGone, IsDelete
    <3>1. CASE log[k][r].user = NoUser
      BY <1>0, <3>1, BoundsAssumption DEF TypeOK, EffectsTypeOK
    <3>2. CASE log[k][r].user # NoUser
      <4>1. RevokesParticipant(log[k][r])
        BY DEF RevokesParticipant
      <4>2. grants' = grants \ {<<ParentOf[k], log[k][r].user>>}
        BY <2>0, <2>1, <3>2, <4>1 DEF Participant
      <4> QED BY <4>2
    <3> QED BY <3>1, <3>2
  <2>8. k \notin Response => VoterGone(k)'
    BY DEF VoterGone
  <2>9. k \in Result => access'[k] = 0
    BY <2>3 DEF ResultsHaveNoAccess
  <2>10. k \in Response => k \notin Result /\ k \notin Vote
    BY KeysAssumption
  <2>11. job[w].pc \notin {"marker", "resolve", "pend", "send"}
    BY <1>0, <2>2 DEF StepFits
  <2>12. job'[w].pc = "done" => StoreMapping(w)
    BY <1>0, <1>2, <2>1, <2>11, StepOrder DEF CheckMarker, ResolveInvitee, MarkPending,
       SendInvite, At
  <2>13. job'[w].pc \in {"access", "participant", "record", "done"}
           => index'[k].doc = "none"
    <3>1. CASE PublishIndex(w)
      BY <2>5, <3>1
    <3>2. CASE ~PublishIndex(w)
      BY <1>0, <1>2, <2>0, <2>1, <2>3, <2>12, <3>2, StepOrder DEF DeleteStage,
         VoteAccess, ResponseAccess, Participant, StoreMapping, At
    <3> QED BY <3>1, <3>2
  <2>14. job'[w].pc \in {"participant", "record", "done"} => access'[k] = 0
    <3>1. CASE VoteAccess(w) \/ ResponseAccess(w)
      BY <2>6, <3>1
    <3>2. CASE PublishIndex(w)
      <4>1. job'[w].pc = IF k \in Result THEN "record" ELSE "access"
        BY <2>0, <2>1, <2>4, <3>2 DEF PublishIndex
      <4> QED BY <2>9, <4>1
    <3>3. CASE ~VoteAccess(w) /\ ~ResponseAccess(w) /\ ~PublishIndex(w)
      BY <1>0, <1>2, <2>0, <2>1, <2>3, <2>12, <3>3, StepOrder DEF DeleteStage,
         Participant, StoreMapping, At
    <3> QED BY <3>1, <3>2, <3>3
  <2>15. job'[w].pc \in {"record", "done"} => VoterGone(k)'
    <3>1. CASE Participant(w)
      BY <2>7, <3>1
    <3>2. CASE PublishIndex(w) \/ VoteAccess(w)
      <4>1. k \in Vote \/ k \in Result \/ job'[w].pc = "access"
        BY <2>0, <2>1, <2>4, <3>2 DEF PublishIndex, VoteAccess
      <4> QED BY <2>8, <2>10, <4>1
    <3>3. CASE ~Participant(w) /\ ~PublishIndex(w) /\ ~VoteAccess(w)
      BY <1>0, <1>2, <2>0, <2>1, <2>3, <2>12, <3>3, StepOrder DEF DeleteStage,
         StoreMapping, At
    <3> QED BY <3>1, <3>2, <3>3
  <2> QED BY <2>1, <2>13, <2>14, <2>15 DEF DeleteStage
<1> QED BY <1>1, <1>2

\* Only a delete leaves a tombstone, and only over what it has taken away.
LEMMA HandleTomb ==
  ASSUME SoloInv, OneReplica, NothingUnnoted, NEW w \in Replica,
         DeletesAreDeletes(w), DeletesDelete(w), DeleteStage(w), Handle(w),
         NEW k \in Key, Whole(k), TombIsGone(k)
  PROVE  TombIsGone(k)'
<1>0. /\ TypeOK /\ RevisionsExist /\ StepFits(w) /\ \A x \in Replica : x = w
      /\ DistinctVoters' => DistinctVoters
  BY VotersWereDistinct DEF SoloInv, IInv, OneReplica, Next
<1> SUFFICES ASSUME mapping'[k] = "tomb", ~Republishing(w, k)'
             PROVE  Gone(k)'
  BY <1>0 DEF TombIsGone
<1>1. CASE Receive(w)
  <2>1. /\ job[w] = Idle /\ log' = log
        /\ UNCHANGED <<mapping, index, access, grants>>
    BY <1>0, <1>1, ReceiveHead
  <2>2. Gone(k)
    BY <1>0, <2>1 DEF TombIsGone, Republishing
  <2> QED BY <1>0, <2>1, <2>2 DEF Gone, VoterGone
<1>2. CASE ~Receive(w) /\ StoreMapping(w)
  <2>1. /\ job[w] \in Job /\ job[w] # Idle /\ KeyOf(w) \in Key /\ log' = log
    BY <1>0, <1>2, HandleContinues, BusyRevision, Stands
  <2>2. /\ mapping' = [mapping EXCEPT ![KeyOf(w)] =
                         IF job[w].act = "deleted" THEN "tomb" ELSE "live"]
        /\ UNCHANGED <<index, access, grants>> /\ job[w].pc = "record"
    BY <1>0, <1>2 DEF StoreMapping, CallFails, NothingUnnoted, sinks, At, TypeOK,
       QueuesTypeOK
  <2>3. CASE KeyOf(w) = k
    <3>1. job[w].act = "deleted"
      BY <1>0, <2>1, <2>2, <2>3 DEF TypeOK, EffectsTypeOK
    <3>2. IsDelete(w)
      BY <2>1, <3>1 DEF DeletesAreDeletes, IsDelete
    <3>3. Gone(k)
      BY <2>1, <2>2, <2>3, <3>2 DEF DeleteStage, Gone
    <3> QED BY <1>0, <2>1, <2>2, <3>3 DEF Gone, VoterGone
  <2>4. CASE KeyOf(w) # k
    <3>1. Gone(k)
      BY <1>0, <2>1, <2>2, <2>4 DEF TombIsGone, Republishing, TypeOK, EffectsTypeOK
    <3> QED BY <1>0, <2>1, <2>2, <3>1 DEF Gone, VoterGone
  <2> QED BY <2>3, <2>4
<1>3. CASE ~Receive(w) /\ ~StoreMapping(w)
  <2>1. /\ job[w] \in Job /\ job[w] # Idle
        /\ KeyOf(w) \in Key /\ log' = log
        /\ EntryOf(w) = log[KeyOf(w)][job[w].rev] /\ Continues(w)
    BY <1>0, <1>3, HandleContinues, BusyRevision, Stands DEF EntryOf, KeyOf
  <2>2. mapping' = mapping
    BY <1>3 DEF Handle, ConvertVote, ConvertResponse, ConvertResult, ResponseParent,
       ResultParent, ReadPrivacy, LookupAction, Dedupe, Done, CheckMarker,
       ResolveInvitee, VoteAccess, ResponseAccess, Participant, PublishIndex,
       MarkPending, SendInvite, tracking
  <2>a. KeyOf(w) = k /\ k \notin Result => ~PublishFails(w)
    BY DEF PublishFails, NothingUnnoted, Whole
  <2>b. k \in Result /\ KeyOf(w) = k => job[w].pc \notin {"access", "participant"}
    BY <1>0, KeysAssumption DEF StepFits
  <2>c. CASE KeyOf(w) = k /\ job[w].pc = "index" /\ PublishFails(w)
    <3>1. Gone(k)
      BY <1>0, <2>2, <2>c DEF TombIsGone, Republishing
    <3>2. UNCHANGED sinks
      BY <2>c DEF PublishFails
    <3> QED BY <1>0, <2>1, <3>1, <3>2 DEF Gone, VoterGone, sinks
  <2> SUFFICES ASSUME KeyOf(w) = k => ~(job[w].pc = "index" /\ PublishFails(w))
               PROVE  Gone(k)'
    BY <2>c
  <2>3. ASSUME KeyOf(w) = k, ~IsDelete(w)
        PROVE  job[w].pc \notin {"index", "access", "participant", "record"}
    <3>2. ASSUME NEW pc \in {"access", "participant", "record"}, Goto(w, pc) PROVE FALSE
      <4>1. job'[w].pc = pc /\ job'[w].key = job[w].key /\ job'[w].rev = job[w].rev
        BY <1>0, <2>1, <3>2, GotoJob
      <4>2. job'[w] # Idle
        BY <4>1 DEF Idle
      <4>3. KeyOf(w)' = k /\ ~IsDelete(w)'
        BY <2>1, <2>3, <4>1 DEF KeyOf, IsDelete, EntryOf
      <4> QED BY <4>1, <4>2, <4>3 DEF Republishing
    <3>3. job[w].pc # "index"
      BY <1>3, <2>3, <3>2, StepAt DEF PublishIndex
    <3>4. job[w].pc # "access"
      BY <1>3, <2>a, <2>b, <2>3, <3>2, StepAt DEF VoteAccess, ResponseAccess
    <3>5. job[w].pc # "participant"
      BY <1>3, <2>a, <2>b, <2>3, <3>2, StepAt DEF Participant
    <3>6. job[w].pc # "record"
      BY <1>3, StepAt
    <3> QED BY <3>3, <3>4, <3>5, <3>6
  <2>4. Gone(k)
    BY <1>0, <2>2, <2>3 DEF TombIsGone, Republishing
  <2>5. /\ index[k].doc = "none" => index'[k].doc = "none"
        /\ access[k] = 0 => access'[k] = 0
        /\ VoterGone(k) => VoterGone(k)'
    BY <2>1, <2>3, HandleKeepsGone
  <2> QED BY <2>4, <2>5 DEF Gone
<1> QED BY <1>1, <1>2, <1>3

LEMMA HandleNoAccess ==
  ASSUME TypeOK, RevisionsExist, ResultsHaveNoAccess, NEW w \in Replica, StepFits(w),
         Handle(w)
  PROVE  ResultsHaveNoAccess'
<1>1. \/ access' = access
      \/ /\ KeyOf(w) \notin Result
         /\ access' = [access EXCEPT ![KeyOf(w)] =
                         IF job[w].act = "deleted" THEN 0 ELSE job[w].rev]
  BY AccessMoves DEF At, StepFits
<1>2. \A k \in Result : k \in Key
  BY DEF Key, Child
<1> QED BY <1>1, <1>2 DEF ResultsHaveNoAccess, TypeOK, EffectsTypeOK

\* What is in hand after an acknowledgement came with it or after it.
LEMMA HandleAckedLast ==
  ASSUME TypeOK, RevisionsExist, NEW w \in Replica, InOrder(w), Handle(w),
         NEW k \in Key, AckedLast(w, k)
  PROVE  AckedLast(w, k)'
<1> SUFFICES ASSUME cons'[k].st = "acked"
             PROVE  /\ \A i \in 1..Len(buf'[w]) :
                         buf'[w][i].key = k => buf'[w][i].rev = Len(log'[k])
                    /\ (job'[w] # Idle /\ job'[w].key = k) => job'[w].rev = Len(log'[k])
  BY DEF AckedLast
<1>0. /\ \A i \in 1..Len(buf[w]) : /\ buf[w][i].key \in Key /\ buf[w][i].rev \in Nat
                                   /\ buf[w][i].rev \in 1..Len(log[buf[w][i].key])
      /\ Len(log[k]) \in Nat
  BY HeldTypes
<1>1. CASE Receive(w)
  <2>1. \A i \in 1..Len(buf[w]) : buf[w][i].key = k => buf[w][i].rev = Len(log[k])
    <3>1. CASE cons[k].st = "acked"
      BY <3>1 DEF AckedLast
    <3>2. CASE cons[k].st # "acked"
      <4>1. 1 \in 1..Len(buf[w]) /\ AckMsg(buf[w][1])
        BY <1>1, <3>2, ReceiveHead
      <4>2. buf[w][1].key = k /\ buf[w][1].rev = Len(log[k])
        BY <1>0, <3>2, <4>1 DEF AckMsg, TypeOK, QueuesTypeOK
      <4> SUFFICES ASSUME NEW i \in 1..Len(buf[w]), buf[w][i].key = k
                   PROVE  buf[w][i].rev = Len(log[k])
        OBVIOUS
      <4>3. buf[w][1].rev <= buf[w][i].rev
        BY <4>1, <4>2 DEF InOrder
      <4>4. buf[w][i].rev \in 1..Len(log[k])
        BY <1>0
      <4> QED BY <1>0, <4>2, <4>3, <4>4
    <3> QED BY <3>1, <3>2
  <2>2. log' = log /\ \A i \in 1..Len(buf'[w]) : i + 1 \in 1..Len(buf[w])
                                               /\ buf'[w][i] = buf[w][i + 1]
    BY <1>1, ReceiveHead
  <2>3. job'[w] = Idle \/ (job'[w].key = buf[w][1].key /\ job'[w].rev = buf[w][1].rev)
    BY <1>1, ReceiveHead
  <2>4. 1 \in 1..Len(buf[w])
    BY <1>1, ReceiveHead
  <2> QED BY <2>1, <2>2, <2>3, <2>4
<1>2. CASE ~Receive(w) /\ cons[k].st = "acked"
  <2>1. Continues(w) /\ job[w] # Idle
    BY <1>2, HandleContinues, BusyRevision
  <2> QED BY <1>2, <2>1 DEF AckedLast, Continues
<1>3. CASE ~Receive(w) /\ cons[k].st # "acked"
  <2>1. /\ job[w] # Idle /\ job[w].key = k /\ job[w].rev = Len(log[k])
        /\ log' = log /\ buf' = buf /\ job'[w] = Idle
    BY <1>3, AckedByHolder, HandleContinues, BusyRevision
       DEF KeyOf, Continues, Ack, TypeOK, QueuesTypeOK
  <2> SUFFICES ASSUME NEW i \in 1..Len(buf[w]), buf[w][i].key = k
               PROVE  buf[w][i].rev = Len(log[k])
    BY <2>1
  <2>2. Len(log[k]) <= buf[w][i].rev
    BY <2>1 DEF InOrder
  <2>3. buf[w][i].rev \in 1..Len(log[k])
    BY <1>0
  <2> QED BY <1>0, <2>2, <2>3
<1> QED BY <1>1, <1>2, <1>3

LEMMA HandleAckedGone ==
  ASSUME SoloInv, OneReplica, NothingUnnoted, NEW w \in Replica,
         DeletesAreDeletes(w), DeletesDelete(w), DeleteStage(w), Handle(w),
         NEW k \in Key, AckedLast(w, k), TombIsGone(k), AckedGone(k)
  PROVE  AckedGone(k)'
<1>0. /\ TypeOK /\ RevisionsExist /\ StepFits(w) /\ \A x \in Replica : x = w
      /\ DistinctVoters' => DistinctVoters
  BY VotersWereDistinct DEF SoloInv, IInv, OneReplica, Next
<1>1. log' = log
  <2>1. CASE Receive(w)
    BY <2>1 DEF Receive
  <2>2. CASE ~Receive(w)
    BY <1>0, <2>2, Stands
  <2> QED BY <2>1, <2>2
<1> SUFFICES ASSUME cons'[k].st = "acked", Stored(k).op \in {"soft", "hard"}
             PROVE  Gone(k)'
  BY <1>1 DEF AckedGone, Stored
<1>2. CASE cons[k].st = "acked"
  <2>1. Gone(k)
    BY <1>2 DEF AckedGone
  <2>2. (job[w] # Idle /\ KeyOf(w) = k) => IsDelete(w)
    BY <1>2 DEF AckedLast, IsDelete, EntryOf, Stored, KeyOf
  <2>3. /\ index[k].doc = "none" => index'[k].doc = "none"
        /\ access[k] = 0 => access'[k] = 0
        /\ VoterGone(k) => VoterGone(k)'
    BY <2>2, HandleKeepsGone
  <2> QED BY <2>1, <2>3 DEF Gone
<1>3. CASE cons[k].st # "acked" /\ Receive(w)
  <2>1. /\ 1 \in 1..Len(buf[w]) /\ AckMsg(buf[w][1])
        /\ log[buf[w][1].key][buf[w][1].rev].op = "junk"
    BY <1>0, <1>3, ReceiveHead
  <2>2. buf[w][1].key \in Key
    BY <1>0, <2>1, HeldTypes
  <2>3. buf[w][1].key = k /\ buf[w][1].rev = Len(log[k])
    BY <1>0, <1>3, <2>1, <2>2 DEF AckMsg, TypeOK, QueuesTypeOK
  <2> QED BY <2>1, <2>3 DEF Stored
<1>4. CASE cons[k].st # "acked" /\ ~Receive(w)
  <2>1. Ack(w) /\ k = KeyOf(w) /\ job[w].rev = Len(log[k])
    BY <1>0, <1>4, AckedByHolder
  <2>2. job[w] # Idle /\ IsDelete(w) /\ job[w] \in Job
    BY <1>0, <1>4, <2>1, HandleContinues, BusyRevision
       DEF IsDelete, EntryOf, KeyOf, Stored
  <2>3. job'[w] = Idle /\ ~PublishFails(w)
    <3>1. job'[w] = Idle
      BY <1>0, <2>1 DEF Ack, TypeOK, QueuesTypeOK
    <3>2. ~Nak(w)
      <4> SUFFICES ASSUME Nak(w) PROVE FALSE
        OBVIOUS
      <4>1. cons' = cons \/ cons' = [cons EXCEPT ![k].st = AfterAttempt(k)]
        BY <2>1 DEF Nak, NakMsg, KeyOf
      <4>2. AfterAttempt(k) # "acked"
        BY DEF AfterAttempt
      <4> QED BY <1>0, <1>4, <4>1, <4>2 DEF TypeOK, QueuesTypeOK
    <3> QED BY <3>1, <3>2 DEF PublishFails, NothingUnnoted
  <2>4. \A pc \in Steps : ~Goto(w, pc)
    <3> SUFFICES ASSUME NEW pc \in Steps, Goto(w, pc) PROVE FALSE
      OBVIOUS
    <3>1. job'[w].pc = pc
      BY <1>0, <2>2, GotoJob
    <3> QED BY <2>3, <3>1 DEF Idle, Steps
  <2>5. job[w].pc = "dedupe" \/ job[w].act = "deleted"
    BY <2>2 DEF DeletesDelete
  <2>6. CASE Dedupe(w)
    <3>1. mapping[k] = "tomb" /\ UNCHANGED <<index, access, grants>>
      <4>1. job' # [job EXCEPT ![w].pc = "index", ![w].act = "deleted"]
        BY <1>0, <2>2, <2>3 DEF TypeOK, QueuesTypeOK, Job, Idle
      <4> QED BY <2>1, <2>6, <4>1 DEF Dedupe, sinks
    <3>2. Gone(k)
      BY <1>0, <2>6, <3>1 DEF TombIsGone, Republishing, Dedupe, At
    <3> QED BY <1>0, <1>1, <3>1, <3>2 DEF Gone, VoterGone
  <2>7. CASE Done(w)
    <3>1. Gone(k) /\ UNCHANGED <<index, access, grants>>
      BY <2>1, <2>2, <2>7 DEF Done, At, DeleteStage, Gone, sinks
    <3> QED BY <1>0, <1>1, <3>1 DEF Gone, VoterGone
  <2>8. CASE ~Dedupe(w) /\ ~Done(w)
    <3>1. job[w].act = "deleted"
      BY <1>4, <2>5, <2>8, StepAt
    <3>2. /\ ~ConvertVote(w) /\ ~ConvertResponse(w) /\ ~ConvertResult(w)
          /\ ~ResponseParent(w) /\ ~ResultParent(w) /\ ~ReadPrivacy(w)
          /\ ~LookupAction(w) /\ ~CheckMarker(w) /\ ~ResolveInvitee(w)
          /\ ~MarkPending(w) /\ ~SendInvite(w)
      BY <1>0, <3>1 DEF ConvertVote, ConvertResponse, ConvertResult, ResponseParent,
         ResultParent, ReadPrivacy, LookupAction, CheckMarker, ResolveInvitee,
         MarkPending, SendInvite, At, StepFits
    <3>3. /\ ~PublishIndex(w) /\ ~VoteAccess(w) /\ ~ResponseAccess(w)
          /\ ~Participant(w) /\ ~StoreMapping(w)
      BY <2>3, <2>4 DEF PublishIndex, VoteAccess, ResponseAccess, Participant,
         StoreMapping, Steps
    <3> QED BY <1>4, <2>8, <3>2, <3>3 DEF Handle
  <2> QED BY <2>6, <2>7, <2>8
<1> QED BY <1>2, <1>3, <1>4

-----------------------------------------------------------------------------
(* The steps of the upstream and the consumer *)

LEMMA QuietDeletes ==
  ASSUME SoloInv, [Next]_vars, UNCHANGED <<job, mapping, sinks>>
  PROVE  /\ \A w \in Replica : /\ DeletesAreDeletes(w) => DeletesAreDeletes(w)'
                               /\ DeletesDelete(w) => DeletesDelete(w)'
                               /\ DeleteStage(w) => DeleteStage(w)'
         /\ \A k \in Key : /\ Gone(k) => Gone(k)'
                           /\ TombIsGone(k) => TombIsGone(k)'
<1>0. TypeOK /\ RevisionsExist /\ (DistinctVoters' => DistinctVoters)
  BY VotersWereDistinct DEF SoloInv, IInv
<1>1. ASSUME NEW k \in Key PROVE VoterGone(k) => VoterGone(k)'
  <2>1. /\ Len(log[k]) \in Nat /\ Len(log'[k]) \in Nat /\ Len(log[k]) <= Len(log'[k])
        /\ \A i \in 1..Len(log[k]) : log'[k][i] = log[k][i]
    BY LogKeeps
  <2> SUFFICES ASSUME k \in Response, NEW i \in 1..Len(log[k]),
                      log[k][i].op \in {"soft", "hard"},
                      log[k][i].op = "soft" => <<ParentOf[k], log[k][i].user>> \notin grants
               PROVE  VoterGone(k)'
    BY <1>0 DEF VoterGone
  <2>2. i \in 1..Len(log'[k]) /\ log'[k][i] = log[k][i] /\ grants' = grants
    BY <2>1 DEF sinks
  <2> QED BY <2>2 DEF VoterGone
<1>2. ASSUME NEW k \in Key PROVE Gone(k) => Gone(k)'
  BY <1>1 DEF Gone, sinks
<1>3. ASSUME NEW w \in Replica, job[w] # Idle
      PROVE  /\ EntryOf(w)' = EntryOf(w) /\ KeyOf(w)' = KeyOf(w) /\ KeyOf(w) \in Key
             /\ IsDelete(w)' <=> IsDelete(w)
  <2>1. job[w] \in Job /\ job[w].key \in Key /\ job[w].rev \in 1..Len(log[job[w].key])
    BY <1>0, <1>3 DEF TypeOK, QueuesTypeOK, Job, RevisionsExist
  <2>2. log'[job[w].key][job[w].rev] = log[job[w].key][job[w].rev]
    BY <2>1, LogKeeps
  <2> QED BY <2>1, <2>2 DEF EntryOf, KeyOf, IsDelete
<1>4. ASSUME NEW w \in Replica
      PROVE  /\ DeletesAreDeletes(w) => DeletesAreDeletes(w)'
             /\ DeletesDelete(w) => DeletesDelete(w)'
             /\ DeleteStage(w) => DeleteStage(w)'
  BY <1>1, <1>3 DEF DeletesAreDeletes, DeletesDelete, DeleteStage, sinks
<1>5. ASSUME NEW k \in Key PROVE TombIsGone(k) => TombIsGone(k)'
  <2>1. \A w \in Replica : Republishing(w, k)' <=> Republishing(w, k)
    BY <1>3 DEF Republishing
  <2> QED BY <1>2, <2>1 DEF TombIsGone
<1> QED BY <1>2, <1>4, <1>5

LEMMA QuietAckedLast ==
  ASSUME TypeOK, RevisionsExist, NEW w \in Replica, NEW k \in Key, AckedLast(w, k),
         \/ \E x \in Key, e \in Entry : Write(x, e)
         \/ \E x \in Key : Expire(x)
         \/ \E y \in Replica, x \in Key : Deliver(y, x)
         \/ UNCHANGED vars
  PROVE  AckedLast(w, k)'
<1> SUFFICES ASSUME cons'[k].st = "acked" PROVE AckedLast(w, k)'
  BY DEF AckedLast
<1>1. cons[k].st = "acked" /\ log'[k] = log[k]
  BY AckedBefore
<1>2. CASE UNCHANGED <<buf, job>>
  BY <1>1, <1>2 DEF AckedLast
<1>3. ASSUME NEW y \in Replica, NEW x \in Key, Deliver(y, x)
      PROVE  AckedLast(w, k)'
  <2>1. x # k /\ job' = job
    BY <1>1, <1>3 DEF Deliver, TypeOK, QueuesTypeOK
  <2>2. \A i \in 1..Len(buf'[w]) :
          \/ i \in 1..Len(buf[w]) /\ buf'[w][i] = buf[w][i]
          \/ buf'[w][i].key = x
    <3>1. CASE y = w
      <4> DEFINE d == [key |-> x, rev |-> Len(log[x])]
      <4>1. buf'[w] = Append(buf[w], d) /\ buf[w] \in Seq(Delivery) /\ d.key = x
        BY <1>3, <3>1 DEF Deliver, TypeOK, QueuesTypeOK
      <4> HIDE DEF d
      <4> QED BY <4>1
    <3>2. CASE y # w
      BY <1>3, <3>2 DEF Deliver, TypeOK, QueuesTypeOK
    <3> QED BY <3>1, <3>2
  <2> QED BY <1>1, <2>1, <2>2 DEF AckedLast
<1> QED BY <1>2, <1>3 DEF Write, Expire, vars

LEMMA NextDelete ==
  ASSUME NothingUnnoted, OneReplica, DeleteInv, [Next]_vars
  PROVE  DeleteInv'
<1>0. /\ SoloInv /\ SoloInv' /\ TypeOK /\ RevisionsExist /\ ResultsHaveNoAccess
      /\ \A w \in Replica : /\ StepFits(w) /\ InOrder(w)
                            /\ DeletesAreDeletes(w) /\ DeletesDelete(w) /\ DeleteStage(w)
      /\ \A w \in Replica, k \in Key : AckedLast(w, k)
      /\ \A k \in Key : Whole(k) => TombIsGone(k) /\ AckedGone(k)
  BY NextSolo DEF DeleteInv, SoloInv, IInv
<1>1. ASSUME NEW k \in Key PROVE Whole(k)' <=> Whole(k)
  BY DEF Whole
<1>2. CASE \E w \in Replica : Handle(w)
  <2>1. PICK w \in Replica : Handle(w)
    BY <1>2
  <2>2. \A x \in Replica : x = w
    BY DEF OneReplica
  <2>3. /\ ResultsHaveNoAccess' /\ DeletesAreDeletes(w)' /\ DeletesDelete(w)'
        /\ DeleteStage(w)' /\ \A k \in Key : AckedLast(w, k)'
    BY <1>0, <2>1, HandleNoAccess, HandleDeletes, HandleDeletesDelete, HandleDeleteStage,
       HandleAckedLast
  <2>4. ASSUME NEW k \in Key, Whole(k) PROVE TombIsGone(k)' /\ AckedGone(k)'
    BY <1>0, <2>1, <2>4, HandleTomb, HandleAckedGone
  <2> QED BY <1>0, <1>1, <2>2, <2>3, <2>4 DEF DeleteInv
<1>3. CASE ~\E w \in Replica : Handle(w)
  <2>1. ~\E w \in Replica : Stops(w)
    BY <1>0 DEF Stops, Crash, Shutdown, Close, NothingUnnoted, TypeOK, QueuesTypeOK
  <2>2. /\ UNCHANGED <<job, mapping, sinks>>
        /\ \/ \E x \in Key, e \in Entry : Write(x, e)
           \/ \E x \in Key : Expire(x)
           \/ \E y \in Replica, x \in Key : Deliver(y, x)
           \/ UNCHANGED vars
    BY <1>3, <2>1 DEF Next, Write, Expire, Deliver, vars, sinks, tracking
  <2>3. ASSUME NEW k \in Key
        PROVE  \A w \in Replica : AckedLast(w, k)'
    BY <1>0, <2>2, QuietAckedLast
  <2>4. ResultsHaveNoAccess'
    BY <1>0, <2>2 DEF ResultsHaveNoAccess, sinks
  <2>5. \A w \in Replica : DeletesAreDeletes(w)' /\ DeletesDelete(w)' /\ DeleteStage(w)'
    BY <1>0, <2>2, QuietDeletes
  <2>6. \A k \in Key : Whole(k) => TombIsGone(k)'
    BY <1>0, <2>2, QuietDeletes
  <2>7. ASSUME NEW k \in Key, Whole(k) PROVE AckedGone(k)'
    <3>1. cons'[k].st = "acked" => cons[k].st = "acked" /\ log'[k] = log[k]
      BY <1>0, <2>2, AckedBefore
    <3>2. Gone(k) => Gone(k)'
      BY <1>0, <2>2, QuietDeletes
    <3> QED BY <1>0, <2>7, <3>1, <3>2 DEF AckedGone, Stored
  <2> QED BY <1>0, <1>1, <2>3, <2>4, <2>5, <2>6, <2>7 DEF DeleteInv
<1> QED BY <1>2, <1>3

\* Until a fault leaves what was published unnoted, every record's tombstone and
\* every acknowledged delete stand for a record that is gone.
THEOREM DeleteInvariant ==
  ASSUME NothingUnnoted, OneReplica
  PROVE  Spec => []DeleteInv
<1>1. Init => DeleteInv
  <2> SUFFICES ASSUME Init PROVE DeleteInv
    OBVIOUS
  <2>1. \A w \in Replica : /\ DeletesAreDeletes(w) /\ DeletesDelete(w) /\ DeleteStage(w)
    BY DEF Init, DeletesAreDeletes, DeletesDelete, DeleteStage
  <2>2. \A k \in Key : /\ TombIsGone(k) /\ AckedGone(k)
                       /\ \A w \in Replica : AckedLast(w, k)
    BY DEF Init, TombIsGone, AckedGone, AckedLast
  <2>3. ResultsHaveNoAccess
    BY DEF Init, ResultsHaveNoAccess, Key, Child
  <2> QED BY <2>1, <2>2, <2>3, InitSolo DEF DeleteInv
<1>2. DeleteInv /\ [Next]_vars => DeleteInv'
  BY NextDelete
<1> QED BY <1>1, <1>2, PTL DEF Spec

\* What is gone has left the sinks, with its voter if voters are told apart.
LEMMA GoneIsGone ==
  ASSUME DeleteInv, NEW k \in Key, Whole(k), k \in Response => DistinctVoters
  PROVE  DeleteIsGone(k)
<1> SUFFICES ASSUME cons[k].st = "acked", Stored(k).op \in {"soft", "hard"}
             PROVE  /\ index[k].doc = "none" /\ access[k] = 0
                    /\ (k \in Response /\ DeletesName(k, Stored(k).user)) =>
                         <<ParentOf[k], Stored(k).user>> \notin grants
  BY DEF DeleteIsGone
<1>1. Gone(k)
  BY DEF DeleteInv, AckedGone
<1>2. DOMAIN log[k] = 1..Len(log[k])
  BY DEF DeleteInv, SoloInv, IInv, TypeOK, QueuesTypeOK
<1>3. ASSUME k \in Response, DeletesName(k, Stored(k).user)
      PROVE  <<ParentOf[k], Stored(k).user>> \notin grants
  <2>1. PICK i \in 1..Len(log[k]) :
          /\ log[k][i].op \in {"soft", "hard"}
          /\ log[k][i].op = "soft" => <<ParentOf[k], log[k][i].user>> \notin grants
    BY <1>1, <1>3 DEF Gone, VoterGone
  <2> QED BY <1>2, <1>3, <2>1 DEF DeletesName
<1> QED BY <1>1, <1>3 DEF Gone

\* A single replica that meets no fault of the kind that leaves a handler half
\* done has, for each delete it has acknowledged and that is still the last of
\* its key, taken the record out of the indexer and its tuples out of fga-sync:
\* no tombstone stands for a record that is back.
THEOREM AckedDeletesAreGone ==
  ASSUME NothingHalfDone, OneReplica
  PROVE  Spec => [](DistinctVoters => AckedDeleteIsGone)
<1>1. Spec => []DeleteInv
  BY DeleteInvariant DEF NothingHalfDone
<1>2. DeleteInv => (DistinctVoters => AckedDeleteIsGone)
  BY GoneIsGone DEF AckedDeleteIsGone, Whole, NothingHalfDone
<1> QED BY <1>1, <1>2, PTL

\* The deletes of votes and results need no voters told apart, and those of
\* results withstand failing publications too, however many: a result goes out
\* in one message, so that a tombstone is overwritten or nothing was published.
THEOREM VoteAndResultDeletesAreGone ==
  ASSUME NothingUnnoted, OneReplica
  PROVE  Spec => [](\A k \in Vote \cup Result : Whole(k) => DeleteIsGone(k))
<1>1. Spec => []DeleteInv
  BY DeleteInvariant
<1>2. \A k \in Vote \cup Result : k \in Key /\ k \notin Response
  BY KeysAssumption DEF Key, Child
<1>3. DeleteInv => \A k \in Vote \cup Result : Whole(k) => DeleteIsGone(k)
  BY <1>2, GoneIsGone
<1> QED BY <1>1, <1>3, PTL

=============================================================================
