--------------------------- MODULE EventSyncProofs ---------------------------
(***************************************************************************)
(* Theorems about EventSync, for any sets of records and replicas, any     *)
(* bounds and any faults.                                                  *)
(***************************************************************************)
EXTENDS EventSync, TLAPS

-----------------------------------------------------------------------------
(* Type correctness *)

LEMMA InitTypeOK == Init => TypeOK
BY KeysAssumption, BoundsAssumption
   DEF Init, TypeOK, QueuesTypeOK, EffectsTypeOK, Idle

LEMMA AckTypes ==
  ASSUME QueuesTypeOK, NEW d, d.key \in Key, AckMsg(d)
  PROVE  cons' \in [Key -> [st: {"none", "new", "out", "nak", "acked", "dropped"},
                            n: 0..MaxDeliver]]
BY DEF QueuesTypeOK, AckMsg

\* The three ways in which a step of a handler moves its replica.
LEMMA GotoQueues ==
  ASSUME QueuesTypeOK, NEW w \in Replica, job[w] \in Job,
         NEW pc \in Steps, Goto(w, pc)
  PROVE  QueuesTypeOK'
BY DEF QueuesTypeOK, Goto, Job, stream

LEMMA AckQueues ==
  ASSUME QueuesTypeOK, NEW w \in Replica, job[w] \in Job, Ack(w)
  PROVE  QueuesTypeOK'
BY DEF QueuesTypeOK, Ack, AckMsg, Job, Idle

LEMMA NakQueues ==
  ASSUME QueuesTypeOK, NEW w \in Replica, job[w] \in Job, Nak(w)
  PROVE  QueuesTypeOK'
BY DEF QueuesTypeOK, Nak, NakMsg, AfterAttempt, Job, Idle

LEMMA BusyAt ==
  ASSUME QueuesTypeOK, NEW w \in Replica, NEW pc \in Steps, At(w, pc)
  PROVE  job[w] \in Job
BY DEF QueuesTypeOK, At, Steps, Idle

\* The upstream and the consumer.
LEMMA WriteQueues ==
  ASSUME QueuesTypeOK, NEW k \in Key, NEW e \in Entry,
         Supersede(k, e), UNCHANGED <<buf, job, closing>>
  PROVE  QueuesTypeOK'
BY BoundsAssumption DEF QueuesTypeOK, Supersede

LEMMA DeliverQueues ==
  ASSUME QueuesTypeOK, NEW k \in Key, NEW w \in Replica, Deliver(w, k)
  PROVE  QueuesTypeOK'
<1>1. Len(log[k]) \in Nat
  BY DEF QueuesTypeOK
<1>2. [key |-> k, rev |-> Len(log[k])] \in Delivery
  BY <1>1 DEF Delivery
<1>3. buf' \in [Replica -> Seq(Delivery)]
  BY <1>2 DEF QueuesTypeOK, Deliver
<1>4. cons[k].n + 1 \in 0..MaxDeliver
  BY BoundsAssumption DEF QueuesTypeOK, Deliver
<1> QED
  BY <1>3, <1>4 DEF QueuesTypeOK, Deliver

LEMMA ExpireQueues ==
  ASSUME QueuesTypeOK, NEW k \in Key, Expire(k)
  PROVE  QueuesTypeOK'
BY DEF QueuesTypeOK, Expire, AfterAttempt

\* A replica that stops keeps what it has in hand, or loses all of it.
LEMMA StopsQueues ==
  ASSUME QueuesTypeOK, NEW w \in Replica, Stops(w)
  PROVE  /\ QueuesTypeOK'
         /\ UNCHANGED <<stream, tracking, invited, sinks>>
         /\ UNCHANGED <<buf, job>> \/ Restart(w)
<1>1. CASE Restart(w)
  BY <1>1 DEF QueuesTypeOK, Restart, stream
<1>2. CASE Shutdown(w)
  BY <1>2 DEF QueuesTypeOK, Shutdown, stream
<1> QED BY <1>1, <1>2 DEF Stops, Crash, Close

LEMMA ReceiveQueues ==
  ASSUME QueuesTypeOK, NEW w \in Replica, Receive(w)
  PROVE  QueuesTypeOK'
<1> DEFINE d == Head(buf[w])
<1>1. d \in Delivery /\ Tail(buf[w]) \in Seq(Delivery)
  BY DEF QueuesTypeOK, Receive
<1>2. /\ buf' \in [Replica -> Seq(Delivery)] /\ log' \in [Key -> Seq(Entry)]
      /\ closing' = closing
  BY <1>1 DEF QueuesTypeOK, Receive
<1>3. CASE log[d.key][d.rev].op = "junk"
  <2>1. d.key \in Key /\ AckMsg(d) /\ job' = job
    BY <1>1, <1>3 DEF Receive, Delivery
  <2> QED BY <1>2, <2>1, AckTypes DEF QueuesTypeOK
<1>4. CASE log[d.key][d.rev].op # "junk"
  <2>1. job' = [job EXCEPT ![w] =
           [pc |-> IF log[d.key][d.rev].op = "put" THEN "convert" ELSE "dedupe",
            key |-> d.key, rev |-> d.rev, act |-> "created", redact |-> FALSE]]
        /\ cons' = cons
    BY <1>4 DEF Receive
  <2>2. [pc |-> IF log[d.key][d.rev].op = "put" THEN "convert" ELSE "dedupe",
         key |-> d.key, rev |-> d.rev, act |-> "created", redact |-> FALSE] \in Job
    BY <1>1 DEF Job, Delivery, Steps, Actions
  <2> QED BY <1>2, <2>1, <2>2 DEF QueuesTypeOK
<1> QED BY <1>3, <1>4

\* A handler's step, as far as the consumer and the replica are concerned.
LEMMA HandleQueues ==
  ASSUME QueuesTypeOK, NEW w \in Replica, Handle(w)
  PROVE  QueuesTypeOK'
<1> USE GotoQueues, AckQueues, NakQueues, BusyAt DEF Steps
<1>1. CASE Receive(w)
  BY <1>1, ReceiveQueues
<1>2. CASE ConvertVote(w)
  BY <1>2 DEF ConvertVote
<1>3. CASE ConvertResponse(w)
  BY <1>3 DEF ConvertResponse
<1>4. CASE ConvertResult(w)
  BY <1>4 DEF ConvertResult
<1>5. CASE ResponseParent(w)
  BY <1>5 DEF ResponseParent
<1>6. CASE ResultParent(w)
  BY <1>6 DEF ResultParent
<1>7. CASE ReadPrivacy(w)
  <2>1. job[w] \in Job
    BY <1>7 DEF ReadPrivacy
  <2>2. CASE Nak(w)
    BY <2>1, <2>2
  <2>3. CASE job' = [job EXCEPT ![w].pc = "lookup",
                         ![w].redact = PseudoAnonymous(ParentOf[KeyOf(w)])]
             /\ UNCHANGED <<stream, buf, closing>>
    <3> DEFINE hidden == PseudoAnonymous(ParentOf[KeyOf(w)])
    <3>1. hidden \in BOOLEAN
      BY DEF PseudoAnonymous
    <3>2. job' = [job EXCEPT ![w].pc = "lookup", ![w].redact = hidden]
      BY <2>3
    <3> HIDE DEF hidden
    <3>3. job' \in [Replica -> Job \cup {Idle}]
      BY <2>1, <3>1, <3>2 DEF QueuesTypeOK, Job
    <3> QED BY <2>3, <3>3 DEF QueuesTypeOK, stream
  <2> QED BY <1>7, <2>2, <2>3 DEF ReadPrivacy
<1>8. CASE LookupAction(w)
  <2>1. job[w] \in Job
    BY <1>8 DEF LookupAction
  <2>2. PICK act \in {"created", "updated"} :
          job' = [job EXCEPT ![w].pc = "index", ![w].act = act]
    BY <1>8 DEF LookupAction
  <2>3. job' \in [Replica -> Job \cup {Idle}]
    BY <2>1, <2>2 DEF QueuesTypeOK, Job, Actions
  <2> QED BY <1>8, <2>3 DEF LookupAction, QueuesTypeOK, stream
<1>9. CASE Dedupe(w)
  <2>1. job[w] \in Job
    BY <1>9 DEF Dedupe
  <2>2. CASE Ack(w)
    BY <2>1, <2>2
  <2>3. CASE job' = [job EXCEPT ![w].pc = "index", ![w].act = "deleted"]
             /\ UNCHANGED <<stream, buf, closing>>
    BY <2>1, <2>3 DEF QueuesTypeOK, Job, Actions, stream
  <2> QED BY <1>9, <2>2, <2>3 DEF Dedupe
<1>10. CASE PublishIndex(w)
  BY <1>10 DEF PublishIndex, PublishFails
<1>11. CASE VoteAccess(w)
  BY <1>11 DEF VoteAccess, PublishFails
<1>12. CASE ResponseAccess(w)
  BY <1>12 DEF ResponseAccess, PublishFails
<1>13. CASE Participant(w)
  BY <1>13 DEF Participant, PublishFails
<1>14. CASE StoreMapping(w)
  BY <1>14 DEF StoreMapping
<1>15. CASE Done(w)
  BY <1>15 DEF Done
<1>16. CASE CheckMarker(w)
  BY <1>16 DEF CheckMarker
<1>17. CASE ResolveInvitee(w)
  BY <1>17 DEF ResolveInvitee
<1>18. CASE MarkPending(w)
  BY <1>18 DEF MarkPending
<1>19. CASE SendInvite(w)
  BY <1>19 DEF SendInvite
<1> QED
  BY <1>1, <1>2, <1>3, <1>4, <1>5, <1>6, <1>7, <1>8, <1>9, <1>10, <1>11, <1>12,
     <1>13, <1>14, <1>15, <1>16, <1>17, <1>18, <1>19 DEF Handle

\* A handler's step, as far as v1-mappings, the indexer and fga-sync are
\* concerned: whatever it writes comes from its well-typed job.
LEMMA HandleEffects ==
  ASSUME TypeOK, RevisionsExist, NEW w \in Replica, StepFits(w), Handle(w)
  PROVE  EffectsTypeOK'
<1> USE DEF TypeOK, tracking, sinks
<1> DEFINE Quiet == UNCHANGED <<tracking, invited, sinks>>
<1>1. CASE Quiet
  BY <1>1 DEF EffectsTypeOK
<1>2. \/ Receive(w) \/ ConvertVote(w) \/ ConvertResponse(w) \/ ConvertResult(w)
      \/ ResponseParent(w) \/ ResultParent(w) \/ ReadPrivacy(w) \/ LookupAction(w)
      \/ Dedupe(w) \/ Done(w) \/ CheckMarker(w) \/ ResolveInvitee(w)
      => Quiet
  BY DEF Receive, ConvertVote, ConvertResponse, ConvertResult, ResponseParent,
         ResultParent, ReadPrivacy, LookupAction, Dedupe, Done, CheckMarker,
         ResolveInvitee
<1>3. CASE PublishIndex(w)
  <2>1. job[w] \in Job
    BY <1>3, BusyAt DEF PublishIndex, Steps
  <2> QED BY <1>3, <2>1 DEF PublishIndex, PublishFails, EffectsTypeOK, Document, KeyOf, Job
<1>4. CASE VoteAccess(w)
  <2>1. job[w] \in Job
    BY <1>4, BusyAt DEF VoteAccess, Steps
  <2> QED BY <1>4, <2>1 DEF VoteAccess, PublishFails, EffectsTypeOK, KeyOf, Job
<1>5. CASE ResponseAccess(w)
  <2>1. job[w] \in Job
    BY <1>5, BusyAt DEF ResponseAccess, Steps
  <2> QED BY <1>5, <2>1 DEF ResponseAccess, PublishFails, EffectsTypeOK, KeyOf, Job
<1>6. CASE Participant(w)
  <2>1. job[w] \in Job /\ job[w] # Idle /\ KeyOf(w) \in Response
    BY <1>6, BusyAt DEF Participant, Steps, StepFits, At, Idle
  <2>2. job[w].rev \in 1..Len(log[KeyOf(w)]) /\ log[KeyOf(w)] \in Seq(Entry)
    BY <2>1 DEF RevisionsExist, QueuesTypeOK, KeyOf, Job
  <2>3. EntryOf(w).user \in User \cup {NoUser}
    <3>1. log[KeyOf(w)][job[w].rev] \in Entry
      BY <2>2
    <3> QED BY <3>1 DEF EntryOf, KeyOf, Entry
  <2>4. ParentOf[KeyOf(w)] \in Vote
    BY <2>1, KeysAssumption DEF Child
  <2> QED BY <1>6, <2>3, <2>4 DEF Participant, PublishFails, EffectsTypeOK
<1>7. CASE StoreMapping(w)
  BY <1>7 DEF StoreMapping, EffectsTypeOK
<1>8. CASE MarkPending(w)
  BY <1>8 DEF MarkPending, EffectsTypeOK
<1>9. CASE SendInvite(w)
  BY <1>9 DEF SendInvite, EffectsTypeOK
<1> HIDE DEF Quiet
<1> QED
  BY <1>1, <1>2, <1>3, <1>4, <1>5, <1>6, <1>7, <1>8, <1>9 DEF Handle

LEMMA NextTypeOK ==
  ASSUME TypeOK, RevisionsExist, \A w \in Replica : StepFits(w), [Next]_vars
  PROVE  TypeOK'
<1> USE DEF TypeOK
<1>1. ASSUME NEW k \in Key, NEW e \in Entry, Write(k, e) PROVE TypeOK'
  BY <1>1, WriteQueues DEF Write, EffectsTypeOK, tracking, sinks
<1>2. ASSUME NEW k \in Key, Expire(k) PROVE TypeOK'
  BY <1>2, ExpireQueues DEF Expire, EffectsTypeOK, tracking, sinks
<1>3. ASSUME NEW w \in Replica, NEW k \in Key, Deliver(w, k) PROVE TypeOK'
  BY <1>3, DeliverQueues DEF Deliver, EffectsTypeOK, tracking, sinks
<1>4. ASSUME NEW w \in Replica, Handle(w) PROVE TypeOK'
  BY <1>4, HandleQueues, HandleEffects
<1>5. ASSUME NEW w \in Replica, Stops(w) PROVE TypeOK'
  BY <1>5, StopsQueues DEF EffectsTypeOK, tracking, sinks
<1>6. CASE UNCHANGED vars
  BY <1>6 DEF vars, QueuesTypeOK, EffectsTypeOK, tracking, sinks
<1> QED BY <1>1, <1>2, <1>3, <1>4, <1>5, <1>6 DEF Next

-----------------------------------------------------------------------------
(* The invariant *)

\* What no step takes back: revisions, open records, mappings, markers and what
\* the indexer was told.
Grows ==
  /\ \A k \in Key : Len(log[k]) <= Len(log'[k])
  /\ \A v \in Vote : EverOpen(v) => EverOpen(v)'
  /\ \A k \in Key : mapping[k] # "none" => mapping'[k] # "none"
  /\ \A k \in Key : index[k].rev > 0 => index'[k].rev > 0
  /\ \A r \in Response : marker[r] # "none" => marker'[r] # "none"

LEMMA WriteGrows ==
  ASSUME TypeOK, NEW k \in Key, NEW e \in Entry, Supersede(k, e),
         UNCHANGED <<buf, job, closing, mapping, marker, index>>
  PROVE  Grows
<1>1. \A v \in Key : Len(log[v]) <= Len(log'[v])
                    /\ \A i \in 1..Len(log[v]) : log'[v][i] = log[v][i]
  BY DEF TypeOK, QueuesTypeOK, Supersede
<1>2. \A v \in Key : Len(log[v]) \in Nat /\ Len(log'[v]) \in Nat
  BY WriteQueues DEF TypeOK, QueuesTypeOK
<1>3. \A v \in Vote : EverOpen(v) => EverOpen(v)'
  BY <1>1, <1>2 DEF EverOpen, Key
<1> QED BY <1>1, <1>3 DEF Grows

LEMMA HandleGrows ==
  ASSUME TypeOK, RevisionsExist, NEW w \in Replica, Handle(w)
  PROVE  Grows
<1> DEFINE Kept == log' = log /\ UNCHANGED <<mapping, marker, index>>
<1>0. ASSUME Kept PROVE Grows
  <2>1. \A k \in Key : Len(log[k]) \in Nat
    BY DEF TypeOK, QueuesTypeOK
  <2>2. \A v \in Vote : EverOpen(v) => EverOpen(v)'
    BY <1>0 DEF EverOpen
  <2> QED BY <1>0, <2>1, <2>2 DEF Grows
<1>1. log' = log
  BY DEF Handle, Receive, ConvertVote, ConvertResponse, ConvertResult, ResponseParent,
         ResultParent, ReadPrivacy, LookupAction, Dedupe, PublishIndex, VoteAccess,
         ResponseAccess, Participant, PublishFails, StoreMapping, Done, CheckMarker,
         ResolveInvitee, MarkPending, SendInvite, Goto, Ack, Nak, stream
<1>2. \/ Receive(w) \/ ConvertVote(w) \/ ConvertResponse(w) \/ ConvertResult(w)
      \/ ResponseParent(w) \/ ResultParent(w) \/ ReadPrivacy(w) \/ LookupAction(w)
      \/ Dedupe(w) \/ Done(w) \/ CheckMarker(w) \/ ResolveInvitee(w)
      \/ VoteAccess(w) \/ ResponseAccess(w) \/ Participant(w)
      => UNCHANGED <<mapping, marker, index>>
  BY DEF Receive, ConvertVote, ConvertResponse, ConvertResult, ResponseParent,
         ResultParent, ReadPrivacy, LookupAction, Dedupe, Done, CheckMarker,
         ResolveInvitee, VoteAccess, ResponseAccess, Participant, PublishFails,
         tracking, sinks
<1>3. CASE PublishIndex(w)
  <2>1. job[w] \in Job /\ job[w] # Idle
    BY <1>3, BusyAt DEF PublishIndex, Steps, TypeOK, At, Idle
  <2>2. job[w].rev > 0
    BY <2>1 DEF RevisionsExist, TypeOK, QueuesTypeOK, Job
  <2>3. \A k \in Key : index[k].rev > 0 => index'[k].rev > 0
    BY <1>3, <2>1, <2>2 DEF PublishIndex, PublishFails, KeyOf, Job, TypeOK,
                            EffectsTypeOK, sinks
  <2>4. UNCHANGED <<mapping, marker>>
    BY <1>3 DEF PublishIndex, tracking
  <2>5. \A k \in Key : Len(log[k]) \in Nat
    BY DEF TypeOK, QueuesTypeOK
  <2>6. \A v \in Vote : EverOpen(v) => EverOpen(v)'
    BY <1>1 DEF EverOpen
  <2> QED BY <1>1, <2>3, <2>4, <2>5, <2>6 DEF Grows
<1>4. CASE StoreMapping(w) \/ MarkPending(w) \/ SendInvite(w)
  BY <1>1, <1>4 DEF StoreMapping, MarkPending, SendInvite, Grows, EverOpen, TypeOK,
                QueuesTypeOK, EffectsTypeOK, sinks
<1> QED BY <1>0, <1>1, <1>2, <1>3, <1>4 DEF Handle

\* What a step of a handler under way does to the deliveries: it keeps its own
\* or lets go of it, and acknowledges nothing that does not exist.
Continues(w) ==
  /\ UNCHANGED <<log, buf>>
  /\ \A k \in Key : cons'[k].st # "none" => cons[k].st # "none" \/ Len(log[k]) > 0
  /\ \A x \in Replica \ {w} : job'[x] = job[x]
  /\ \/ job'[w] = Idle
     \/ job'[w].key = job[w].key /\ job'[w].rev = job[w].rev

LEMMA BusyRevision ==
  ASSUME TypeOK, RevisionsExist, NEW w \in Replica, job[w] \in Job
  PROVE  /\ job[w] # Idle /\ KeyOf(w) \in Key /\ KeyOf(w) = job[w].key
         /\ Len(log[KeyOf(w)]) \in Nat
         /\ job[w].rev \in 1..Len(log[KeyOf(w)])
<1>1. job[w] # Idle /\ job[w].key \in Key
  <2>1. job[w].pc # "idle"
    BY DEF Job, Steps
  <2> QED BY <2>1 DEF Job, Idle
<1>2. Len(log[job[w].key]) \in Nat
  BY <1>1 DEF TypeOK, QueuesTypeOK
<1> QED BY <1>1, <1>2 DEF RevisionsExist, KeyOf

LEMMA AckContinues ==
  ASSUME TypeOK, RevisionsExist, NEW w \in Replica, job[w] \in Job, Ack(w)
  PROVE  Continues(w)
<1>1. job[w].key \in Key /\ job[w].rev \in 1..Len(log[job[w].key])
      /\ Len(log[job[w].key]) \in Nat
  BY BusyRevision
<1>2. job[w].rev = Len(log[job[w].key]) => Len(log[job[w].key]) > 0
  BY <1>1
<1>3. \A k \in Key : cons'[k].st # "none" => cons[k].st # "none" \/ Len(log[k]) > 0
  BY <1>1, <1>2 DEF Ack, AckMsg, TypeOK, QueuesTypeOK
<1> QED BY <1>3 DEF Continues, Ack, TypeOK, QueuesTypeOK

LEMMA NakContinues ==
  ASSUME TypeOK, RevisionsExist, NEW w \in Replica, job[w] \in Job, Nak(w)
  PROVE  Continues(w)
<1>1. job[w].key \in Key
  BY BusyRevision
<1>2. \A k \in Key : cons'[k].st # "none" => cons[k].st # "none" \/ Len(log[k]) > 0
  BY <1>1 DEF Nak, NakMsg, TypeOK, QueuesTypeOK
<1> QED BY <1>2 DEF Continues, Nak, TypeOK, QueuesTypeOK

LEMMA GotoContinues ==
  ASSUME TypeOK, NEW w \in Replica, job[w] \in Job, NEW pc, Goto(w, pc)
  PROVE  Continues(w)
BY DEF Continues, Goto, stream, TypeOK, QueuesTypeOK, Job

LEMMA HandleContinues ==
  ASSUME TypeOK, RevisionsExist, NEW w \in Replica, Handle(w), ~Receive(w)
  PROVE  Continues(w) /\ job[w] \in Job
<1> USE BusyAt DEF Steps
<1>0. QueuesTypeOK
  BY DEF TypeOK
<1>1. job[w] \in Job
  BY <1>0 DEF Handle, ConvertVote, ConvertResponse, ConvertResult, ResponseParent,
     ResultParent, ReadPrivacy, LookupAction, Dedupe, PublishIndex, VoteAccess,
     ResponseAccess, Participant, StoreMapping, Done, CheckMarker, ResolveInvitee,
     MarkPending, SendInvite
<1>2. CASE Ack(w)
  BY <1>1, <1>2, AckContinues
<1>3. CASE Nak(w)
  BY <1>1, <1>3, NakContinues
<1>4. CASE \E pc \in Steps : Goto(w, pc)
  BY <1>1, <1>4, GotoContinues
<1>5. CASE ReadPrivacy(w) \/ LookupAction(w) \/ Dedupe(w)
  BY <1>1, <1>2, <1>3, <1>5
     DEF ReadPrivacy, LookupAction, Dedupe, Continues, stream, TypeOK, QueuesTypeOK, Job
<1>6. \/ ConvertVote(w) \/ ConvertResponse(w) \/ ConvertResult(w)
      \/ ResponseParent(w) \/ ResultParent(w)
      => Ack(w) \/ Nak(w) \/ \E pc \in Steps : Goto(w, pc)
  BY DEF ConvertVote, ConvertResponse, ConvertResult, ResponseParent, ResultParent
<1>7. PublishIndex(w) \/ VoteAccess(w) \/ ResponseAccess(w) \/ Participant(w)
      => Ack(w) \/ Nak(w) \/ \E pc \in Steps : Goto(w, pc)
  BY DEF PublishIndex, VoteAccess, ResponseAccess, Participant, PublishFails
<1>8. \/ StoreMapping(w) \/ Done(w) \/ CheckMarker(w) \/ ResolveInvitee(w)
      \/ MarkPending(w) \/ SendInvite(w)
      => Ack(w) \/ Nak(w) \/ \E pc \in Steps : Goto(w, pc)
  BY DEF StoreMapping, Done, CheckMarker, ResolveInvitee, MarkPending, SendInvite
<1> QED BY <1>1, <1>2, <1>3, <1>4, <1>5, <1>6, <1>7, <1>8 DEF Handle

\* Every revision a replica holds was written, and stays where it was.
LEMMA HandleRevisions ==
  ASSUME TypeOK, RevisionsExist, NEW w \in Replica, Handle(w)
  PROVE  RevisionsExist'
<1>1. CASE Receive(w)
  <2> DEFINE d == Head(buf[w])
  <2>0. log' = log
    BY <1>1 DEF Receive
  <2>1. d \in Delivery /\ d.key \in Key /\ d.rev \in 1..Len(log[d.key])
    <3>1. buf[w] \in Seq(Delivery) /\ buf[w] # <<>>
      BY <1>1 DEF Receive, TypeOK, QueuesTypeOK
    <3>2. d = buf[w][1] /\ 1 \in 1..Len(buf[w]) /\ d \in Delivery
      BY <3>1
    <3> QED BY <3>2 DEF RevisionsExist, Delivery
  <2>2. \A k \in Key : cons'[k].st # "none" => Len(log'[k]) > 0
    <3>1. CASE cons' = cons
      BY <2>0, <3>1 DEF RevisionsExist
    <3>2. CASE AckMsg(d)
      <4>1. Len(log[d.key]) \in Nat
        BY <2>1 DEF TypeOK, QueuesTypeOK
      <4>2. d.rev = Len(log[d.key]) => Len(log[d.key]) > 0
        BY <2>1, <4>1
      <4> QED BY <2>0, <2>1, <3>2, <4>2 DEF AckMsg, RevisionsExist, TypeOK, QueuesTypeOK
    <3> QED BY <1>1, <3>1, <3>2 DEF Receive
  <2>3. \A x \in Replica : \A i \in 1..Len(buf'[x]) :
          buf'[x][i].rev \in 1..Len(log'[buf'[x][i].key])
    <3> SUFFICES ASSUME NEW x \in Replica, NEW i \in 1..Len(buf'[x])
                 PROVE  buf'[x][i].rev \in 1..Len(log[buf'[x][i].key])
      BY <2>0
    <3>1. CASE x # w
      BY <1>1, <3>1 DEF Receive, RevisionsExist, TypeOK, QueuesTypeOK
    <3>2. CASE x = w
      <4>1. buf'[w] = Tail(buf[w]) /\ buf[w] \in Seq(Delivery) /\ buf[w] # <<>>
        BY <1>1 DEF Receive, TypeOK, QueuesTypeOK
      <4>2. i + 1 \in 1..Len(buf[w]) /\ buf'[w][i] = buf[w][i + 1]
        BY <3>2, <4>1
      <4> QED BY <3>2, <4>2 DEF RevisionsExist
    <3> QED BY <3>1, <3>2
  <2>4. \A x \in Replica : job'[x] # Idle => job'[x].rev \in 1..Len(log'[job'[x].key])
    <3> SUFFICES ASSUME NEW x \in Replica, job'[x] # Idle
                 PROVE  job'[x].rev \in 1..Len(log[job'[x].key])
      BY <2>0
    <3>1. CASE job'[x] = job[x]
      BY <3>1 DEF RevisionsExist
    <3>2. CASE job'[x] # job[x]
      <4>1. job'[x].key = d.key /\ job'[x].rev = d.rev
        BY <1>1, <3>2 DEF Receive, TypeOK, QueuesTypeOK
      <4> QED BY <2>1, <4>1
    <3> QED BY <3>1, <3>2
  <2> QED BY <2>2, <2>3, <2>4 DEF RevisionsExist
<1>2. CASE ~Receive(w)
  <2>1. Continues(w) /\ job[w] # Idle
    BY <1>2, HandleContinues, BusyRevision
  <2>2. \A x \in Replica : job'[x] # Idle => job'[x].rev \in 1..Len(log'[job'[x].key])
    <3> SUFFICES ASSUME NEW x \in Replica, job'[x] # Idle
                 PROVE  job'[x].rev \in 1..Len(log'[job'[x].key])
      OBVIOUS
    <3>1. job[x] # Idle /\ job'[x].rev = job[x].rev /\ job'[x].key = job[x].key
      BY <2>1 DEF Continues
    <3> QED BY <2>1, <3>1 DEF Continues, RevisionsExist
  <2> QED BY <2>1, <2>2 DEF RevisionsExist, Continues
<1> QED BY <1>1, <1>2

LEMMA WriteRevisions ==
  ASSUME TypeOK, RevisionsExist, NEW k \in Key, NEW e \in Entry, Supersede(k, e),
         UNCHANGED <<buf, job, closing, mapping, marker, index>>
  PROVE  RevisionsExist'
<1>0. log \in [Key -> Seq(Entry)] /\ log' \in [Key -> Seq(Entry)]
  BY WriteQueues DEF TypeOK, QueuesTypeOK
<1>1. \A x \in Key : Len(log[x]) \in Nat /\ Len(log'[x]) \in Nat
                    /\ Len(log[x]) <= Len(log'[x])
  BY <1>0, WriteGrows DEF Grows
<1>2. Len(log'[k]) > 0
  <2>1. log'[k] = Append(log[k], e)
    BY <1>0 DEF Supersede
  <2> QED BY <1>0, <2>1
<1>3. \A x \in Key : cons'[x].st # "none" => Len(log'[x]) > 0
  <2> SUFFICES ASSUME NEW x \in Key, x # k, cons'[x].st # "none"
               PROVE  Len(log'[x]) > 0
    BY <1>2
  <2>1. cons'[x] = cons[x] /\ Len(log[x]) > 0
    BY DEF Supersede, RevisionsExist, TypeOK, QueuesTypeOK
  <2> QED BY <1>1, <2>1
<1>4. \A x \in Replica : \A i \in 1..Len(buf[x]) :
        buf[x][i].key \in Key /\ buf[x][i].rev \in Nat
  <2> SUFFICES ASSUME NEW x \in Replica, NEW i \in 1..Len(buf[x])
               PROVE  buf[x][i].key \in Key /\ buf[x][i].rev \in Nat
    OBVIOUS
  <2>1. buf[x] \in Seq(Delivery)
    BY DEF TypeOK, QueuesTypeOK
  <2>2. buf[x][i] \in Delivery
    BY <2>1
  <2> QED BY <2>2 DEF Delivery
<1>5. \A x \in Replica : \A i \in 1..Len(buf'[x]) :
        buf'[x][i].rev \in 1..Len(log'[buf'[x][i].key])
  <2>1. buf' = buf
    OBVIOUS
  <2> SUFFICES ASSUME NEW x \in Replica, NEW i \in 1..Len(buf[x])
               PROVE  buf[x][i].rev \in 1..Len(log'[buf[x][i].key])
    BY <2>1
  <2>2. buf[x][i].rev \in 1..Len(log[buf[x][i].key])
    BY DEF RevisionsExist
  <2> QED BY <1>1, <1>4, <2>2
<1>6. \A x \in Replica : job[x] # Idle => job[x].key \in Key /\ job[x].rev \in Nat
  BY DEF TypeOK, QueuesTypeOK, Job
<1>7. \A x \in Replica : job'[x] # Idle => job'[x].rev \in 1..Len(log'[job'[x].key])
  BY <1>1, <1>6 DEF RevisionsExist
<1> QED BY <1>3, <1>5, <1>7 DEF RevisionsExist

LEMMA DeliverRevisions ==
  ASSUME TypeOK, RevisionsExist, NEW w \in Replica, NEW k \in Key, Deliver(w, k)
  PROVE  RevisionsExist'
<1>1. log' = log /\ job' = job /\ Len(log[k]) \in Nat
  BY DEF Deliver, TypeOK, QueuesTypeOK
<1>2. Len(log[k]) > 0
  BY DEF Deliver, RevisionsExist
<1>3. \A x \in Key : cons'[x].st # "none" => Len(log'[x]) > 0
  BY <1>1, <1>2 DEF Deliver, RevisionsExist, TypeOK, QueuesTypeOK
<1>4. \A x \in Replica : \A i \in 1..Len(buf'[x]) :
        buf'[x][i].rev \in 1..Len(log'[buf'[x][i].key])
  <2> SUFFICES ASSUME NEW x \in Replica, NEW i \in 1..Len(buf'[x])
               PROVE  buf'[x][i].rev \in 1..Len(log[buf'[x][i].key])
    BY <1>1
  <2> DEFINE d == [key |-> k, rev |-> Len(log[k])]
  <2>1. CASE x # w
    BY <2>1 DEF Deliver, RevisionsExist, TypeOK, QueuesTypeOK
  <2>2. CASE x = w
    <3>1. buf'[w] = Append(buf[w], d) /\ buf[w] \in Seq(Delivery)
      BY DEF Deliver, TypeOK, QueuesTypeOK
    <3>2. \/ i \in 1..Len(buf[w]) /\ buf'[w][i] = buf[w][i]
          \/ buf'[w][i] = d
      BY <2>2, <3>1
    <3>3. d.rev \in 1..Len(log[d.key])
      BY <1>1, <1>2
    <3> QED BY <2>2, <3>2, <3>3 DEF RevisionsExist
  <2> QED BY <2>1, <2>2
<1> QED BY <1>1, <1>3, <1>4 DEF RevisionsExist

LEMMA ExpireRevisions ==
  ASSUME TypeOK, RevisionsExist, NEW k \in Key, Expire(k)
  PROVE  RevisionsExist'
BY DEF Expire, RevisionsExist, TypeOK, QueuesTypeOK

LEMMA StopsRevisions ==
  ASSUME TypeOK, RevisionsExist, NEW w \in Replica, Stops(w)
  PROVE  /\ RevisionsExist'
         /\ \A x \in Replica : job'[x] = job[x] \/ job'[x] = Idle
<1>1. /\ \A x \in Replica : buf'[x] = buf[x] \/ Len(buf'[x]) = 0
      /\ \A x \in Replica : job'[x] = job[x] \/ job'[x] = Idle
      /\ log' = log /\ cons' = cons
  <2>1. log' = log /\ cons' = cons
    BY StopsQueues DEF TypeOK, stream
  <2>2. CASE Restart(w)
    BY <2>1, <2>2 DEF Restart, TypeOK, QueuesTypeOK
  <2>3. CASE UNCHANGED <<buf, job>>
    BY <2>1, <2>3
  <2> QED BY <2>2, <2>3, StopsQueues DEF TypeOK
<1>2. \A x \in Replica : \A i \in 1..Len(buf'[x]) :
        buf'[x][i].rev \in 1..Len(log'[buf'[x][i].key])
  <2> SUFFICES ASSUME NEW x \in Replica, NEW i \in 1..Len(buf'[x])
               PROVE  buf'[x][i].rev \in 1..Len(log'[buf'[x][i].key])
    OBVIOUS
  <2>1. buf'[x] = buf[x]
    BY <1>1
  <2> QED BY <1>1, <2>1 DEF RevisionsExist
<1>3. \A x \in Replica : job'[x] # Idle => job'[x].rev \in 1..Len(log'[job'[x].key])
  BY <1>1 DEF RevisionsExist
<1> QED BY <1>1, <1>2, <1>3 DEF RevisionsExist

\* The handlers of the other replicas lose nothing they rely on.
LEMMA OthersKeep ==
  ASSUME TypeOK, Grows, NEW x \in Replica, job'[x] = job[x],
         StepFits(x), StepSafe(x)
  PROVE  StepFits(x)' /\ StepSafe(x)'
<1>1. CASE job[x] = Idle
  BY <1>1 DEF StepFits, StepSafe, Idle, At
<1>2. CASE job[x] \in Job
  <2>1. KeyOf(x)' = KeyOf(x) /\ KeyOf(x) \in Key
    BY <1>2 DEF KeyOf, Job
  <2>2. StepFits(x)'
    BY <2>1 DEF StepFits
  <2>3. KeyOf(x) \in Child => ParentOf[KeyOf(x)] \in Vote /\ ParentOf[KeyOf(x)] \in Key
    BY KeysAssumption DEF Key
  <2>4. KeyOf(x) \in Response => KeyOf(x) \in Child
    BY DEF Child
  <2>5. job[x].pc = "send" => KeyOf(x) \in Response
    BY DEF StepFits
  <2>6. StepSafe(x)'
    BY <2>1, <2>3, <2>4, <2>5 DEF StepSafe, Grows
  <2> QED BY <2>2, <2>6
<1> QED BY <1>1, <1>2 DEF TypeOK, QueuesTypeOK

LEMMA IdleKeeps ==
  ASSUME NEW w \in Replica, job'[w] = Idle
  PROVE  StepFits(w)' /\ StepSafe(w)'
BY DEF StepFits, StepSafe, Idle

LEMMA GotoJob ==
  ASSUME TypeOK, NEW w \in Replica, job[w] \in Job, NEW pc, Goto(w, pc)
  PROVE  /\ job'[w].pc = pc /\ job'[w].key = job[w].key /\ job'[w].rev = job[w].rev
         /\ job'[w].act = job[w].act /\ job'[w].redact = job[w].redact
         /\ log' = log
BY DEF Goto, TypeOK, QueuesTypeOK, Job, stream

\* A handler's step establishes what the next step of it relies on.
LEMMA HandleKeeps ==
  ASSUME TypeOK, RevisionsExist, NEW w \in Replica, StepFits(w), StepSafe(w),
         Handle(w)
  PROVE  StepFits(w)' /\ StepSafe(w)'
<1>0. Grows /\ QueuesTypeOK
  BY HandleGrows DEF TypeOK
<1>1. CASE Ack(w) \/ Nak(w)
  BY <1>1, IdleKeeps DEF Ack, Nak, TypeOK, QueuesTypeOK
<1>2. CASE Receive(w)
  <2>1. CASE job' = job
    BY <1>0, <2>1, OthersKeep
  <2>2. CASE job' # job
    <3>1. /\ job'[w].pc \in {"convert", "dedupe"} /\ job'[w].act = "created"
      BY <1>2, <2>2 DEF Receive, TypeOK, QueuesTypeOK
    <3> QED BY <3>1 DEF StepFits, StepSafe
  <2> QED BY <2>1, <2>2
<1>3. ASSUME ~Receive(w), ~Ack(w), ~Nak(w)
      PROVE  StepFits(w)' /\ StepSafe(w)'
  <2>1. job[w] \in Job /\ job[w] # Idle
    BY <1>3, HandleContinues, BusyRevision
  <2>2. KeyOf(w) \in Key /\ job[w].rev > 0
    BY <2>1, BusyRevision
  <2>3. KeyOf(w) \in Child => ParentOf[KeyOf(w)] \in Vote /\ ParentOf[KeyOf(w)] \in Key
    BY KeysAssumption DEF Key
  <2>4. /\ KeyOf(w) \in Response => KeyOf(w) \in Child
        /\ KeyOf(w) \in Result => KeyOf(w) \in Child
        /\ KeyOf(w) \in Vote => KeyOf(w) \notin Child
        /\ KeyOf(w) \in Response => KeyOf(w) \notin Result
    BY KeysAssumption DEF Child
  <2> DEFINE Kept == /\ job'[w].act = job[w].act /\ job'[w].redact = job[w].redact
                     /\ KeyOf(w)' = KeyOf(w)
             Reaches(pc) == job'[w].pc = pc
  <2>5. ASSUME NEW pc, Goto(w, pc) PROVE Kept /\ Reaches(pc)
    BY <2>1, <2>5, GotoJob DEF KeyOf
  <2> HIDE DEF Kept, Reaches
  <2>6. CASE ConvertVote(w)
    <3>1. Kept /\ Reaches("lookup") /\ At(w, "convert") /\ KeyOf(w) \in Vote
      BY <1>3, <2>5, <2>6 DEF ConvertVote
    <3> QED BY <2>4, <3>1 DEF Kept, Reaches, At, StepFits, StepSafe
  <2>7. CASE ConvertResponse(w) \/ ConvertResult(w)
    <3>1. Kept /\ Reaches("parent") /\ At(w, "convert") /\ KeyOf(w) \in Child
      BY <1>3, <2>4, <2>5, <2>7 DEF ConvertResponse, ConvertResult
    <3> QED BY <3>1 DEF Kept, Reaches, At, StepFits, StepSafe
  <2>8. CASE ResponseParent(w)
    <3>1. /\ Kept /\ Reaches("privacy") /\ At(w, "parent") /\ KeyOf(w) \in Response
          /\ mapping[ParentOf[KeyOf(w)]] # "none"
      BY <1>3, <2>5, <2>8 DEF ResponseParent
    <3> QED BY <1>0, <2>3, <2>4, <3>1 DEF Kept, Reaches, At, StepFits, StepSafe, Grows
  <2>9. CASE ResultParent(w)
    <3>1. /\ Kept /\ Reaches("lookup") /\ At(w, "parent") /\ KeyOf(w) \in Result
          /\ mapping[ParentOf[KeyOf(w)]] # "none"
      BY <1>3, <2>5, <2>9 DEF ResultParent
    <3> QED BY <1>0, <2>3, <2>4, <3>1 DEF Kept, Reaches, At, StepFits, StepSafe, Grows
  <2>10. CASE ReadPrivacy(w)
    <3> DEFINE v == ParentOf[KeyOf(w)]
    <3>1. /\ KeyOf(w) \in Response /\ job[w].act = "created"
          /\ mapping[v] # "none" /\ v \in Vote /\ v \in Key
      BY <2>3, <2>4, <2>10 DEF ReadPrivacy, At, StepFits, StepSafe
    <3>2. /\ Reaches("lookup") /\ job'[w].act = "created" /\ KeyOf(w)' = KeyOf(w)
          /\ job'[w].redact = PseudoAnonymous(v)
      <4> DEFINE hidden == PseudoAnonymous(v)
      <4>1. job' = [job EXCEPT ![w].pc = "lookup", ![w].redact = hidden]
        BY <1>3, <2>10 DEF ReadPrivacy
      <4> HIDE DEF hidden
      <4>2. job'[w] = [job[w] EXCEPT !.pc = "lookup", !.redact = hidden]
        BY <4>1 DEF TypeOK, QueuesTypeOK
      <4>3. /\ job'[w].pc = "lookup" /\ job'[w].redact = hidden
            /\ job'[w].act = job[w].act /\ job'[w].key = job[w].key
        BY <2>1, <4>2 DEF Job
      <4> QED BY <3>1, <4>3 DEF hidden, Reaches, KeyOf
    <3>3. ~PseudoAnonymous(v) => EverOpen(v)
      <4>1. log[v] \in Seq(Entry)
        BY <3>1 DEF TypeOK, QueuesTypeOK
      <4>2. log[v] # <<>> => Len(log[v]) \in 1..Len(log[v])
        BY <4>1
      <4> QED BY <4>2 DEF PseudoAnonymous, Decodes, Found, Stored, EverOpen
    <3>4. ~job'[w].redact => EverOpen(v)'
      BY <1>0, <3>1, <3>2, <3>3 DEF Grows
    <3>5. mapping'[v] # "none"
      BY <1>0, <3>1 DEF Grows
    <3> QED BY <3>1, <3>2, <3>4, <3>5 DEF Reaches, StepFits, StepSafe
  <2>11. CASE LookupAction(w)
    <3>1. /\ At(w, "lookup") /\ Reaches("index") /\ KeyOf(w)' = KeyOf(w)
          /\ job'[w].redact = job[w].redact
          /\ job[w].act = "created"
      BY <2>1, <2>11 DEF LookupAction, Reaches, At, KeyOf, TypeOK, QueuesTypeOK, Job, StepFits
    <3>2. KeyOf(w) \in Child => mapping'[ParentOf[KeyOf(w)]] # "none"
      BY <1>0, <2>3, <3>1 DEF At, StepSafe, Grows
    <3>3. (KeyOf(w) \in Response /\ ~job[w].redact) => EverOpen(ParentOf[KeyOf(w)])'
      BY <1>0, <2>3, <2>4, <3>1 DEF At, StepSafe, Grows
    <3> QED BY <3>1, <3>2, <3>3 DEF Reaches, StepFits, StepSafe
  <2>12. CASE Dedupe(w)
    <3>1. Reaches("index") /\ job'[w].act = "deleted"
      BY <1>3, <2>1, <2>12 DEF Dedupe, Reaches, TypeOK, QueuesTypeOK, Job
    <3> QED BY <3>1 DEF Reaches, StepFits, StepSafe
  <2>13. CASE PublishIndex(w)
    <3>1. /\ Kept /\ At(w, "index")
          /\ Reaches(IF KeyOf(w) \in Result THEN "record" ELSE "access")
          /\ index' = [index EXCEPT ![KeyOf(w)] =
                         [rev |-> job[w].rev, doc |-> Document(w), act |-> job[w].act]]
      BY <1>3, <2>5, <2>13 DEF PublishIndex, PublishFails
    <3>2. index'[KeyOf(w)].rev > 0
      BY <2>2, <3>1 DEF TypeOK, EffectsTypeOK
    <3>3. (job[w].act # "deleted" /\ KeyOf(w) \in Child)
            => mapping'[ParentOf[KeyOf(w)]] # "none"
      BY <1>0, <2>3, <3>1 DEF At, StepSafe, Grows
    <3> QED BY <3>1, <3>2, <3>3 DEF Kept, Reaches, StepFits, StepSafe
  <2>14. CASE \/ VoteAccess(w) \/ ResponseAccess(w) \/ Participant(w)
              \/ StoreMapping(w) \/ CheckMarker(w) \/ ResolveInvitee(w)
              \/ MarkPending(w) \/ SendInvite(w)
    <3>1. PICK pc \in Steps : Goto(w, pc)
      BY <1>3, <2>14 DEF VoteAccess, ResponseAccess, Participant, PublishFails,
         StoreMapping, CheckMarker, ResolveInvitee, MarkPending, SendInvite, Steps
    <3>2. Kept /\ Reaches(pc)
      BY <2>5, <3>1
    <3>3. index'[KeyOf(w)].rev > 0
      BY <1>0, <2>2, <2>14 DEF VoteAccess, ResponseAccess, Participant, StoreMapping,
         CheckMarker, ResolveInvitee, MarkPending, SendInvite, At, StepSafe, Grows
    <3>4. (job[w].act # "deleted" /\ KeyOf(w) \in Child)
            => mapping'[ParentOf[KeyOf(w)]] # "none"
      BY <1>0, <2>3, <2>14 DEF VoteAccess, ResponseAccess, Participant, StoreMapping,
         CheckMarker, ResolveInvitee, MarkPending, SendInvite, At, StepSafe, Grows
    <3>5. /\ pc \in {"participant", "record", "marker", "resolve", "pend", "send", "done"}
          /\ pc \in {"participant", "marker", "resolve", "pend", "send"}
               => KeyOf(w) \in Response
          /\ pc \in {"marker", "resolve", "pend", "send"} => job[w].act = "created"
          /\ pc = "send" => marker'[KeyOf(w)] # "none"
      <4>1. Reaches(pc) => job'[w].pc = pc
        BY DEF Reaches
      <4>2. ASSUME NEW next \in Steps, Goto(w, next) PROVE next = pc
        BY <2>5, <3>2, <4>2 DEF Reaches
      <4>3. CASE VoteAccess(w)
        BY <1>3, <4>2, <4>3 DEF VoteAccess, PublishFails, Steps
      <4>4. CASE ResponseAccess(w)
        BY <1>3, <4>2, <4>4 DEF ResponseAccess, PublishFails, Steps
      <4>5. CASE Participant(w)
        BY <1>3, <4>2, <4>5 DEF Participant, PublishFails, Steps
      <4>6. CASE StoreMapping(w)
        BY <1>3, <4>2, <4>6 DEF StoreMapping, InviteDue, Steps
      <4>7. CASE CheckMarker(w)
        BY <1>3, <4>2, <4>7 DEF CheckMarker, Steps, At, StepFits
      <4>8. CASE ResolveInvitee(w)
        BY <1>3, <4>2, <4>8 DEF ResolveInvitee, Steps, At, StepFits
      <4>9. CASE MarkPending(w)
        <5>1. /\ KeyOf(w) \in Response /\ job[w].act = "created"
          BY <4>9 DEF MarkPending, At, StepFits
        <5>2. \/ pc = "done"
              \/ pc = "send" /\ marker' = [marker EXCEPT ![KeyOf(w)] = "pending"]
          BY <4>2, <4>9 DEF MarkPending, Steps
        <5> QED BY <5>1, <5>2 DEF TypeOK, EffectsTypeOK
      <4>10. CASE SendInvite(w)
        BY <1>3, <4>2, <4>10 DEF SendInvite, Steps
      <4> QED BY <2>14, <4>3, <4>4, <4>5, <4>6, <4>7, <4>8, <4>9, <4>10
    <3> QED BY <3>2, <3>3, <3>4, <3>5 DEF Kept, Reaches, StepFits, StepSafe
  <2>15. CASE Done(w)
    BY <1>3, <2>15 DEF Done
  <2> QED BY <1>3, <2>6, <2>7, <2>8, <2>9, <2>10, <2>11, <2>12, <2>13, <2>14, <2>15
          DEF Handle
<1> QED BY <1>1, <1>2, <1>3

\* The conjuncts of IInv about mappings and sinks: a handler's step disturbs each
\* in one action only.
LEMMA HandleSafe ==
  ASSUME IInv, NEW w \in Replica, Handle(w)
  PROVE  (MappedIsIndexed /\ ParentIndexedFirst /\ BallotOnlyIfOpen /\ InviteComesLast)'
<1>1. /\ TypeOK /\ RevisionsExist /\ StepFits(w) /\ StepSafe(w) /\ Grows
  BY HandleGrows DEF IInv
<1>2. \A c \in Child : ParentOf[c] \in Vote /\ ParentOf[c] \in Key /\ c \in Key
  BY KeysAssumption DEF Key, Child
<1>3. \A r \in Response : r \in Child /\ r \in Key
  BY DEF Child, Key
<1>4. \/ mapping' = mapping
      \/ At(w, "record") /\ \E v \in {"live", "tomb"} :
           mapping' = [mapping EXCEPT ![KeyOf(w)] = v]
  BY DEF Handle, Receive, ConvertVote, ConvertResponse, ConvertResult, ResponseParent,
         ResultParent, ReadPrivacy, LookupAction, Dedupe, Done, CheckMarker,
         ResolveInvitee, VoteAccess, ResponseAccess, Participant, PublishIndex,
         StoreMapping, MarkPending, SendInvite, tracking
<1>5. \/ index' = index
      \/ At(w, "index") /\ index' = [index EXCEPT ![KeyOf(w)] =
                              [rev |-> job[w].rev, doc |-> Document(w), act |-> job[w].act]]
  BY DEF Handle, Receive, ConvertVote, ConvertResponse, ConvertResult, ResponseParent,
         ResultParent, ReadPrivacy, LookupAction, Dedupe, Done, CheckMarker,
         ResolveInvitee, VoteAccess, ResponseAccess, Participant, PublishIndex,
         PublishFails, StoreMapping, MarkPending, SendInvite, sinks
<1>6. \/ invited' = invited
      \/ At(w, "send") /\ \A r \in Response : r # KeyOf(w) => invited'[r] = invited[r]
  BY <1>1 DEF Handle, Receive, ConvertVote, ConvertResponse, ConvertResult,
         ResponseParent, ResultParent, ReadPrivacy, LookupAction, Dedupe, Done,
         CheckMarker, ResolveInvitee, VoteAccess, ResponseAccess, Participant,
         PublishIndex, StoreMapping, MarkPending, SendInvite, TypeOK, EffectsTypeOK
<1>7. MappedIsIndexed'
  <2> SUFFICES ASSUME NEW k \in Key, mapping'[k] # "none" PROVE index'[k].rev > 0
    BY DEF MappedIsIndexed
  <2>1. index[k].rev > 0
    BY <1>1, <1>4 DEF IInv, MappedIsIndexed, TypeOK, EffectsTypeOK, StepSafe, At
  <2> QED BY <1>1, <2>1 DEF Grows
<1>8. ParentIndexedFirst'
  <2> SUFFICES ASSUME NEW c \in Child, index'[c].doc # "none"
               PROVE  index'[ParentOf[c]].rev > 0
    BY DEF ParentIndexedFirst
  <2>1. CASE index'[c] = index[c]
    BY <1>1, <1>2, <2>1 DEF IInv, ParentIndexedFirst, Grows
  <2>2. CASE index'[c] # index[c]
    <3>1. c = KeyOf(w) /\ At(w, "index") /\ index'[c].doc = Document(w)
      BY <1>1, <1>2, <1>5, <2>2 DEF TypeOK, EffectsTypeOK
    <3>2. job[w].act # "deleted"
      BY <3>1 DEF Document
    <3>3. mapping[ParentOf[c]] # "none"
      BY <1>1, <3>1, <3>2 DEF StepSafe, At
    <3> QED BY <1>1, <1>2, <3>3 DEF IInv, MappedIsIndexed, Grows
  <2> QED BY <2>1, <2>2
<1>9. BallotOnlyIfOpen'
  <2> SUFFICES ASSUME NEW r \in Response, index'[r].doc = "full"
               PROVE  EverOpen(ParentOf[r])'
    BY DEF BallotOnlyIfOpen
  <2>1. EverOpen(ParentOf[r])
    <3>1. CASE index'[r] = index[r]
      BY <3>1 DEF IInv, BallotOnlyIfOpen
    <3>2. CASE index'[r] # index[r]
      <4>1. r = KeyOf(w) /\ At(w, "index") /\ index'[r].doc = Document(w)
        BY <1>1, <1>3, <1>5, <3>2 DEF TypeOK, EffectsTypeOK
      <4>2. job[w].act # "deleted" /\ ~job[w].redact
        BY <4>1 DEF Document
      <4> QED BY <1>1, <4>1, <4>2 DEF StepSafe, At
    <3> QED BY <3>1, <3>2
  <2> QED BY <1>1, <1>2, <1>3, <2>1 DEF Grows
<1>10. InviteComesLast'
  <2> SUFFICES ASSUME NEW r \in Response, invited'[r] > 0
               PROVE  /\ index[r].rev > 0 /\ index[ParentOf[r]].rev > 0
                      /\ marker[r] # "none"
    BY <1>1, <1>2, <1>3 DEF InviteComesLast, Grows
  <2>1. CASE invited'[r] = invited[r]
    BY <2>1 DEF IInv, InviteComesLast
  <2>2. CASE invited'[r] # invited[r]
    <3>1. r = KeyOf(w) /\ At(w, "send") /\ job[w].act = "created"
      BY <1>1, <1>6, <2>2 DEF At, StepFits
    <3>2. /\ mapping[ParentOf[r]] # "none" /\ index[r].rev > 0 /\ marker[r] # "none"
      BY <1>1, <1>3, <3>1 DEF StepSafe, At
    <3> QED BY <1>2, <1>3, <3>2 DEF IInv, MappedIsIndexed
  <2> QED BY <2>1, <2>2
<1> QED BY <1>7, <1>8, <1>9, <1>10

LEMMA InitInvariant == Init => IInv
<1> SUFFICES ASSUME Init PROVE IInv
  OBVIOUS
<1>1. TypeOK
  BY InitTypeOK
<1>2. \A w \in Replica : job[w] = Idle /\ buf[w] = <<>>
  BY DEF Init
<1>3. RevisionsExist
  BY <1>2 DEF Init, RevisionsExist
<1>4. \A w \in Replica : StepFits(w) /\ StepSafe(w)
  BY <1>2 DEF StepFits, StepSafe, Idle
<1>5. \A c \in Child : c \in Key /\ ParentOf[c] \in Key
  BY KeysAssumption DEF Key
<1>6. /\ MappedIsIndexed /\ ParentIndexedFirst /\ BallotOnlyIfOpen /\ InviteComesLast
  BY <1>5 DEF Init, MappedIsIndexed, ParentIndexedFirst, BallotOnlyIfOpen,
              InviteComesLast, Child, Key
<1> QED BY <1>1, <1>3, <1>4, <1>6 DEF IInv

\* Steps that leave mappings and sinks alone, and let no replica advance.
LEMMA QuietKeeps ==
  ASSUME IInv, Grows, UNCHANGED <<mapping, marker, invited, index>>
  PROVE  (MappedIsIndexed /\ ParentIndexedFirst /\ BallotOnlyIfOpen /\ InviteComesLast)'
<1>1. \A r \in Response : ParentOf[r] \in Vote
  BY KeysAssumption DEF Child
<1>2. BallotOnlyIfOpen'
  BY <1>1 DEF IInv, BallotOnlyIfOpen, Grows
<1> QED BY <1>2 DEF IInv, MappedIsIndexed, ParentIndexedFirst, InviteComesLast

\* The handler of one replica leaves those of the others alone.
LEMMA HandleMovesOne ==
  ASSUME TypeOK, RevisionsExist, NEW w \in Replica, Handle(w)
  PROVE  \A x \in Replica \ {w} : job'[x] = job[x]
<1>1. CASE Receive(w)
  BY <1>1 DEF Receive, TypeOK, QueuesTypeOK
<1>2. CASE ~Receive(w)
  BY <1>2, HandleContinues DEF Continues
<1> QED BY <1>1, <1>2

\* A step that moves no handler on, and publishes and notes nothing.
LEMMA QuietHandlers ==
  ASSUME TypeOK, Grows, \A x \in Replica : StepFits(x) /\ StepSafe(x),
         \A x \in Replica : job'[x] = job[x] \/ job'[x] = Idle
  PROVE  \A x \in Replica : StepFits(x)' /\ StepSafe(x)'
BY OthersKeep, IdleKeeps

\* What every step keeps, whichever state the run began in.
LEMMA NextKeeps ==
  ASSUME TypeOK, RevisionsExist, \A x \in Replica : StepFits(x) /\ StepSafe(x),
         [Next]_vars
  PROVE  /\ TypeOK' /\ RevisionsExist' /\ Grows
         /\ \A x \in Replica : StepFits(x)' /\ StepSafe(x)'
<1>1. TypeOK'
  BY NextTypeOK
<1>2. ASSUME UNCHANGED <<log, mapping, index, marker>> PROVE Grows
  <2>1. \A k \in Key : Len(log[k]) \in Nat
    BY DEF TypeOK, QueuesTypeOK
  <2>2. \A v \in Vote : EverOpen(v) => EverOpen(v)'
    BY <1>2 DEF EverOpen
  <2> QED BY <1>2, <2>1, <2>2 DEF Grows
<1>3. ASSUME NEW k \in Key, NEW e \in Entry, Write(k, e)
      PROVE  Grows /\ RevisionsExist' /\ job' = job
  <2>1. Supersede(k, e) /\ UNCHANGED <<buf, job, closing, mapping, marker, index>>
    BY <1>3 DEF Write, tracking, sinks
  <2> QED BY <2>1, WriteGrows, WriteRevisions
<1>4. ASSUME NEW k \in Key, Expire(k) PROVE Grows /\ RevisionsExist' /\ job' = job
  BY <1>2, <1>4, ExpireRevisions DEF Expire, tracking, sinks
<1>5. ASSUME NEW w \in Replica, NEW k \in Key, Deliver(w, k)
      PROVE  Grows /\ RevisionsExist' /\ job' = job
  BY <1>2, <1>5, DeliverRevisions DEF Deliver, tracking, sinks
<1>6. ASSUME NEW w \in Replica, Stops(w)
      PROVE  Grows /\ RevisionsExist' /\ \A x \in Replica : job'[x] = job[x] \/ job'[x] = Idle
  BY <1>2, <1>6, StopsQueues, StopsRevisions DEF TypeOK, stream, tracking, sinks
<1>7. CASE UNCHANGED vars
  <2>1. Grows
    BY <1>2, <1>7 DEF vars
  <2>2. RevisionsExist'
    BY <1>7 DEF vars, RevisionsExist
  <2> QED BY <1>1, <1>7, <2>1, <2>2, QuietHandlers DEF vars
<1>8. ASSUME NEW w \in Replica, Handle(w)
      PROVE  /\ Grows /\ RevisionsExist'
             /\ \A x \in Replica : StepFits(x)' /\ StepSafe(x)'
  <2>1. Grows /\ RevisionsExist'
    BY <1>8, HandleGrows, HandleRevisions
  <2>2. \A x \in Replica \ {w} : job'[x] = job[x]
    BY <1>8, HandleMovesOne
  <2>3. \A x \in Replica : StepFits(x)' /\ StepSafe(x)'
    BY <1>8, <2>1, <2>2, OthersKeep, HandleKeeps
  <2> QED BY <2>1, <2>3
<1> QED BY <1>1, <1>3, <1>4, <1>5, <1>6, <1>7, <1>8, QuietHandlers DEF Next

LEMMA NextInvariant == IInv /\ [Next]_vars => IInv'
<1> SUFFICES ASSUME IInv, [Next]_vars PROVE IInv'
  OBVIOUS
<1> DEFINE Safe == MappedIsIndexed /\ ParentIndexedFirst /\ BallotOnlyIfOpen /\ InviteComesLast
<1>1. /\ TypeOK' /\ RevisionsExist' /\ Grows
      /\ \A x \in Replica : StepFits(x)' /\ StepSafe(x)'
  BY NextKeeps DEF IInv
<1>2. ASSUME NEW w \in Replica, Handle(w) PROVE Safe'
  BY <1>2, HandleSafe
<1>3. ASSUME UNCHANGED <<mapping, marker, invited, index>> PROVE Safe'
  BY <1>1, <1>3, QuietKeeps
<1>4. UNCHANGED <<mapping, marker, invited, index>> \/ \E w \in Replica : Handle(w)
  BY StopsQueues DEF Next, Write, Expire, Deliver, vars, tracking, sinks, IInv, TypeOK
<1>5. Safe'
  BY <1>2, <1>3, <1>4
<1> QED BY <1>1, <1>5 DEF IInv

\* IInv holds in every reachable state, whatever the replicas, writes and faults.
THEOREM Invariant == Spec => []IInv
<1> QED BY InitInvariant, NextInvariant, PTL DEF Spec

\* Every variable keeps its type: no handler writes an effect from a revision
\* that does not exist, or to a sink its record's kind does not have.
THEOREM TypeCorrect == Spec => []TypeOK
<1>1. IInv => TypeOK
  BY DEF IInv
<1> QED BY <1>1, Invariant, PTL

\* With any number of replicas, a response or a result is never in the indexer
\* unless the indexer was told about its vote before.
THEOREM ParentsFirst == Spec => []ParentIndexedFirst
<1>1. IInv => ParentIndexedFirst
  BY DEF IInv
<1> QED BY <1>1, Invariant, PTL

\* No fault and no interleaving lets the ballot of a response be indexed beside
\* its voter while every record of its vote said, or left open, that the vote is
\* pseudo-anonymous.
THEOREM BallotsStaySecret == Spec => []BallotOnlyIfOpen
<1>1. IInv => BallotOnlyIfOpen
  BY DEF IInv
<1> QED BY <1>1, Invariant, PTL

\* An invite only ever follows the publication of the response and of its vote,
\* and leaves a marker behind, even if the replica dies right after.
THEOREM InvitesComeLast == Spec => []InviteComesLast
<1>1. IInv => InviteComesLast
  BY DEF IInv
<1> QED BY <1>1, Invariant, PTL
=============================================================================
