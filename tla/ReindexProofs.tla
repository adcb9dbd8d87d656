---------------------------- MODULE ReindexProofs ----------------------------
(***************************************************************************)
(* Proofs about the reindex tool beside any number of replicas: what it    *)
(* writes back is what was there, and the replicas take it for an update.  *)
(***************************************************************************)
EXTENDS Reindex, EventSyncProofs

USE DEF caches

-----------------------------------------------------------------------------
(* The service, with the tool standing still *)

Extends ==
  \A k \in Key : /\ Len(log[k]) <= Len(log'[k])
                 /\ \A i \in 1..Len(log[k]) : log'[k][i] = log[k][i]

LEMMA SupersedeExtends ==
  ASSUME TypeOK, NEW k \in Key, NEW e \in Entry, Supersede(k, e)
  PROVE  Extends
BY DEF Extends, Supersede, TypeOK, QueuesTypeOK

LEMMA SameLogExtends ==
  ASSUME TypeOK, log' = log
  PROVE  Extends
<1>1. \A k \in Key : Len(log[k]) \in Nat
  BY DEF TypeOK, QueuesTypeOK
<1> QED BY <1>1 DEF Extends

LEMMA HandleLog ==
  ASSUME TypeOK, RevisionsExist, NEW w \in Replica, Handle(w)
  PROVE  log' = log
<1>1. CASE Receive(w)
  BY <1>1 DEF Receive
<1>2. CASE ~Receive(w)
  BY <1>2, HandleContinues DEF Continues
<1> QED BY <1>1, <1>2

LEMMA NextExtends ==
  ASSUME TypeOK, RevisionsExist, [Next]_vars
  PROVE  Extends
<1>1. ASSUME NEW k \in Key, NEW e \in Entry, Write(k, e) PROVE Extends
  BY <1>1, SupersedeExtends DEF Write
<1>2. ASSUME NEW w \in Replica, Handle(w) PROVE Extends
  BY <1>2, HandleLog, SameLogExtends
<1>3. ASSUME ~ \E k \in Key : \E e \in Entry : Write(k, e),
             ~ \E w \in Replica : Handle(w)
      PROVE  log' = log
  BY <1>3, StopsQueues DEF Next, Expire, Deliver, vars, stream, TypeOK
<1> QED BY <1>1, <1>2, <1>3, SameLogExtends

\* A step of a handler keeps its job's key and revision, or ends it, and its
\* action too once it is known.
LEMMA HandleAction ==
  ASSUME TypeOK, RevisionsExist, NEW w \in Replica, StepFits(w), Handle(w),
         ~Receive(w), job'[w] # Idle
  PROVE  /\ job'[w].key = job[w].key /\ job'[w].rev = job[w].rev
         /\ \/ job'[w].pc \in {"parent", "privacy", "lookup"}
            \/ LookupAction(w)
            \/ Dedupe(w)
            \/ /\ job[w].pc \notin {"idle", "convert", "parent", "privacy", "lookup", "dedupe"}
               /\ job'[w].pc # "dedupe"
               /\ job'[w].act = job[w].act
<1> USE BusyAt, GotoJob DEF Steps
<1>0. QueuesTypeOK
  BY DEF TypeOK
<1>1. job[w] \in Job /\ Continues(w)
  BY HandleContinues
<1>2. job'[w].key = job[w].key /\ job'[w].rev = job[w].rev
  BY <1>1 DEF Continues
<1>3. ~Ack(w) /\ ~Nak(w)
  BY <1>0 DEF Ack, Nak, QueuesTypeOK
<1>4. CASE ConvertVote(w) \/ ConvertResponse(w) \/ ConvertResult(w)
  BY <1>1, <1>2, <1>3, <1>4 DEF ConvertVote, ConvertResponse, ConvertResult
<1>5. CASE ResponseParent(w) \/ ResultParent(w)
  BY <1>1, <1>2, <1>3, <1>5 DEF ResponseParent, ResultParent
<1>6. CASE ReadPrivacy(w)
  BY <1>0, <1>1, <1>2, <1>3, <1>6 DEF ReadPrivacy, QueuesTypeOK, Job
<1>7. CASE PublishIndex(w)
  BY <1>1, <1>2, <1>3, <1>7 DEF PublishIndex, PublishFails, At
<1>8. CASE VoteAccess(w) \/ ResponseAccess(w)
  BY <1>1, <1>2, <1>3, <1>8 DEF VoteAccess, ResponseAccess, PublishFails, At
<1>9. CASE Participant(w) \/ StoreMapping(w)
  BY <1>1, <1>2, <1>3, <1>9 DEF Participant, StoreMapping, PublishFails, At
<1>10. CASE Done(w)
  BY <1>3, <1>10 DEF Done
<1>11. CASE CheckMarker(w) \/ ResolveInvitee(w)
  BY <1>1, <1>2, <1>3, <1>11 DEF CheckMarker, ResolveInvitee, At
<1>12. CASE MarkPending(w) \/ SendInvite(w)
  BY <1>1, <1>2, <1>3, <1>12 DEF MarkPending, SendInvite, At
<1> QED BY <1>2, <1>4, <1>5, <1>6, <1>7, <1>8, <1>9, <1>10, <1>11, <1>12 DEF Handle

\* The handler of a replayed record finds its mapping and takes it for an update.
LEMMA HandleReplayed ==
  ASSUME MappingsRead,
         TypeOK, RevisionsExist, ReplaysExist, NEW w \in Replica, StepFits(w),
         ReplayedAsUpdate(w), Handle(w), replays' = replays
  PROVE  ReplayedAsUpdate(w)'
<1>0. QueuesTypeOK
  BY DEF TypeOK
<1>1. CASE job'[w] = Idle
  BY <1>1 DEF ReplayedAsUpdate, Idle
<1>2. CASE Receive(w) /\ job'[w] # Idle
  <2> DEFINE d == Head(buf[w])
  <2>1. d \in Delivery
    BY <1>0, <1>2 DEF Receive, QueuesTypeOK
  <2>2. /\ job'[w].pc = IF log[d.key][d.rev].op = "put" THEN "convert" ELSE "dedupe"
        /\ job'[w].key = d.key /\ job'[w].rev = d.rev
    BY <1>0, <1>2 DEF Receive, QueuesTypeOK
  <2>3. d.rev \in 1..Len(log[d.key])
    <3>1. Len(buf[w]) > 0 /\ d = buf[w][1]
      BY <1>0, <1>2 DEF Receive, QueuesTypeOK
    <3>2. Len(buf[w]) \in Nat
      BY <1>0 DEF QueuesTypeOK
    <3> QED BY <3>1, <3>2 DEF RevisionsExist
  <2>4. (d.key \in Response /\ d.rev = replays[d.key]) => log[d.key][d.rev].op = "put"
    <3>1. d.key \in Key /\ Len(log[d.key]) \in Nat
      BY <1>0, <2>1 DEF QueuesTypeOK, Delivery
    <3> QED BY <2>3, <3>1 DEF ReplaysExist
  <2> QED BY <2>2, <2>4 DEF ReplayedAsUpdate, KeyOf
<1>3. CASE ~Receive(w) /\ job'[w] # Idle
  <2>1. job'[w].key = job[w].key /\ job'[w].rev = job[w].rev
    BY <1>3, HandleAction
  <2>2. CASE job'[w].pc \in {"parent", "privacy", "lookup"}
    BY <2>2 DEF ReplayedAsUpdate
  <2>3. CASE LookupAction(w)
    <3>1. job[w] \in Job /\ job[w].rev \in 1..Len(log[KeyOf(w)])
          /\ KeyOf(w) \in Key /\ Len(log[KeyOf(w)]) \in Nat
      BY <1>0, <2>3, BusyAt, BusyRevision DEF LookupAction, Steps
    <3>2. ASSUME KeyOf(w) \in Response, job[w].rev = replays[KeyOf(w)]
          PROVE  mapping[KeyOf(w)] \in UpdateMark(KeyOf(w))
      <4>1. mapping[KeyOf(w)] # "none"
        BY <3>1, <3>2 DEF ReplaysExist
      <4>2. mapping[KeyOf(w)] \in {"none", "live", "tomb"}
        BY <3>1 DEF TypeOK, EffectsTypeOK
      <4>3. KeyOf(w) \notin Result
        BY <3>2, KeysAssumption
      <4> QED BY <4>1, <4>2, <4>3 DEF UpdateMark
    <3>3. \E act \in {"created", "updated"} :
            /\ act = "created" => mapping[KeyOf(w)] \notin UpdateMark(KeyOf(w))
            /\ job'[w].pc = "index" /\ job'[w].act = act
      BY <1>0, <2>3, <3>1 DEF LookupAction, CallFails, MappingsRead, QueuesTypeOK, Job
    <3> QED BY <2>1, <3>2, <3>3 DEF ReplayedAsUpdate, KeyOf
  <2>4. CASE Dedupe(w)
    BY <2>1, <2>4 DEF Dedupe, At, ReplayedAsUpdate, KeyOf
  <2>5. CASE /\ job[w].pc \notin {"idle", "convert", "parent", "privacy", "lookup", "dedupe"}
             /\ job'[w].pc # "dedupe"
             /\ job'[w].act = job[w].act
    BY <2>1, <2>5 DEF ReplayedAsUpdate, KeyOf
  <2> QED BY <1>3, <2>2, <2>3, <2>4, <2>5, HandleAction
<1> QED BY <1>1, <1>2, <1>3

\* What a handler publishes to the indexer is the revision and action of its job.
LEMMA HandleIndex ==
  ASSUME TypeOK, RevisionsExist, NEW w \in Replica, Handle(w)
  PROVE  \A k \in Key :
           \/ index'[k] = index[k]
           \/ /\ k = KeyOf(w) /\ job[w] \in Job /\ job[w].pc = "index"
              /\ index'[k].rev = job[w].rev /\ index'[k].act = job[w].act
<1>1. CASE PublishIndex(w)
  <2>1. job[w] \in Job
    BY <1>1, BusyAt DEF PublishIndex, Steps, TypeOK
  <2> QED BY <1>1, <2>1 DEF PublishIndex, PublishFails, At, sinks, TypeOK, EffectsTypeOK
<1>2. CASE ~PublishIndex(w)
  BY <1>2 DEF Handle, Receive, ConvertVote, ConvertResponse, ConvertResult,
              ResponseParent, ResultParent, ReadPrivacy, LookupAction, Dedupe,
              VoteAccess, ResponseAccess, Participant, PublishFails, StoreMapping,
              Done, CheckMarker, ResolveInvitee, MarkPending, SendInvite, sinks
<1> QED BY <1>1, <1>2

\* The tool's own variables stand still: what they say of the rest stays true.
LEMMA HistoryKeeps ==
  ASSUME TypeOK, ToolTypeOK, Extends, Grows,
         InHand, MappedBeforeReplay, ReplaysExist, ReplayKeepsRecord,
         UNCHANGED <<tool, replays>>
  PROVE  (InHand /\ MappedBeforeReplay /\ ReplaysExist /\ ReplayKeepsRecord)'
<1>1. \A k \in Key : Len(log[k]) \in Nat
  BY DEF TypeOK, QueuesTypeOK
<1>2. \A r \in Response : r \in Key
  BY DEF Key, Child
<1>3. InHand'
  BY <1>1, <1>2 DEF InHand, Extends
<1>4. MappedBeforeReplay'
  BY <1>2 DEF MappedBeforeReplay, InHand, Grows
<1>5. \A r \in Response : replays[r] # 0 =>
        /\ replays[r] \in 1..Len(log[r]) /\ replays[r] - 1 \in 1..Len(log[r])
  BY <1>1, <1>2 DEF ReplaysExist
<1>6. ReplaysExist'
  BY <1>1, <1>2, <1>5 DEF ReplaysExist, Extends, Grows
<1>7. ReplayKeepsRecord'
  BY <1>2, <1>5 DEF ReplayKeepsRecord, Extends
<1> QED BY <1>3, <1>4, <1>6, <1>7

LEMMA ServiceInvariant ==
  ASSUME ReindexInv, [Next]_vars, UNCHANGED toolVars
  PROVE  ReindexInv'
<1>1. /\ TypeOK /\ ToolTypeOK /\ RevisionsExist
      /\ \A w \in Replica : StepFits(w) /\ StepSafe(w)
  BY DEF ReindexInv
<1>2. UNCHANGED <<tool, replays>>
  BY DEF toolVars
<1>3. /\ TypeOK' /\ RevisionsExist' /\ Grows
      /\ \A w \in Replica : StepFits(w)' /\ StepSafe(w)'
  BY <1>1, NextKeeps
<1>4. Extends
  BY <1>1, NextExtends
<1>5. ToolTypeOK'
  BY <1>1 DEF ToolTypeOK, toolVars
<1>6. (InHand /\ MappedBeforeReplay /\ ReplaysExist /\ ReplayKeepsRecord)'
  BY <1>1, <1>2, <1>3, <1>4, HistoryKeeps DEF ReindexInv
<1>7. CASE \E w \in Replica : Handle(w)
  <2> PICK w \in Replica : Handle(w)
    BY <1>7
  <2>1. \A x \in Replica \ {w} : job'[x] = job[x]
    BY <1>1, HandleMovesOne
  <2>2. ASSUME MappingsRead PROVE \A x \in Replica : ReplayedAsUpdate(x)'
    <3>1. ReplayedAsUpdate(w)'
      BY <1>1, <1>2, <2>2, HandleReplayed DEF ReindexInv
    <3>2. ASSUME NEW x \in Replica \ {w} PROVE ReplayedAsUpdate(x)'
      <4>1. ReplayedAsUpdate(x)
        BY <2>2 DEF ReindexInv
      <4> QED BY <1>2, <2>1, <4>1 DEF ReplayedAsUpdate, KeyOf
    <3> QED BY <3>1, <3>2
  <2>3. \A k \in Key :
          \/ index'[k] = index[k]
          \/ /\ k = KeyOf(w) /\ job[w] \in Job /\ job[w].pc = "index"
             /\ index'[k].rev = job[w].rev /\ index'[k].act = job[w].act
    BY <1>1, HandleIndex
  <2>4. job[w] \in Job => /\ job[w].rev \in 1..Len(log[KeyOf(w)])
                          /\ KeyOf(w) \in Key /\ Len(log[KeyOf(w)]) \in Nat
    BY <1>1, BusyRevision
  <2>5. log' = log
    BY <1>1, HandleLog
  <2>6. \A r \in Response : r \in Key
    BY DEF Key, Child
  <2>7. IndexedExist'
    BY <2>3, <2>4, <2>5, <2>6 DEF ReindexInv, IndexedExist
  <2>8. ASSUME MappingsRead PROVE ReplayIsUpdate'
    <3>1. ReplayIsUpdate /\ ReplayedAsUpdate(w)
      BY <2>8 DEF ReindexInv
    <3> QED BY <1>2, <2>3, <2>6, <3>1 DEF ReplayIsUpdate, ReplayedAsUpdate
  <2> QED BY <1>3, <1>5, <1>6, <2>2, <2>7, <2>8 DEF ReindexInv
<1>8. CASE ~ \E w \in Replica : Handle(w)
  <2>1. index' = index /\ \A x \in Replica : job'[x] = job[x] \/ job'[x] = Idle
    BY <1>1, <1>8, StopsQueues, StopsRevisions DEF Next, Write, Expire, Deliver, vars,
       sinks, TypeOK
  <2>2. ASSUME MappingsRead PROVE \A x \in Replica : ReplayedAsUpdate(x)'
    <3>1. \A x \in Replica : ReplayedAsUpdate(x)
      BY <2>2 DEF ReindexInv
    <3> QED BY <1>2, <2>1, <3>1 DEF ReplayedAsUpdate, KeyOf, Idle
  <2>3. ASSUME MappingsRead PROVE ReplayIsUpdate'
    BY <1>2, <2>1, <2>3 DEF ReindexInv, ReplayIsUpdate
  <2>4. IndexedExist'
    <3>1. \A r \in Response : /\ r \in Key /\ Len(log[r]) \in Nat /\ Len(log'[r]) \in Nat
                             /\ index[r].rev \in Nat
      BY <1>1, <1>3 DEF Key, Child, TypeOK, QueuesTypeOK, EffectsTypeOK
    <3> QED BY <1>4, <2>1, <3>1 DEF ReindexInv, IndexedExist, Extends
  <2> QED BY <1>3, <1>5, <1>6, <2>2, <2>3, <2>4 DEF ReindexInv
<1> QED BY <1>7, <1>8

-----------------------------------------------------------------------------
(* The tool *)

\* Steps that write nothing back: only the run itself moves.
LEMMA ToolMoves ==
  ASSUME ReindexInv, UNCHANGED vars, UNCHANGED replays,
         ToolTypeOK', InHand', MappedBeforeReplay'
  PROVE  ReindexInv'
<1>1. UNCHANGED <<log, cons, buf, job, closing, mapping, marker, invited, index, access, grants>>
  BY DEF vars
<1>2. TypeOK' /\ RevisionsExist'
  BY <1>1 DEF ReindexInv, TypeOK, QueuesTypeOK, EffectsTypeOK, RevisionsExist
<1>3. \A w \in Replica : StepFits(w)' /\ StepSafe(w)'
  BY <1>1 DEF ReindexInv, StepFits, StepSafe, KeyOf, EverOpen
<1>4. (ReplaysExist /\ IndexedExist /\ ReplayKeepsRecord)'
  BY <1>1 DEF ReindexInv, ReplaysExist, IndexedExist, ReplayKeepsRecord
<1>5. ReplayIsUpdate => ReplayIsUpdate'
  BY <1>1 DEF ReplayIsUpdate
<1>6. (\A w \in Replica : ReplayedAsUpdate(w)) => \A w \in Replica : ReplayedAsUpdate(w)'
  BY <1>1 DEF ReplayedAsUpdate, KeyOf
<1> QED BY <1>2, <1>3, <1>4, <1>5, <1>6 DEF ReindexInv

LEMMA CountTypes ==
  ASSUME ToolTypeOK, NEW r \in Response, NEW what \in Outcomes, Count(r, what)
  PROVE  /\ outcome' \in [Response -> Outcomes]
         /\ tool' \in [pc: ToolSteps, mode: Options, id: Response \cup {NoneInHand}, rev: Nat, copies: SUBSET Copied]
         /\ tool'.pc = "scan"
BY DEF ToolTypeOK, Count, PutDown, ToolSteps

LEMMA GotoTypes ==
  ASSUME ToolTypeOK, NEW pc \in ToolSteps, ToolGoto(pc)
  PROVE  /\ tool' \in [pc: ToolSteps, mode: Options, id: Response \cup {NoneInHand}, rev: Nat, copies: SUBSET Copied]
         /\ tool'.pc = pc /\ tool'.id = tool.id /\ tool'.rev = tool.rev
BY DEF ToolTypeOK, ToolGoto

\* What was put back is the newest revision, equal to the one before, and no
\* replica and no sink knows of it yet.
LEMMA PutBackInvariant ==
  ASSUME ReindexInv, tool.pc = "replay", NEW r, r = tool.id,
         Unmodified(r), PutBack(r), ToolTypeOK', tool'.pc = "scan",
         UNCHANGED <<buf, job, closing, mapping, marker, invited, index, access, grants>>
  PROVE  ReindexInv'
<1> DEFINE n == Len(log[r])
           e == log[r][tool.rev]
<1>1. /\ TypeOK /\ ToolTypeOK /\ RevisionsExist
      /\ \A w \in Replica : StepFits(w) /\ StepSafe(w)
  BY DEF ReindexInv
<1>2. r \in Response /\ r \in Key /\ log[r] \in Seq(Entry) /\ n \in Nat
      /\ tool.rev = n /\ n \in 1..n /\ e.op = "put" /\ mapping[r] # "none"
  <2>1. r \in Response /\ tool.rev \in 1..Len(log[r]) /\ e.op = "put"
    BY DEF ReindexInv, InHand
  <2>2. mapping[r] # "none"
    BY DEF ReindexInv, MappedBeforeReplay
  <2>3. r \in Key
    BY <2>1 DEF Key, Child
  <2>4. log[r] \in Seq(Entry) /\ n \in Nat
    BY <1>1, <2>3 DEF TypeOK, QueuesTypeOK
  <2>5. tool.rev = n
    BY DEF Unmodified
  <2> QED BY <2>1, <2>2, <2>3, <2>4, <2>5
<1>3. e \in Entry
  BY <1>2
<1>4. Supersede(r, e)
  BY DEF PutBack
<1>5. log' \in [Key -> Seq(Entry)] /\ log'[r] = Append(log[r], e)
      /\ \A k \in Key \ {r} : log'[k] = log[k]
  BY <1>1, <1>2, <1>3, <1>4 DEF Supersede, TypeOK, QueuesTypeOK
<1>6. Len(log'[r]) = n + 1 /\ log'[r][n] = e /\ log'[r][n + 1] = e
  BY <1>2, <1>5
<1>7. Extends /\ Grows /\ RevisionsExist'
  BY <1>1, <1>2, <1>3, <1>4, SupersedeExtends, WriteGrows, WriteRevisions
<1>8. TypeOK'
  <2>1. QueuesTypeOK'
    BY <1>1, <1>2, <1>3, <1>4, WriteQueues DEF TypeOK
  <2> QED BY <1>1, <2>1 DEF TypeOK, EffectsTypeOK
<1>9. replays' = [replays EXCEPT ![r] = n + 1] /\ replays \in [Response -> Nat]
  <2>1. replays \in [Response -> Nat]
    BY <1>1 DEF ToolTypeOK
  <2> QED BY <2>1 DEF PutBack
<1>10. \A x \in Response \ {r} : replays'[x] = replays[x]
  BY <1>9
<1>11. replays'[r] = n + 1 /\ n + 1 \in 2..Len(log'[r])
  BY <1>2, <1>6, <1>9
<1>12. \A x \in Replica : StepFits(x)' /\ StepSafe(x)'
  BY <1>1, <1>7, OthersKeep
<1>13. ASSUME MappingsRead PROVE \A x \in Replica : ReplayedAsUpdate(x)'
  <2>0. ASSUME NEW x \in Replica, job[x] = Idle PROVE ReplayedAsUpdate(x)'
    BY <2>0 DEF ReplayedAsUpdate, Idle
  <2> SUFFICES ASSUME NEW x \in Replica, job[x] \in Job
               PROVE  ReplayedAsUpdate(x)'
    BY <1>1, <2>0 DEF TypeOK, QueuesTypeOK
  <2>1. job[x].rev \in 1..Len(log[KeyOf(x)]) /\ KeyOf(x)' = KeyOf(x) /\ KeyOf(x) = job[x].key
        /\ ReplayedAsUpdate(x)
    BY <1>1, <1>13, BusyRevision DEF KeyOf, ReindexInv
  <2>2. CASE KeyOf(x) = r
    BY <1>2, <1>11, <2>1, <2>2 DEF ReplayedAsUpdate
  <2>3. CASE KeyOf(x) # r
    BY <1>1, <1>10, <2>1, <2>3 DEF ReplayedAsUpdate
  <2> QED BY <2>2, <2>3
<1>14. \A x \in Response : x \in Key /\ Len(log[x]) \in Nat /\ index[x].rev \in Nat
                          /\ index[x].rev <= Len(log[x])
  BY <1>1 DEF ReindexInv, IndexedExist, TypeOK, QueuesTypeOK, EffectsTypeOK, Key, Child
<1>15. IndexedExist'
  BY <1>5, <1>6, <1>14 DEF IndexedExist
<1>16. ReplayIsUpdate => ReplayIsUpdate'
  BY <1>10, <1>11, <1>14 DEF ReplayIsUpdate
<1>17. ReplaysExist'
  <2>1. /\ replays'[r] \in 2..Len(log'[r]) /\ log'[r][replays'[r]].op = "put"
        /\ mapping'[r] # "none"
    BY <1>2, <1>6, <1>11
  <2>2. ASSUME NEW x \in Response \ {r}, replays'[x] # 0
        PROVE  /\ replays'[x] \in 2..Len(log'[x]) /\ log'[x][replays'[x]].op = "put"
               /\ mapping'[x] # "none"
    <3>1. log'[x] = log[x] /\ replays'[x] = replays[x]
      BY <1>5, <1>10, <1>14
    <3>2. ReplaysExist
      BY DEF ReindexInv
    <3> QED BY <2>2, <3>1, <3>2 DEF ReplaysExist
  <2> HIDE DEF n, e
  <2> QED BY <2>1, <2>2 DEF ReplaysExist
<1>18. ReplayKeepsRecord'
  <2>1. log'[r][replays'[r]] = log'[r][replays'[r] - 1]
    <3>1. replays'[r] - 1 = n
      BY <1>2, <1>11
    <3> QED BY <1>6, <1>11, <3>1
  <2>2. ASSUME NEW x \in Response \ {r}, replays'[x] # 0
        PROVE  log'[x][replays'[x]] = log'[x][replays'[x] - 1]
    <3>1. log'[x] = log[x] /\ replays'[x] = replays[x]
      BY <1>5, <1>10, <1>14
    <3> QED BY <2>2, <3>1 DEF ReindexInv, ReplayKeepsRecord
  <2> QED BY <2>1, <2>2 DEF ReplayKeepsRecord
<1>19. InHand' /\ MappedBeforeReplay'
  BY DEF InHand, MappedBeforeReplay
<1> QED BY <1>7, <1>8, <1>12, <1>13, <1>15, <1>16, <1>17, <1>18, <1>19 DEF ReindexInv

LEMMA ReplayInvariant ==
  ASSUME ReindexInv, ReplayRecord
  PROVE  ReindexInv'
<1> DEFINE r == tool.id
<1>1. ToolTypeOK /\ r \in Response /\ tool.pc = "replay" /\ tool.rev \in Nat
  BY DEF ReindexInv, ReplayRecord, ToolAt, InHand, ToolTypeOK
<1>2. UNCHANGED <<buf, job, closing, mapping, marker, invited, index, access, grants, scroll, parentOK, pseudoOK, asked>>
  BY DEF ReplayRecord, tracking, sinks
<1>3. PICK what \in {"replayed", "conflict", "failed"} : Count(r, what)
  BY DEF ReplayRecord
<1>4. /\ outcome' \in [Response -> Outcomes] /\ tool'.pc = "scan"
      /\ tool' \in [pc: ToolSteps, mode: Options, id: Response \cup {NoneInHand}, rev: Nat, copies: SUBSET Copied]
  BY <1>1, <1>3, CountTypes DEF Outcomes
<1>5. \/ Unmodified(r) /\ PutBack(r)
      \/ UNCHANGED <<log, cons, replays>>
  BY DEF ReplayRecord, stream
<1>6. ASSUME replays' \in [Response -> Nat] PROVE ToolTypeOK'
  BY <1>1, <1>2, <1>4, <1>6 DEF ToolTypeOK
<1>7. CASE Unmodified(r) /\ PutBack(r)
  <2>1. replays' \in [Response -> Nat]
    BY <1>1, <1>7 DEF ToolTypeOK, PutBack, Unmodified
  <2> QED BY <1>1, <1>2, <1>4, <1>6, <1>7, <2>1, PutBackInvariant
<1>8. CASE UNCHANGED <<log, cons, replays>>
  <2>1. ToolTypeOK'
    BY <1>1, <1>6, <1>8 DEF ToolTypeOK
  <2>2. InHand' /\ MappedBeforeReplay'
    BY <1>4 DEF InHand, MappedBeforeReplay
  <2>3. UNCHANGED vars
    BY <1>2, <1>8 DEF vars
  <2> QED BY <1>8, <2>1, <2>2, <2>3, ToolMoves
<1> QED BY <1>5, <1>7, <1>8

\* Every other step of the run. The record and the mapping that were read are
\* what InHand and MappedBeforeReplay remember.
LEMMA RunInvariant ==
  ASSUME ReindexInv, Run \/ Abort, ~ReplayRecord
  PROVE  ReindexInv'
<1> USE DEF ToolSteps
<1>1. TypeOK /\ ToolTypeOK
  BY DEF ReindexInv
<1>2. UNCHANGED vars /\ UNCHANGED replays
  BY DEF Run, Abort, Start, Pick, Finish, Process, ReadRecord, ReadMapping,
         ParentMapped, ParentPseudoAnonymous
<1>3. UNCHANGED <<log, mapping>>
  BY <1>2 DEF vars
<1>4. SUFFICES (ToolTypeOK /\ InHand /\ MappedBeforeReplay)'
  BY <1>2, ToolMoves
<1> DEFINE Moved(pc) ==
     /\ tool' \in [pc: ToolSteps, mode: Options, id: Response \cup {NoneInHand}, rev: Nat, copies: SUBSET Copied]
     /\ tool'.pc = pc
<1>5. ASSUME NEW pc \in {"scan", "finished", "aborted"}, Moved(pc)
      PROVE  InHand' /\ MappedBeforeReplay'
  BY <1>5 DEF InHand, MappedBeforeReplay
<1>6. CASE Start
  <2>1. Documents \subseteq Hit
    BY DEF Documents
  <2>2. Moved("scan") \/ Moved("aborted")
    BY <1>1, <1>6, GotoTypes DEF Start
  <2> QED BY <1>1, <1>2, <1>5, <1>6, <2>1, <2>2 DEF Start, ToolTypeOK
<1>7. ASSUME NEW h \in scroll, Pick(h)
      PROVE  (ToolTypeOK /\ InHand /\ MappedBeforeReplay)'
  <2>1. h.id \in Response /\ tool.pc = "scan"
    BY <1>1, <1>7 DEF ToolTypeOK, Hit, Pick, ToolAt
  <2>2. /\ outcome' \in [Response -> Outcomes]
        /\ \/ Moved("scan") \/ Moved("aborted")
           \/ Moved("read") /\ tool'.id \in Response
    <3>1. CASE ToolGoto("aborted") /\ UNCHANGED outcome
      BY <1>1, <3>1, GotoTypes DEF ToolTypeOK
    <3>2. CASE UNCHANGED <<tool, outcome>>
      BY <1>1, <2>1, <3>2 DEF ToolTypeOK
    <3>3. CASE Count(h.id, "reindexed") \/ Count(h.id, "other")
      BY <1>1, <2>1, <3>3, CountTypes DEF Outcomes, Skips
    <3>4. CASE tool' = [tool EXCEPT !.pc = "read", !.id = h.id] /\ UNCHANGED outcome
      BY <1>1, <2>1, <3>4 DEF ToolTypeOK
    <3> QED BY <1>7, <3>1, <3>2, <3>3, <3>4 DEF Pick
  <2>3. (Moved("read") /\ tool'.id \in Response) => InHand' /\ MappedBeforeReplay'
    BY DEF InHand, MappedBeforeReplay
  <2> QED BY <1>1, <1>2, <1>5, <1>7, <2>2, <2>3 DEF Pick, ToolTypeOK
<1>8. CASE Finish
  <2>1. Moved("finished") \/ Moved("aborted")
    BY <1>1, <1>8, GotoTypes DEF Finish
  <2> QED BY <1>1, <1>5, <1>8, <2>1 DEF Finish, ToolTypeOK
<1>9. CASE Abort
  <2>1. Moved("aborted")
    BY <1>1, <1>9 DEF Abort, PutDown, ToolTypeOK
  <2> QED BY <1>1, <1>5, <1>9, <2>1 DEF Abort, ToolTypeOK
\* A response that is counted is put down; one that goes on stays in hand.
<1> DEFINE r == tool.id
<1>10. ASSUME NEW what \in Outcomes, Count(r, what), r \in Response,
              UNCHANGED scroll, parentOK' \in [Vote -> Cached],
              pseudoOK' \in [Vote -> Cached], asked' \in [Vote -> Nat]
       PROVE  (ToolTypeOK /\ InHand /\ MappedBeforeReplay)'
  <2>1. outcome' \in [Response -> Outcomes] /\ Moved("scan")
    BY <1>1, <1>10, CountTypes
  <2> QED BY <1>1, <1>2, <1>5, <1>10, <2>1 DEF ToolTypeOK
<1>11. CASE ReadRecord
  <2>0. r \in Response
    BY <1>11 DEF ReindexInv, InHand, ReadRecord, ToolAt
  <2>1. CASE \E what \in {"notfound", "undecodable", "deleted"} : Count(r, what)
    BY <1>1, <1>10, <1>11, <2>0, <2>1 DEF ReadRecord, ToolTypeOK, Outcomes, Skips
  <2>2. CASE /\ Decodes(r) /\ Stored(r).op # "soft"
             /\ tool' = [tool EXCEPT !.pc = "mapping", !.rev = Len(log[r])]
             /\ UNCHANGED outcome
    <3>1. r \in Key /\ log[r] \in Seq(Entry) /\ Len(log[r]) \in Nat
      BY <1>1, <2>0 DEF Key, Child, TypeOK, QueuesTypeOK
    <3>2. Len(log[r]) \in 1..Len(log[r]) /\ log[r][Len(log[r])] \in Entry
      BY <2>2, <3>1 DEF Decodes, Found
    <3>3. log[r][Len(log[r])].op = "put"
      <4>1. log[r][Len(log[r])].op \in OpKinds
        BY <3>2 DEF Entry
      <4> QED BY <2>2, <4>1 DEF Decodes, Found, Stored, OpKinds
    <3>4. Moved("mapping") /\ tool'.id = r /\ tool'.rev = Len(log[r])
      <4>1. tool \in [pc: ToolSteps, mode: Options, id: Response \cup {NoneInHand}, rev: Nat, copies: SUBSET Copied]
        BY <1>1 DEF ToolTypeOK
      <4> QED BY <2>2, <3>1, <4>1
    <3>5. InHand' /\ MappedBeforeReplay'
      BY <1>3, <2>0, <3>2, <3>3, <3>4 DEF InHand, MappedBeforeReplay
    <3> QED BY <1>1, <1>2, <1>11, <2>2, <3>4, <3>5 DEF ReadRecord, ToolTypeOK
  <2> QED BY <1>11, <2>1, <2>2 DEF ReadRecord
<1>12. ASSUME NEW pc \in {"parent", "privacy", "replay"}, ToolGoto(pc), UNCHANGED outcome,
              tool.pc \in {"mapping", "parent", "privacy"}, mapping[r] # "none",
              UNCHANGED scroll, parentOK' \in [Vote -> Cached],
              pseudoOK' \in [Vote -> Cached], asked' \in [Vote -> Nat]
       PROVE  (ToolTypeOK /\ InHand /\ MappedBeforeReplay)'
  <2>1. Moved(pc) /\ tool'.id = tool.id /\ tool'.rev = tool.rev
    BY <1>1, <1>12, GotoTypes
  <2>2. r \in Response /\ tool.rev \in 1..Len(log[r]) /\ log[r][tool.rev].op = "put"
    BY <1>12 DEF ReindexInv, InHand
  <2>3. InHand' /\ MappedBeforeReplay'
    BY <1>3, <1>12, <2>1, <2>2 DEF InHand, MappedBeforeReplay
  <2> QED BY <1>1, <1>2, <1>12, <2>1, <2>3 DEF ToolTypeOK
<1>13. CASE ReadMapping
  <2>1. r \in Response /\ tool.pc = "mapping"
    BY <1>13 DEF ReindexInv, InHand, ReadMapping, ToolAt
  <2>2. UNCHANGED <<scroll, parentOK, pseudoOK, asked>>
    BY <1>13 DEF ReadMapping
  <2>3. parentOK' \in [Vote -> Cached] /\ pseudoOK' \in [Vote -> Cached] /\ asked' \in [Vote -> Nat]
    BY <1>1, <2>2 DEF ToolTypeOK
  <2>4. \/ Count(r, "nomap") \/ Count(r, "tomb")
        \/ mapping[r] # "none" /\ ToolGoto("parent") /\ UNCHANGED outcome
    BY <1>13 DEF ReadMapping
  <2> QED BY <1>10, <1>12, <2>1, <2>2, <2>3, <2>4 DEF Outcomes, Skips
<1>14. ASSUME ParentMapped \/ ParentPseudoAnonymous
       PROVE  /\ r \in Response /\ tool.pc \in {"parent", "privacy"} /\ mapping[r] # "none"
              /\ ParentOf[r] \in Vote
  BY <1>14, KeysAssumption DEF ReindexInv, InHand, MappedBeforeReplay, ParentMapped,
     ParentPseudoAnonymous, ToolAt, Child
<1>15. CASE ParentMapped
  <2>1. UNCHANGED <<scroll, pseudoOK, asked>>
    BY <1>15 DEF ParentMapped
  <2>2. parentOK' \in [Vote -> Cached] /\ pseudoOK' \in [Vote -> Cached] /\ asked' \in [Vote -> Nat]
    BY <1>1, <1>14, <1>15, <2>1 DEF ToolTypeOK, ParentMapped, Cached
  <2>3. \/ Count(r, "noparent") \/ Count(r, "eligible")
        \/ ToolGoto("privacy") /\ UNCHANGED outcome
        \/ ToolGoto("replay") /\ UNCHANGED outcome
    BY <1>15 DEF ParentMapped, Eligible
  <2> QED BY <1>10, <1>12, <1>14, <1>15, <2>1, <2>2, <2>3 DEF Outcomes, Skips
<1>16. CASE ParentPseudoAnonymous
  <2>1. UNCHANGED <<scroll, parentOK>>
    BY <1>16 DEF ParentPseudoAnonymous
  <2>2. Len(log[ParentOf[r]]) \in Nat
    BY <1>1, <1>14, <1>16 DEF TypeOK, QueuesTypeOK, Key
  <2>3. parentOK' \in [Vote -> Cached] /\ pseudoOK' \in [Vote -> Cached] /\ asked' \in [Vote -> Nat]
    BY <1>1, <1>14, <1>16, <2>1, <2>2 DEF ToolTypeOK, ParentPseudoAnonymous, Cached
  <2>4. \/ Count(r, "named") \/ Count(r, "eligible")
        \/ ToolGoto("replay") /\ UNCHANGED outcome
    BY <1>16 DEF ParentPseudoAnonymous, Eligible
  <2> QED BY <1>10, <1>12, <1>14, <1>16, <2>1, <2>3, <2>4 DEF Outcomes, Skips
<1> QED BY <1>6, <1>7, <1>8, <1>9, <1>11, <1>13, <1>15, <1>16 DEF Run, Process

-----------------------------------------------------------------------------
(* The invariant *)

LEMMA ReindexInitInvariant == ReindexInit => ReindexInv
<1> SUFFICES ASSUME ReindexInit PROVE ReindexInv
  OBVIOUS
<1>1. log \in [Key -> Seq(Entry)] /\ \A k \in Key : Len(log[k]) \in Nat
      /\ (Synced(k) => Len(log[k]) = 1)
  <2>1. \A e \in Entry : <<e>> \in Seq(Entry) /\ Len(<<e>>) = 1
    OBVIOUS
  <2>2. <<>> \in Seq(Entry) /\ Len(<<>>) = 0
    OBVIOUS
  <2>3. log \in [Key -> {<<>>} \cup {<<e>> : e \in Entry}]
        /\ \A k \in Key : Synced(k) => log[k] # <<>>
    BY DEF ReindexInit
  <2>4. ASSUME NEW k \in Key
        PROVE  log[k] \in Seq(Entry) /\ Len(log[k]) \in Nat /\ (Synced(k) => Len(log[k]) = 1)
    <3>1. log[k] = <<>> \/ \E e \in Entry : log[k] = <<e>>
      BY <2>3
    <3> QED BY <2>1, <2>2, <2>3, <3>1
  <2> QED BY <2>3, <2>4
<1>2. Vote \subseteq Key /\ Response \subseteq Key /\ Indexed \subseteq Response
  BY ReindexAssumption DEF Key, Child
<1>3. TypeOK
  <2>1. QueuesTypeOK
    BY <1>1, BoundsAssumption DEF ReindexInit, QueuesTypeOK, Idle
  <2>2. EffectsTypeOK
    BY DEF ReindexInit, EffectsTypeOK, Actions
  <2> QED BY <2>1, <2>2 DEF TypeOK
<1>4. ToolTypeOK
  BY ReindexAssumption DEF ReindexInit, ToolTypeOK, ToolSteps, Outcomes, Cached
<1>5. \A w \in Replica : job[w] = Idle /\ buf[w] = <<>>
  BY DEF ReindexInit
<1>6. RevisionsExist
  <2>1. \A k \in Key : cons[k].st # "none" => Len(log[k]) > 0
    BY <1>1 DEF ReindexInit
  <2>2. \A w \in Replica : \A i \in 1..Len(buf[w]) : FALSE
    BY <1>5
  <2> QED BY <1>5, <2>1, <2>2 DEF RevisionsExist
<1>7. \A w \in Replica : StepFits(w) /\ StepSafe(w) /\ ReplayedAsUpdate(w)
  BY <1>5 DEF StepFits, StepSafe, ReplayedAsUpdate, Idle
<1>8. InHand /\ MappedBeforeReplay
  BY DEF ReindexInit, InHand, MappedBeforeReplay
<1>9. IndexedExist
  BY <1>1, <1>2 DEF ReindexInit, IndexedExist
<1>10. ReplaysExist /\ ReplayKeepsRecord /\ ReplayIsUpdate
  BY DEF ReindexInit, ReplaysExist, ReplayKeepsRecord, ReplayIsUpdate
<1> QED BY <1>3, <1>4, <1>6, <1>7, <1>8, <1>9, <1>10 DEF ReindexInv

LEMMA ReindexNextInvariant ==
  ASSUME ReindexInv, [ReindexNext]_allVars
  PROVE  ReindexInv'
<1>1. CASE Service \/ UNCHANGED allVars
  BY <1>1, ServiceInvariant DEF Service, allVars
<1>2. CASE ReplayRecord
  BY <1>2, ReplayInvariant
<1>3. CASE (Run \/ Abort) /\ ~ReplayRecord
  BY <1>3, RunInvariant
<1> QED BY <1>1, <1>2, <1>3 DEF ReindexNext

\* ReindexInv holds in every reachable state, whatever the replicas and faults.
THEOREM ReindexInvariant == ReindexSpec => []ReindexInv
<1>1. ReindexInv /\ [ReindexNext]_allVars => ReindexInv'
  BY ReindexNextInvariant
<1> QED BY <1>1, ReindexInitInvariant, PTL DEF ReindexSpec

\* The tool never overwrites what the upstream wrote since it read a record.
THEOREM ReplaysKeepRecords == ReindexSpec => []ReplayKeepsRecord
<1>1. ReindexInv => ReplayKeepsRecord
  BY DEF ReindexInv
<1> QED BY <1>1, ReindexInvariant, PTL

\* While the v1-mappings bucket can be read, which a handler in a shutdown cannot,
\* no replica, of any number and under any other fault, takes a replayed response
\* for a new one.
THEOREM ReplaysAreUpdates ==
  ASSUME MappingsRead
  PROVE  ReindexSpec => []ReplayIsUpdate
<1>1. ReindexInv => ReplayIsUpdate
  BY DEF ReindexInv
<1> QED BY <1>1, ReindexInvariant, PTL

-----------------------------------------------------------------------------
(* Copies: nothing a privacy pass counts has a second document in its scope *)

InPass(r) == tool.mode.only \in {AllVotes, ParentOf[r]}
Met(r) == (\E h \in scroll : h.id = r) \/ outcome[r] # "none" \/ tool.id = r
CopyAhead(r) == \E h \in scroll : h.id = r /\ h.copy

\* The copy of a response in the pass's scope that the scroll lists at all stays
\* ahead, since to take it ends the run, and a response out of scope is never
\* taken in hand.
CopyInv ==
  /\ ToolTypeOK
  /\ tool.pc = "off" => tool.id = NoneInHand /\ \A r \in Response : outcome[r] = "none"
  /\ (tool.pc \notin {"off", "aborted"} /\ tool.mode.pseudoOnly) =>
       /\ ~tool.mode.skipReindexed
       /\ tool.pc = "finished" => scroll = {}
       /\ \A r \in tool.copies :
            IF InPass(r) THEN Met(r) => CopyAhead(r)
                         ELSE outcome[r] \in {"none", "other"} /\ tool.id # r

\* A step that only moves the response in hand on, or puts it down counted, takes
\* up no other.
LEMMA CopyKept ==
  ASSUME CopyInv, ToolTypeOK',
         tool.pc \notin {"off", "aborted"}, tool'.pc # "off", scroll' = scroll,
         tool'.pc = "finished" => scroll = {},
         tool'.mode = tool.mode, tool'.copies = tool.copies,
         tool'.id \in {tool.id, NoneInHand},
         \A r \in Response : outcome'[r] = outcome[r] \/ r = tool.id
  PROVE  CopyInv'
<1>0. tool.copies \subseteq Response /\ NoneInHand \notin Response
  BY ReindexAssumption DEF CopyInv, ToolTypeOK
<1> SUFFICES ASSUME tool.mode.pseudoOnly, NEW r \in tool.copies
             PROVE  IF InPass(r) THEN Met(r)' => CopyAhead(r)
                    ELSE outcome'[r] \in {"none", "other"} /\ tool'.id # r
  BY DEF CopyInv, CopyAhead, InPass
<1>1. CASE InPass(r)
  <2>1. Met(r)' => Met(r)
    BY <1>0 DEF Met
  <2> QED BY <1>1, <2>1 DEF CopyInv
<1>2. CASE ~InPass(r)
  <2>1. outcome[r] \in {"none", "other"} /\ tool.id # r
    BY <1>2 DEF CopyInv
  <2> QED BY <1>0, <1>2, <2>1
<1> QED BY <1>1, <1>2

LEMMA StartCopies ==
  ASSUME CopyInv, ToolTypeOK', Start
  PROVE  CopyInv'
<1>0. /\ tool.copies \subseteq Response /\ NoneInHand \notin Response
      /\ tool.pc = "off" /\ tool.id = NoneInHand
      /\ \A r \in Response : outcome[r] = "none"
  BY ReindexAssumption DEF CopyInv, ToolTypeOK, Start, ToolAt
<1>1. /\ outcome' = outcome /\ tool'.mode = tool.mode /\ tool'.copies = tool.copies
      /\ tool'.id = tool.id
      /\ \/ tool'.pc = "aborted"
         \/ /\ tool'.pc = "scan" /\ scroll' = Documents
            /\ tool.mode.pseudoOnly => ~tool.mode.skipReindexed
  BY DEF Start, ToolGoto, CopyInv, ToolTypeOK
<1>2. ASSUME scroll' = Documents, NEW r \in tool.copies, Met(r)' PROVE CopyAhead(r)'
  <2>1. PICK h \in Documents : h.id = r
    BY <1>0, <1>1, <1>2 DEF Met
  <2> DEFINE c == [id |-> r, copy |-> TRUE, newCheck |-> h.newCheck]
  <2>2. c \in Documents
    BY <1>0, <2>1 DEF Documents, Hit
  <2> QED BY <1>2, <2>2 DEF CopyAhead
<1> QED BY <1>0, <1>1, <1>2 DEF CopyInv

LEMMA PickCopies ==
  ASSUME CopyInv, ToolTypeOK', NEW h \in scroll, Pick(h)
  PROVE  CopyInv'
<1>0. /\ tool.copies \subseteq Response /\ NoneInHand \notin Response
      /\ tool.pc = "scan" /\ h.id \in Response /\ h.copy \in BOOLEAN
      /\ tool \in [pc: ToolSteps, mode: Options, id: Response \cup {NoneInHand},
                   rev: Nat, copies: SUBSET Copied]
      /\ outcome \in [Response -> Outcomes]
      /\ scroll' = scroll \ {h}
  BY ReindexAssumption DEF CopyInv, ToolTypeOK, Pick, ToolAt, Hit
<1>1. /\ tool'.mode = tool.mode /\ tool'.copies = tool.copies
      /\ tool'.pc \in {"scan", "read", "aborted"}
      /\ tool'.id \in {tool.id, h.id, NoneInHand}
  BY <1>0 DEF Pick, ToolGoto, Count, PutDown
<1> SUFFICES ASSUME tool'.pc # "aborted", tool.mode.pseudoOnly, NEW r \in tool.copies
             PROVE  IF InPass(r) THEN Met(r)' => CopyAhead(r)'
                    ELSE outcome'[r] \in {"none", "other"} /\ tool'.id # r
  BY <1>0, <1>1 DEF CopyInv, InPass
<1>2. ~Noncanonical(h)
  BY <1>0 DEF Pick, ToolGoto
<1>3. ~tool.mode.skipReindexed
  BY <1>0 DEF CopyInv
<1>4. CASE InPass(r)
  <2>1. Met(r)' => Met(r)
    <3>1. \A x \in Response : outcome'[x] = outcome[x] \/ x = h.id
      BY <1>0 DEF Pick, Count
    <3> QED BY <1>0, <1>1, <3>1 DEF Met
  <2>2. CopyAhead(r) => CopyAhead(r)'
    BY <1>0, <1>2, <1>4 DEF CopyAhead, Noncanonical, InScope, InPass
  <2> QED BY <1>0, <1>4, <2>1, <2>2 DEF CopyInv
<1>5. CASE ~InPass(r)
  <2>1. outcome[r] \in {"none", "other"} /\ tool.id # r
    BY <1>0, <1>5 DEF CopyInv
  <2>2. h.id = r => ~InScope(h)
    BY <1>5 DEF InScope, InPass
  <2>3. \/ UNCHANGED <<tool, outcome>>
        \/ /\ ~InScope(h) /\ outcome' = [outcome EXCEPT ![h.id] = "other"]
           /\ tool'.id = NoneInHand
        \/ InScope(h) /\ outcome' = outcome /\ tool'.id = h.id
    BY <1>0, <1>2, <1>3 DEF Pick, Count, PutDown
  <2>4. outcome'[r] \in {"none", "other"} /\ tool'.id # r
    BY <1>0, <2>1, <2>2, <2>3
  <2> QED BY <1>5, <2>4
<1> QED BY <1>4, <1>5

LEMMA CopyNext ==
  ASSUME CopyInv, ToolTypeOK', [ReindexNext]_allVars
  PROVE  CopyInv'
<1>0. tool \in [pc: ToolSteps, mode: Options, id: Response \cup {NoneInHand},
                rev: Nat, copies: SUBSET Copied]
      /\ outcome \in [Response -> Outcomes]
  BY DEF CopyInv, ToolTypeOK
<1>1. CASE UNCHANGED toolVars
  BY <1>1 DEF CopyInv, toolVars, Met, CopyAhead, InPass
<1>2. CASE Start
  BY <1>2, StartCopies
<1>3. ASSUME NEW h \in scroll, Pick(h) PROVE CopyInv'
  BY <1>3, PickCopies
<1>4. CASE Finish
  BY <1>0, <1>4, CopyKept DEF Finish, ToolAt, ToolGoto
<1>5. CASE Abort
  BY <1>0, <1>5 DEF Abort, PutDown, CopyInv
<1>6. CASE Process
  <2>1. /\ tool.pc \in {"read", "mapping", "parent", "privacy", "replay"}
        /\ scroll' = scroll
    BY <1>6 DEF Process, ReadRecord, ReadMapping, ParentMapped, ParentPseudoAnonymous,
                ReplayRecord, ToolAt
  <2>2. \/ \E what \in Outcomes : Count(tool.id, what)
        \/ /\ outcome' = outcome
           /\ \/ \E pc \in {"parent", "privacy", "replay"} : ToolGoto(pc)
              \/ tool' = [tool EXCEPT !.pc = "mapping", !.rev = Len(log[tool.id])]
    BY <1>6 DEF Process, ReadRecord, ReadMapping, ParentMapped, ParentPseudoAnonymous,
                ReplayRecord, Eligible, Outcomes, Skips
  <2>3. /\ tool'.mode = tool.mode /\ tool'.copies = tool.copies
        /\ tool'.id \in {tool.id, NoneInHand}
        /\ tool'.pc \in {"scan", "mapping", "parent", "privacy", "replay"}
        /\ \A r \in Response : outcome'[r] = outcome[r] \/ r = tool.id
    BY <1>0, <2>2 DEF Count, PutDown, ToolGoto
  <2> QED BY <2>1, <2>3, CopyKept
<1> QED BY <1>1, <1>2, <1>3, <1>4, <1>5, <1>6
        DEF ReindexNext, Service, Run, allVars

\* A privacy pass that reports success has met no second document of a response
\* in its scope, in whatever order the scroll lists them and whatever the
\* replicas and the upstream do meanwhile.
THEOREM PassesLeaveNoCopy == ReindexSpec => []PassLeavesNoCopy
<1>1. ReindexInit => CopyInv
  <2> SUFFICES ASSUME ReindexInit PROVE CopyInv
    OBVIOUS
  <2>1. ToolTypeOK
    BY ReindexInitInvariant DEF ReindexInv
  <2> QED BY <2>1 DEF ReindexInit, CopyInv
<1>2. ReindexInv => ToolTypeOK
  BY DEF ReindexInv
<1>3. CopyInv /\ ToolTypeOK' /\ [ReindexNext]_allVars => CopyInv'
  BY CopyNext
<1>4. CopyInv => PassLeavesNoCopy
  <2> SUFFICES ASSUME CopyInv, ToolAt("finished"), tool.mode.pseudoOnly,
                      NEW r \in tool.copies, outcome[r] # "none"
               PROVE  outcome[r] = "other"
    BY DEF PassLeavesNoCopy
  <2> QED BY DEF CopyInv, ToolAt, Met, CopyAhead
<1> QED BY <1>1, <1>2, <1>3, <1>4, ReindexInvariant, PTL DEF ReindexSpec

-----------------------------------------------------------------------------
(* Ballots: a run brings none into the indexer that its vote did not allow *)

\* The documents a run starts from may show the ballots of votes that were open
\* once and whose older revisions are gone; none is added to them.
ShowsBallot(r) == index[r].doc = "full"
BallotShownOnlyIfOpen(r) ==
  (index'[r] # index[r] /\ ShowsBallot(r)') => EverOpen(ParentOf[r])

\* However a run's replays interleave with the upstream's writes, in any of its
\* modes, with any replicas and faults, no replica publishes the ballot of a
\* response unless some record of its vote has said that the vote is open.
THEOREM RunsExposeNoBallot ==
  ReindexSpec => [][\A r \in Response : BallotShownOnlyIfOpen(r)]_allVars
<1>1. ASSUME ReindexInv, [ReindexNext]_allVars, NEW r \in Response,
             index'[r] # index[r], ShowsBallot(r)'
      PROVE  EverOpen(ParentOf[r])
  <2>1. PICK w \in Replica : Handle(w)
    <3>1. index' # index
      BY <1>1
    <3>2. ~Run /\ ~Abort
      BY <3>1 DEF Run, Abort, Start, Pick, Finish, Process, ReadRecord, ReadMapping,
         ParentMapped, ParentPseudoAnonymous, ReplayRecord, vars, sinks
    <3> QED BY <1>1, <3>1, <3>2 DEF ReindexNext, Service, Next, Write, Expire, Deliver,
         Stops, Crash, Shutdown, Close, Restart, allVars, vars, sinks
  <2>2. /\ TypeOK /\ RevisionsExist /\ StepFits(w) /\ StepSafe(w)
    BY <1>1 DEF ReindexInv
  <2>3. /\ r = KeyOf(w) /\ job[w] \in Job /\ job[w].pc = "index"
    BY <1>1, <2>1, <2>2, HandleIndex DEF Key, Child
  <2>4. index'[r].doc = Document(w)
    <3>1. PublishIndex(w)
      BY <2>1, <2>3 DEF Handle, Receive, ConvertVote, ConvertResponse, ConvertResult,
         ResponseParent, ResultParent, ReadPrivacy, LookupAction, Dedupe, VoteAccess,
         ResponseAccess, Participant, StoreMapping, Done, CheckMarker, ResolveInvitee,
         MarkPending, SendInvite, At, Idle
    <3> QED BY <1>1, <2>2, <2>3, <3>1 DEF PublishIndex, PublishFails, sinks, TypeOK,
         EffectsTypeOK, Key, Child
  <2>5. job[w].act # "deleted" /\ ~job[w].redact
    BY <1>1, <2>4 DEF ShowsBallot, Document
  <2> QED BY <2>2, <2>3, <2>5 DEF StepSafe
<1>2. ReindexInv /\ [ReindexNext]_allVars
        => [\A r \in Response : BallotShownOnlyIfOpen(r)]_allVars
  BY <1>1 DEF BallotShownOnlyIfOpen
<1> QED BY <1>2, ReindexInvariant, PTL DEF ReindexSpec
=============================================================================
