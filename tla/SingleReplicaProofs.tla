-------------------------- MODULE SingleReplicaProofs -------------------------
(***************************************************************************)
(* What one replica alone guarantees: its deliveries are handled in        *)
(* sequence, so nothing it read at one step of a handler is overtaken      *)
(* before the next. Theorems about EventSync for any records and bounds.   *)
(***************************************************************************)
EXTENDS EventSyncProofs

OneReplica == \A a, b \in Replica : a = b

-----------------------------------------------------------------------------
(* Invariants *)

\* The deliveries in hand are in the order of their revisions, and none is older
\* than what the indexer shows.
InOrder(w) ==
  /\ \A i, j \in 1..Len(buf[w]) :
       (i <= j /\ buf[w][i].key = buf[w][j].key) => buf[w][i].rev <= buf[w][j].rev
  /\ \A i \in 1..Len(buf[w]) : index[buf[w][i].key].rev <= buf[w][i].rev
  /\ job[w] # Idle =>
       /\ index[job[w].key].rev <= job[w].rev
       /\ \A i \in 1..Len(buf[w]) :
            buf[w][i].key = job[w].key => job[w].rev <= buf[w][i].rev

ShownIsWritten == \A k \in Key : index[k].rev <= Len(log[k])

\* Between the check of a marker and its claim nobody else claims it.
InvitesFirst(w) ==
  /\ job[w].pc \in {"resolve", "pend"} => marker[KeyOf(w)] = "none"
  /\ job[w].pc = "send" => invited[KeyOf(w)] = 0

\* What was read about a result and its vote still holds when it is published.
ResultCurrent(w) ==
  (job[w].pc \in {"lookup", "index"} /\ KeyOf(w) \in Result) =>
    /\ job[w].act # "deleted" => mapping[ParentOf[KeyOf(w)]] = "live"
    /\ job[w].act = "updated" => mapping[KeyOf(w)] = "live"

SoloInv ==
  /\ IInv
  /\ ShownIsWritten
  /\ InviteOnce
  /\ \A w \in Replica : InOrder(w) /\ InvitesFirst(w) /\ ResultCurrent(w)

-----------------------------------------------------------------------------
(* Deliveries in order *)

LEMMA IndexMoves ==
  ASSUME NEW w \in Replica, Handle(w)
  PROVE  \/ index' = index
         \/ /\ At(w, "index") /\ ~Receive(w)
            /\ index' = [index EXCEPT ![KeyOf(w)] =
                 [rev |-> job[w].rev, doc |-> Document(w), act |-> job[w].act]]
<1>1. CASE PublishIndex(w)
  BY <1>1 DEF PublishIndex, PublishFails, sinks, Receive, At, Idle
<1>2. CASE ~PublishIndex(w)
  BY <1>2 DEF Handle, Receive, ConvertVote, ConvertResponse, ConvertResult,
     ResponseParent, ResultParent, ReadPrivacy, LookupAction, Dedupe, Done, CheckMarker,
     ResolveInvitee, VoteAccess, ResponseAccess, Participant, PublishFails,
     StoreMapping, MarkPending, SendInvite, sinks
<1> QED BY <1>1, <1>2

\* A delivery in hand names a key and a revision of it.
LEMMA HeldTypes ==
  ASSUME TypeOK, RevisionsExist, NEW w \in Replica
  PROVE  /\ buf[w] \in Seq(Delivery) /\ Len(buf[w]) \in Nat
         /\ \A i \in 1..Len(buf[w]) :
              /\ buf[w][i].key \in Key
              /\ buf[w][i].rev \in Nat
              /\ buf[w][i].rev \in 1..Len(log[buf[w][i].key])
         /\ \A k \in Key : index[k].rev \in Nat /\ Len(log[k]) \in Nat
<1>1. buf[w] \in Seq(Delivery)
  BY DEF TypeOK, QueuesTypeOK
<1>2. \A i \in 1..Len(buf[w]) : buf[w][i] \in Delivery
  BY <1>1
<1>3. \A i \in 1..Len(buf[w]) : buf[w][i].rev \in 1..Len(log[buf[w][i].key])
  BY DEF RevisionsExist
<1>4. \A k \in Key : index[k].rev \in Nat /\ Len(log[k]) \in Nat
  BY DEF TypeOK, QueuesTypeOK, EffectsTypeOK
<1> QED BY <1>1, <1>2, <1>3, <1>4 DEF Delivery

LEMMA DeliverInOrder ==
  ASSUME TypeOK, RevisionsExist, ShownIsWritten, NEW w \in Replica, InOrder(w),
         NEW k \in Key, Deliver(w, k)
  PROVE  InOrder(w)'
<1> DEFINE d == [key |-> k, rev |-> Len(log[k])]
<1>1. buf'[w] = Append(buf[w], d) /\ job' = job /\ index' = index
  BY DEF Deliver, TypeOK, QueuesTypeOK, sinks
<1>2. /\ Len(buf'[w]) = Len(buf[w]) + 1 /\ buf'[w][Len(buf[w]) + 1] = d
      /\ \A i \in 1..Len(buf[w]) : buf'[w][i] = buf[w][i]
  BY <1>1, HeldTypes
<1>3. \A i \in 1..Len(buf[w]) : buf[w][i].key = k => buf[w][i].rev <= Len(log[k])
  BY HeldTypes
<1>4. index[k].rev <= Len(log[k]) /\ index[k].rev \in Nat /\ Len(log[k]) \in Nat
  BY HeldTypes DEF ShownIsWritten
<1>5. job[w] # Idle => (job[w].key = k => job[w].rev <= Len(log[k]))
  BY <1>4 DEF RevisionsExist
<1>6. \A i \in 1..Len(buf'[w]) : i \in 1..Len(buf[w]) \/ i = Len(buf[w]) + 1
  BY <1>2, HeldTypes
<1>7. d.key = k /\ d.rev = Len(log[k])
  OBVIOUS
<1> HIDE DEF d
<1>8. \A i, j \in 1..Len(buf'[w]) :
        (i <= j /\ buf'[w][i].key = buf'[w][j].key) => buf'[w][i].rev <= buf'[w][j].rev
  <2> SUFFICES ASSUME NEW i \in 1..Len(buf'[w]), NEW j \in 1..Len(buf'[w]),
                      i <= j, buf'[w][i].key = buf'[w][j].key
               PROVE  buf'[w][i].rev <= buf'[w][j].rev
    OBVIOUS
  <2>1. CASE j \in 1..Len(buf[w])
    <3>1. i \in 1..Len(buf[w])
      BY <2>1, HeldTypes
    <3> QED BY <1>2, <2>1, <3>1 DEF InOrder
  <2>2. CASE j = Len(buf[w]) + 1
    <3>1. buf'[w][j].key = k /\ buf'[w][j].rev = Len(log[k])
      BY <1>2, <1>7, <2>2
    <3>2. CASE i \in 1..Len(buf[w])
      <4>1. buf[w][i] = buf'[w][i]
        BY <1>2, <3>2
      <4>2. buf[w][i].rev <= Len(log[k])
        BY <1>3, <3>1, <3>2, <4>1
      <4> QED BY <3>1, <4>1, <4>2
    <3>3. CASE i = Len(buf[w]) + 1
      BY <1>4, <2>2, <3>1, <3>3
    <3> QED BY <1>6, <3>2, <3>3
  <2> QED BY <1>6, <2>1, <2>2
<1>9. \A i \in 1..Len(buf'[w]) : index'[buf'[w][i].key].rev <= buf'[w][i].rev
  BY <1>1, <1>2, <1>4, <1>6, <1>7 DEF InOrder
<1>10. job'[w] # Idle =>
         /\ index'[job'[w].key].rev <= job'[w].rev
         /\ \A i \in 1..Len(buf'[w]) :
              buf'[w][i].key = job'[w].key => job'[w].rev <= buf'[w][i].rev
  <2> SUFFICES ASSUME job[w] # Idle, NEW i \in 1..Len(buf'[w]),
                      buf'[w][i].key = job[w].key
               PROVE  job[w].rev <= buf'[w][i].rev
    BY <1>1 DEF InOrder
  <2>1. CASE i \in 1..Len(buf[w])
    BY <1>2, <2>1 DEF InOrder
  <2>2. CASE i = Len(buf[w]) + 1
    BY <1>2, <1>5, <1>7, <2>2
  <2> QED BY <1>6, <2>1, <2>2
<1> QED BY <1>8, <1>9, <1>10 DEF InOrder

\* A replica takes up the oldest delivery it holds.
LEMMA ReceiveHead ==
  ASSUME TypeOK, RevisionsExist, NEW w \in Replica, Receive(w)
  PROVE  /\ 1 \in 1..Len(buf[w])
         /\ job[w] = Idle
         /\ \/ /\ job'[w] = Idle /\ AckMsg(buf[w][1])
               /\ log[buf[w][1].key][buf[w][1].rev].op = "junk"
            \/ /\ cons' = cons
               /\ job'[w].key = buf[w][1].key /\ job'[w].rev = buf[w][1].rev
               /\ job'[w].act = "created" /\ job'[w].pc \in {"convert", "dedupe"}
               /\ log[buf[w][1].key][buf[w][1].rev].op # "junk"
               /\ log[buf[w][1].key][buf[w][1].rev].op = "put" <=> job'[w].pc = "convert"
         /\ log' = log
         /\ \A i \in 1..Len(buf'[w]) :
              /\ i + 1 \in 1..Len(buf[w]) /\ 1 <= i + 1
              /\ buf'[w][i] = buf[w][i + 1]
         /\ UNCHANGED <<mapping, index, access, grants>>
<1> DEFINE d == Head(buf[w])
           op == log[d.key][d.rev].op
<1>1. buf[w] # <<>> /\ buf'[w] = Tail(buf[w]) /\ job[w] = Idle /\ log' = log
      /\ UNCHANGED <<mapping, index, access, grants>>
  BY DEF Receive, TypeOK, QueuesTypeOK, tracking, sinks
<1>2. buf[w] \in Seq(Delivery)
  BY HeldTypes
<1>3. /\ d = buf[w][1] /\ 1 \in 1..Len(buf[w])
      /\ \A i \in 1..Len(buf'[w]) :
           /\ i + 1 \in 1..Len(buf[w]) /\ 1 <= i + 1
           /\ buf'[w][i] = buf[w][i + 1]
  BY <1>1, <1>2
<1>4. CASE op = "junk"
  <2>1. job' = job /\ AckMsg(d)
    BY <1>4 DEF Receive
  <2> HIDE DEF d
  <2> QED BY <1>1, <1>3, <1>4, <2>1
<1>5. CASE op # "junk"
  <2>1. /\ cons' = cons
        /\ job' = [job EXCEPT ![w] =
             [pc |-> IF op = "put" THEN "convert" ELSE "dedupe",
              key |-> d.key, rev |-> d.rev, act |-> "created", redact |-> FALSE]]
    BY <1>5 DEF Receive
  <2>2. /\ job'[w].key = d.key /\ job'[w].rev = d.rev /\ job'[w].act = "created"
        /\ job'[w].pc = IF op = "put" THEN "convert" ELSE "dedupe"
    BY <2>1 DEF TypeOK, QueuesTypeOK
  <2>3. op = "put" <=> job'[w].pc = "convert"
    BY <2>2
  <2>4. job'[w].pc \in {"convert", "dedupe"}
    BY <2>2
  <2> HIDE DEF d
  <2> QED BY <1>1, <1>3, <1>5, <2>1, <2>2, <2>3, <2>4
<1> QED BY <1>4, <1>5

LEMMA ReceiveInOrder ==
  ASSUME TypeOK, RevisionsExist, NEW w \in Replica, InOrder(w), Receive(w)
  PROVE  InOrder(w)'
<1>1. /\ 1 \in 1..Len(buf[w]) /\ index' = index
      /\ \/ job'[w] = Idle
         \/ job'[w].key = buf[w][1].key /\ job'[w].rev = buf[w][1].rev
      /\ \A i \in 1..Len(buf'[w]) : /\ i + 1 \in 1..Len(buf[w]) /\ 1 <= i + 1
                                    /\ buf'[w][i] = buf[w][i + 1]
  BY ReceiveHead
<1>2. \A i, j \in 1..Len(buf'[w]) :
        (i <= j /\ buf'[w][i].key = buf'[w][j].key) => buf'[w][i].rev <= buf'[w][j].rev
  <2> SUFFICES ASSUME NEW i \in 1..Len(buf'[w]), NEW j \in 1..Len(buf'[w]),
                      i <= j, buf'[w][i].key = buf'[w][j].key
               PROVE  buf'[w][i].rev <= buf'[w][j].rev
    OBVIOUS
  <2>1. i + 1 <= j + 1
    OBVIOUS
  <2> QED BY <1>1, <2>1 DEF InOrder
<1>3. \A i \in 1..Len(buf'[w]) : index'[buf'[w][i].key].rev <= buf'[w][i].rev
  BY <1>1 DEF InOrder
<1>4. job'[w] # Idle =>
        /\ index'[job'[w].key].rev <= job'[w].rev
        /\ \A i \in 1..Len(buf'[w]) :
             buf'[w][i].key = job'[w].key => job'[w].rev <= buf'[w][i].rev
  BY <1>1 DEF InOrder
<1> QED BY <1>2, <1>3, <1>4 DEF InOrder

LEMMA HandleInOrder ==
  ASSUME TypeOK, RevisionsExist, NEW w \in Replica, InOrder(w), Handle(w)
  PROVE  InOrder(w)'
<1>1. CASE Receive(w)
  BY <1>1, ReceiveInOrder
<1>2. CASE ~Receive(w)
  <2>1. Continues(w) /\ job[w] \in Job /\ job[w] # Idle /\ KeyOf(w) = job[w].key
        /\ KeyOf(w) \in Key
    BY <1>2, HandleContinues, BusyRevision
  <2>2. \A k \in Key : index'[k] = index[k] \/ (k = job[w].key /\ index'[k].rev = job[w].rev)
    BY <2>1, IndexMoves DEF TypeOK, EffectsTypeOK
  <2>3. \A i \in 1..Len(buf[w]) : index'[buf[w][i].key].rev <= buf[w][i].rev
    BY <2>1, <2>2, HeldTypes DEF InOrder
  <2>4. index'[job[w].key].rev <= job[w].rev
    BY <2>1, <2>2 DEF InOrder, Job
  <2> QED BY <2>1, <2>3, <2>4 DEF InOrder, Continues
<1> QED BY <1>1, <1>2

-----------------------------------------------------------------------------
(* Which handler step leads to which *)

LEMMA ReceiveGoes ==
  ASSUME TypeOK, RevisionsExist, NEW w \in Replica, Receive(w)
  PROVE  job'[w].pc \in {"idle", "convert", "dedupe"}
BY ReceiveHead DEF Idle

\* A handler under way starts on a step only from the steps before it.
LEMMA StepOrder ==
  ASSUME TypeOK, RevisionsExist, NEW w \in Replica, Handle(w), ~Receive(w)
  PROVE  \/ job'[w] = Idle /\ (Ack(w) \/ Nak(w))
         \/ /\ ~Ack(w) /\ ~Nak(w)
            /\ job'[w].pc = "parent" => ConvertResponse(w) \/ ConvertResult(w)
            /\ job'[w].pc = "privacy" => ResponseParent(w)
            /\ job'[w].pc = "lookup" =>
                 ConvertVote(w) \/ ReadPrivacy(w) \/ ResultParent(w)
            /\ job'[w].pc = "index" => LookupAction(w) \/ Dedupe(w)
            /\ job'[w].pc = "access" => PublishIndex(w)
            /\ job'[w].pc = "participant" => ResponseAccess(w)
            /\ job'[w].pc = "record" =>
                 PublishIndex(w) \/ VoteAccess(w) \/ Participant(w)
            /\ job'[w].pc = "marker" => StoreMapping(w)
            /\ job'[w].pc = "resolve" => CheckMarker(w)
            /\ job'[w].pc = "pend" => ResolveInvitee(w)
            /\ job'[w].pc = "send" => MarkPending(w)
            /\ job'[w].pc = "done" =>
                 \/ StoreMapping(w) \/ CheckMarker(w) \/ ResolveInvitee(w)
                 \/ MarkPending(w) \/ SendInvite(w)
            /\ job'[w].pc \notin {"convert", "dedupe", "idle"}
<1>1. CASE Ack(w) \/ Nak(w)
  BY <1>1 DEF Ack, Nak, TypeOK, QueuesTypeOK
<1>2. CASE ~Ack(w) /\ ~Nak(w)
  <2>1. job[w] \in Job
    BY HandleContinues
  <2>2. ASSUME NEW pc, Goto(w, pc) PROVE job'[w].pc = pc
    BY <2>1, <2>2, GotoJob
  <2>3. CASE \/ ConvertVote(w) \/ ConvertResponse(w) \/ ConvertResult(w)
             \/ ResponseParent(w) \/ ResultParent(w)
    BY <1>2, <2>2, <2>3 DEF ConvertVote, ConvertResponse, ConvertResult,
       ResponseParent, ResultParent
  <2>4. CASE ReadPrivacy(w)
    <3>1. job'[w].pc = "lookup"
      <4> DEFINE hidden == PseudoAnonymous(ParentOf[KeyOf(w)])
      <4>1. job' = [job EXCEPT ![w].pc = "lookup", ![w].redact = hidden]
        BY <1>2, <2>4 DEF ReadPrivacy
      <4> HIDE DEF hidden
      <4> QED BY <2>1, <4>1 DEF TypeOK, QueuesTypeOK, Job
    <3> QED BY <1>2, <2>4, <3>1
  <2>5. CASE LookupAction(w) \/ Dedupe(w)
    <3>1. job'[w].pc = "index"
      BY <1>2, <2>1, <2>5 DEF LookupAction, Dedupe, TypeOK, QueuesTypeOK, Job
    <3> QED BY <1>2, <2>5, <3>1
  <2>6. CASE PublishIndex(w) \/ VoteAccess(w) \/ ResponseAccess(w) \/ Participant(w)
    BY <1>2, <2>2, <2>6 DEF PublishIndex, VoteAccess, ResponseAccess, Participant,
       PublishFails
  <2>7. CASE \/ StoreMapping(w) \/ CheckMarker(w) \/ ResolveInvitee(w)
             \/ MarkPending(w) \/ SendInvite(w)
    BY <1>2, <2>2, <2>7 DEF StoreMapping, CheckMarker, ResolveInvitee, MarkPending,
       SendInvite
  <2>8. ~Done(w)
    BY <1>2 DEF Done
  <2> QED BY <2>3, <2>4, <2>5, <2>6, <2>7, <2>8 DEF Handle
<1> QED BY <1>1, <1>2

\* Where a handler under way stands, and the record it is about.
LEMMA Stands ==
  ASSUME TypeOK, RevisionsExist, NEW w \in Replica, Handle(w), ~Receive(w)
  PROVE  /\ KeyOf(w) \in Key
         /\ job'[w] = Idle \/ KeyOf(w)' = KeyOf(w)
         /\ log' = log
<1>1. Continues(w) /\ KeyOf(w) \in Key
  BY HandleContinues, BusyRevision
<1> QED BY <1>1 DEF Continues, KeyOf

-----------------------------------------------------------------------------
(* Invites *)

LEMMA HandleInvites ==
  ASSUME IInv, InviteOnce, NEW w \in Replica, InvitesFirst(w), Handle(w)
  PROVE  InvitesFirst(w)' /\ InviteOnce'
<1>0. TypeOK /\ RevisionsExist /\ StepFits(w)
  BY DEF IInv
<1>1. CASE Receive(w)
  <2>1. job'[w].pc \in {"idle", "convert", "dedupe"} /\ invited' = invited
    BY <1>0, <1>1, ReceiveGoes DEF Receive
  <2> QED BY <2>1 DEF InvitesFirst, InviteOnce
<1>2. CASE ~Receive(w) /\ SendInvite(w)
  <2>1. KeyOf(w) \in Response /\ invited[KeyOf(w)] = 0 /\ job'[w].pc = "done"
    BY <1>0, <1>2, HandleContinues, GotoJob DEF SendInvite, At, StepFits, InvitesFirst
  <2>2. InviteOnce'
    BY <1>0, <1>2, <2>1 DEF SendInvite, InviteOnce, TypeOK, EffectsTypeOK
  <2> QED BY <2>1, <2>2 DEF InvitesFirst
<1>3. CASE ~Receive(w) /\ ~SendInvite(w)
  <2>1. invited' = invited
    BY <1>3 DEF Handle, ConvertVote, ConvertResponse, ConvertResult, ResponseParent,
       ResultParent, ReadPrivacy, LookupAction, Dedupe, Done, CheckMarker,
       ResolveInvitee, VoteAccess, ResponseAccess, Participant, PublishIndex,
       StoreMapping, MarkPending
  <2>2. KeyOf(w) \in Key /\ (job'[w] = Idle \/ KeyOf(w)' = KeyOf(w))
    BY <1>0, <1>3, Stands
  <2>3. job'[w].pc = "resolve" => marker'[KeyOf(w)'] = "none"
    <3> SUFFICES ASSUME job'[w].pc = "resolve" PROVE marker'[KeyOf(w)'] = "none"
      OBVIOUS
    <3>1. CheckMarker(w) /\ ~Ack(w) /\ ~Nak(w) /\ KeyOf(w)' = KeyOf(w)
      BY <1>0, <1>3, <2>2, StepOrder DEF Idle
    <3>2. job[w] \in Job
      BY <1>0, <1>3, HandleContinues
    <3>3. ~Goto(w, "done")
      BY <1>0, <3>2, GotoJob
    <3> QED BY <3>1, <3>3 DEF CheckMarker, tracking
  <2>4. job'[w].pc = "pend" => marker'[KeyOf(w)'] = "none"
    <3> SUFFICES ASSUME job'[w].pc = "pend" PROVE marker'[KeyOf(w)'] = "none"
      OBVIOUS
    <3>1. ResolveInvitee(w) /\ KeyOf(w)' = KeyOf(w)
      BY <1>0, <1>3, <2>2, StepOrder DEF Idle
    <3> QED BY <3>1 DEF ResolveInvitee, At, InvitesFirst, tracking
  <2>5. job'[w].pc = "send" => invited[KeyOf(w)'] = 0
    <3> SUFFICES ASSUME job'[w].pc = "send" PROVE invited[KeyOf(w)'] = 0
      OBVIOUS
    <3>1. MarkPending(w) /\ KeyOf(w)' = KeyOf(w)
      BY <1>0, <1>3, <2>2, StepOrder DEF Idle
    <3>2. KeyOf(w) \in Response /\ marker[KeyOf(w)] = "none"
      BY <1>0, <3>1 DEF MarkPending, At, StepFits, InvitesFirst
    <3> QED BY <1>0, <3>1, <3>2 DEF IInv, InviteComesLast, TypeOK, EffectsTypeOK
  <2> QED BY <2>1, <2>3, <2>4, <2>5 DEF InvitesFirst, InviteOnce
<1> QED BY <1>1, <1>2, <1>3

-----------------------------------------------------------------------------
(* Results *)

LEMMA HandleResults ==
  ASSUME IInv, NEW w \in Replica, ResultCurrent(w), Handle(w)
  PROVE  ResultCurrent(w)'
<1>0. TypeOK /\ RevisionsExist
  BY DEF IInv
<1>1. CASE Receive(w)
  BY <1>0, <1>1, ReceiveGoes DEF ResultCurrent
<1>2. CASE ~Receive(w)
  <2> SUFFICES ASSUME job'[w].pc \in {"lookup", "index"}, KeyOf(w)' \in Result
               PROVE  /\ job'[w].act # "deleted" => mapping'[ParentOf[KeyOf(w)']] = "live"
                      /\ job'[w].act = "updated" => mapping'[KeyOf(w)'] = "live"
    BY DEF ResultCurrent
  <2>1. KeyOf(w)' = KeyOf(w) /\ ~Ack(w) /\ ~Nak(w)
    BY <1>0, <1>2, Stands, StepOrder DEF Idle
  <2>2. job[w] \in Job
    BY <1>0, <1>2, HandleContinues
  <2>3. KeyOf(w) \notin Vote /\ KeyOf(w) \notin Response
    BY <2>1, KeysAssumption
  <2>4. CASE job'[w].pc = "lookup"
    <3>1. ResultParent(w)
      BY <1>0, <1>2, <2>1, <2>3, <2>4, StepOrder DEF ConvertVote, ReadPrivacy, At, Idle, IInv, StepFits
    <3>2. /\ mapping[ParentOf[KeyOf(w)]] = "live" /\ mapping' = mapping
          /\ job'[w].act = "created"
      BY <1>0, <2>1, <2>2, <3>1, GotoJob DEF ResultParent, tracking, At, IInv, StepFits
    <3> QED BY <2>1, <3>2
  <2>5. CASE job'[w].pc = "index"
    <3>1. LookupAction(w) \/ Dedupe(w)
      BY <1>0, <1>2, <2>5, StepOrder DEF Idle
    <3>2. CASE LookupAction(w)
      <4>1. /\ mapping' = mapping /\ At(w, "lookup") /\ job[w].act = "created"
            /\ job'[w].act = "updated" => mapping[KeyOf(w)] \in UpdateMark(KeyOf(w))
        BY <1>0, <2>2, <3>2 DEF LookupAction, tracking, At, IInv, StepFits, TypeOK,
           QueuesTypeOK, Job
      <4> QED BY <2>1, <4>1 DEF ResultCurrent, At, UpdateMark
    <3>3. CASE Dedupe(w)
      <4>1. job'[w].act = "deleted"
        BY <1>0, <2>1, <2>2, <3>3 DEF Dedupe, TypeOK, QueuesTypeOK, Job
      <4> QED BY <4>1
    <3> QED BY <3>1, <3>2, <3>3
  <2> QED BY <2>4, <2>5
<1> QED BY <1>1, <1>2

-----------------------------------------------------------------------------
(* The invariant of a single replica *)

LEMMA InitSolo == Init => SoloInv
<1> SUFFICES ASSUME Init PROVE SoloInv
  OBVIOUS
<1>1. IInv
  BY InitInvariant
<1>2. \A w \in Replica : job[w] = Idle /\ buf[w] = <<>>
  BY DEF Init
<1>3. ShownIsWritten /\ InviteOnce
  BY DEF Init, ShownIsWritten, InviteOnce
<1>4. \A w \in Replica : InOrder(w) /\ InvitesFirst(w) /\ ResultCurrent(w)
  BY <1>2 DEF InOrder, InvitesFirst, ResultCurrent, Idle
<1> QED BY <1>1, <1>3, <1>4 DEF SoloInv

\* Steps of the upstream and the consumer, which no handler notices.
LEMMA IdleInOrder ==
  ASSUME NEW w \in Replica, InOrder(w), index' = index,
         \/ buf'[w] = buf[w] /\ job'[w] = job[w]
         \/ buf'[w] = <<>> /\ job'[w] = Idle
  PROVE  InOrder(w)'
BY DEF InOrder

LEMMA NextInOrder ==
  ASSUME OneReplica, TypeOK, TypeOK', RevisionsExist, Grows, ShownIsWritten,
         \A w \in Replica : InOrder(w), [Next]_vars
  PROVE  ShownIsWritten' /\ \A w \in Replica : InOrder(w)'
<1>1. ShownIsWritten'
  <2> SUFFICES ASSUME NEW k \in Key PROVE index'[k].rev <= Len(log'[k])
    BY DEF ShownIsWritten
  <2>1. /\ index[k].rev \in Nat /\ index[k].rev <= Len(log[k])
        /\ Len(log[k]) \in Nat /\ Len(log'[k]) \in Nat /\ Len(log[k]) <= Len(log'[k])
    BY DEF ShownIsWritten, TypeOK, QueuesTypeOK, EffectsTypeOK, Grows
  <2>2. CASE index' = index
    BY <2>1, <2>2
  <2>3. ASSUME NEW w \in Replica, Handle(w), index' # index
        PROVE  index'[k].rev <= Len(log'[k])
    <3>1. /\ ~Receive(w)
          /\ index' = [index EXCEPT ![KeyOf(w)] =
                 [rev |-> job[w].rev, doc |-> Document(w), act |-> job[w].act]]
      BY <2>3, IndexMoves
    <3>2. job[w].rev \in 1..Len(log[KeyOf(w)]) /\ KeyOf(w) \in Key
          /\ log' = log
      BY <2>3, <3>1, HandleContinues, BusyRevision, Stands
    <3> QED BY <2>1, <3>1, <3>2 DEF TypeOK, EffectsTypeOK
  <2>4. index' = index \/ \E w \in Replica : Handle(w)
    BY DEF Next, Write, Expire, Deliver, Stops, Crash, Shutdown,
       Close, Restart, vars, sinks
  <2> QED BY <2>2, <2>3, <2>4
<1>2. ASSUME NEW w \in Replica, Handle(w) PROVE \A x \in Replica : InOrder(x)'
  <2>1. \A x \in Replica : x = w
    BY DEF OneReplica
  <2> QED BY <1>2, <2>1, HandleInOrder
<1>3. ASSUME NEW w \in Replica, NEW k \in Key, Deliver(w, k)
      PROVE  \A x \in Replica : InOrder(x)'
  BY <1>3, DeliverInOrder DEF OneReplica
<1>4. ASSUME NEW w \in Replica, Restart(w)
      PROVE  \A x \in Replica : InOrder(x)'
  <2>1. index' = index /\ buf'[w] = <<>> /\ job'[w] = Idle
    BY <1>4 DEF Restart, sinks, TypeOK, QueuesTypeOK
  <2> QED BY <2>1, IdleInOrder DEF OneReplica
<1>5. ASSUME UNCHANGED <<buf, job, index>>
      PROVE  \A x \in Replica : InOrder(x)'
  BY <1>5, IdleInOrder
<1>6. \/ \E w \in Replica : Handle(w)
      \/ UNCHANGED <<buf, job, index>>
      \/ \E w \in Replica, k \in Key : Deliver(w, k)
      \/ \E w \in Replica : Restart(w)
  BY StopsQueues DEF Next, Write, Expire, vars, sinks, TypeOK
<1> QED BY <1>1, <1>2, <1>3, <1>4, <1>5, <1>6

LEMMA NextSolo ==
  ASSUME OneReplica, SoloInv, [Next]_vars
  PROVE  SoloInv'
<1>0. /\ IInv /\ TypeOK /\ RevisionsExist /\ ShownIsWritten /\ InviteOnce
      /\ \A w \in Replica : InOrder(w) /\ InvitesFirst(w) /\ ResultCurrent(w)
      /\ IInv' /\ TypeOK' /\ Grows
  BY NextInvariant, NextKeeps DEF SoloInv, IInv
<1>1. ShownIsWritten' /\ \A w \in Replica : InOrder(w)'
  BY <1>0, NextInOrder
<1>2. ASSUME NEW w \in Replica, Handle(w)
      PROVE  /\ InviteOnce'
             /\ \A x \in Replica : InvitesFirst(x)' /\ ResultCurrent(x)'
  <2>1. \A x \in Replica : x = w
    BY DEF OneReplica
  <2>2. InvitesFirst(w)' /\ ResultCurrent(w)' /\ InviteOnce'
    BY <1>0, <1>2, HandleInvites, HandleResults
  <2> QED BY <2>1, <2>2
<1>3. ASSUME UNCHANGED <<mapping, marker, invited, index>>,
             \A x \in Replica : job'[x] = job[x] \/ job'[x] = Idle
      PROVE  InviteOnce' /\ \A x \in Replica : InvitesFirst(x)' /\ ResultCurrent(x)'
  <2>1. InviteOnce'
    BY <1>0, <1>3 DEF InviteOnce
  <2> SUFFICES ASSUME NEW x \in Replica PROVE InvitesFirst(x)' /\ ResultCurrent(x)'
    BY <2>1
  <2>2. CASE job'[x] = job[x]
    BY <1>0, <1>3, <2>2 DEF InvitesFirst, ResultCurrent, KeyOf
  <2>3. CASE job'[x] = Idle
    BY <2>3 DEF InvitesFirst, ResultCurrent, Idle
  <2> QED BY <1>3, <2>2, <2>3
<1>4. \/ \E w \in Replica : Handle(w)
      \/ /\ UNCHANGED <<mapping, marker, invited, index>>
         /\ \A x \in Replica : job'[x] = job[x] \/ job'[x] = Idle
  <2>1. ASSUME NEW w \in Replica, Stops(w)
        PROVE  /\ UNCHANGED <<mapping, marker, invited, index>>
               /\ \A x \in Replica : job'[x] = job[x] \/ job'[x] = Idle
    BY <1>0, <2>1, StopsQueues, StopsRevisions DEF sinks, tracking, TypeOK
  <2> QED BY <2>1 DEF Next, Write, Expire, Deliver, vars, sinks, tracking
<1> QED BY <1>0, <1>1, <1>2, <1>3, <1>4 DEF SoloInv

\* What a single replica may rely on at each step of its handler.
THEOREM SoloInvariant ==
  ASSUME OneReplica
  PROVE  Spec => []SoloInv
<1>1. SoloInv /\ [Next]_vars => SoloInv'
  BY NextSolo
<1> QED BY <1>1, InitSolo, PTL DEF Spec

\* A voter known only by email is invited at most once by a single replica,
\* whatever is redelivered, retried, unanswered or cut short by a crash.
THEOREM OneInvite ==
  ASSUME OneReplica
  PROVE  Spec => []InviteOnce
<1>1. SoloInv => InviteOnce
  BY DEF SoloInv
<1> QED BY <1>1, SoloInvariant, PTL

-----------------------------------------------------------------------------
(* The indexer as a mirror of the upstream *)

LEMMA MirrorInit == Init => Mirror!Init
BY DEF Init, Mirror!Init

LEMMA MirrorNext ==
  ASSUME SoloInv, [Next]_vars
  PROVE  [Mirror!Next]_<<[k \in Key |-> Len(log[k])], [k \in Key |-> index[k].rev]>>
<1> DEFINE written == [k \in Key |-> Len(log[k])]
           shown == [k \in Key |-> index[k].rev]
<1>0. /\ TypeOK /\ RevisionsExist /\ ShownIsWritten
      /\ \A w \in Replica : InOrder(w)
  BY DEF SoloInv, IInv
<1>1. ASSUME NEW k \in Key, NEW e \in Entry, Write(k, e)
      PROVE  Mirror!Write(k)
  <2>1. /\ log \in [Key -> Seq(Entry)] /\ log' = [log EXCEPT ![k] = Append(@, e)]
        /\ index' = index
    BY <1>0, <1>1 DEF Write, Supersede, sinks, TypeOK, QueuesTypeOK
  <2>2. Len(log'[k]) = Len(log[k]) + 1 /\ \A x \in Key \ {k} : log'[x] = log[x]
    BY <2>1
  <2>3. written' = [written EXCEPT ![k] = @ + 1]
    BY <2>2
  <2>4. shown' = shown
    BY <2>1
  <2> QED BY <2>3, <2>4 DEF Mirror!Write
<1>2. ASSUME NEW w \in Replica, Handle(w), index' # index
      PROVE  \E k \in Key : Mirror!Show(k)
  <2>1. /\ ~Receive(w)
        /\ index' = [index EXCEPT ![KeyOf(w)] =
               [rev |-> job[w].rev, doc |-> Document(w), act |-> job[w].act]]
    BY <1>2, IndexMoves
  <2>2. /\ KeyOf(w) \in Key /\ job[w] # Idle /\ KeyOf(w) = job[w].key /\ log' = log
        /\ Len(log[KeyOf(w)]) \in Nat /\ job[w].rev \in 1..Len(log[KeyOf(w)])
    BY <1>0, <1>2, <2>1, HandleContinues, BusyRevision, Stands
  <2>3. index[KeyOf(w)].rev \in Nat /\ index[KeyOf(w)].rev <= job[w].rev
    BY <1>0, <2>2 DEF InOrder, TypeOK, EffectsTypeOK
  <2>4. job[w].rev \in shown[KeyOf(w)]..written[KeyOf(w)]
    BY <2>2, <2>3
  <2>5. shown' = [shown EXCEPT ![KeyOf(w)] = job[w].rev]
    BY <1>0, <2>1, <2>2 DEF TypeOK, EffectsTypeOK
  <2>6. written' = written
    BY <2>2
  <2> QED BY <2>2, <2>4, <2>5, <2>6 DEF Mirror!Show
<1>3. CASE log' = log /\ index' = index
  BY <1>3
<1>4. \/ \E k \in Key, e \in Entry : Write(k, e)
      \/ \E w \in Replica : Handle(w) /\ index' # index
      \/ log' = log /\ index' = index
  <2>1. ASSUME NEW w \in Replica, Handle(w) PROVE log' = log
    <3>1. CASE Receive(w)
      BY <3>1 DEF Receive
    <3>2. CASE ~Receive(w)
      BY <1>0, <2>1, <3>2, Stands
    <3> QED BY <3>1, <3>2
  <2> QED BY <2>1 DEF Next, Expire, Deliver, Stops, Crash, Shutdown,
     Close, Restart, vars, sinks, stream
<1> QED BY <1>1, <1>2, <1>3, <1>4 DEF Mirror!Next

\* A single replica never shows the indexer an older revision of a record after
\* a newer one, and no revision that was not written, under any fault.
THEOREM IndexIsMirror ==
  ASSUME OneReplica
  PROVE  Spec => ImplementsMirror
<1>1. SoloInv /\ [Next]_vars
        => [Mirror!Next]_<<[k \in Key |-> Len(log[k])], [k \in Key |-> index[k].rev]>>
  BY MirrorNext
<1> QED BY <1>1, MirrorInit, SoloInvariant, PTL DEF Spec, ImplementsMirror, Mirror!Spec

-----------------------------------------------------------------------------
(* Results under live votes *)

LEMMA ResultSteps ==
  ASSUME SoloInv, [Next]_vars, NEW c \in Result, index'[c] # index[c],
         index'[c].doc # "none"
  PROVE  /\ mapping[ParentOf[c]] = "live"
         /\ index'[c].act = "updated" => mapping[c] = "live"
<1>0. TypeOK /\ RevisionsExist /\ c \in Key
  BY DEF SoloInv, IInv, Key, Child
<1>1. PICK w \in Replica : Handle(w)
  BY DEF Next, Write, Expire, Deliver, Stops, Crash, Shutdown,
     Close, Restart, vars, sinks
<1>2. /\ At(w, "index")
      /\ index' = [index EXCEPT ![KeyOf(w)] =
             [rev |-> job[w].rev, doc |-> Document(w), act |-> job[w].act]]
  BY <1>1, IndexMoves
<1>3. c = KeyOf(w) /\ index'[c].doc = Document(w) /\ index'[c].act = job[w].act
  BY <1>0, <1>2 DEF TypeOK, EffectsTypeOK
<1>4. job[w].act # "deleted"
  BY <1>3 DEF Document
<1> QED BY <1>2, <1>3, <1>4 DEF SoloInv, ResultCurrent, At

\* A single replica publishes a result only while its vote is mapped and not
\* deleted: the check at the start of the handler is not overtaken.
THEOREM ResultsUnderLiveVotes ==
  ASSUME OneReplica
  PROVE  Spec => ResultUnderLiveVote
<1>1. SoloInv /\ [Next]_vars => [\A c \in Result : PublishesUnderLiveVote(c)]_vars
  BY ResultSteps DEF PublishesUnderLiveVote
<1> QED BY <1>1, SoloInvariant, PTL DEF Spec, ResultUnderLiveVote

\* A single replica tells the indexer "updated" only of a result that is mapped
\* and not deleted.
THEOREM ResultUpdatesLive ==
  ASSUME OneReplica
  PROVE  Spec => ResultUpdatedOnlyIfLive
<1>1. SoloInv /\ [Next]_vars => [\A k \in Result : UpdatesLive(k)]_vars
  <2> SUFFICES ASSUME SoloInv, [Next]_vars, NEW k \in Result,
                      index'[k] # index[k], index'[k].act = "updated"
               PROVE  mapping[k] = "live"
    BY DEF UpdatesLive
  <2>1. index'[k].doc # "none"
    <3>1. TypeOK /\ k \in Key
      BY DEF SoloInv, IInv, Key, Child
    <3>2. PICK w \in Replica : Handle(w)
      BY DEF Next, Write, Expire, Deliver, Stops, Crash, Shutdown,
         Close, Restart, vars, sinks
    <3>3. index' = [index EXCEPT ![KeyOf(w)] =
             [rev |-> job[w].rev, doc |-> Document(w), act |-> job[w].act]]
      BY <3>2, IndexMoves
    <3> QED BY <3>1, <3>3 DEF TypeOK, EffectsTypeOK, Document
  <2> QED BY <2>1, ResultSteps
<1> QED BY <1>1, SoloInvariant, PTL DEF Spec, ResultUpdatedOnlyIfLive

-----------------------------------------------------------------------------
(* What an acknowledged write has left behind, when nothing it says is refused: *)
(* the replica waits out every other fault, except that a response is given up  *)
(* when the mapper does not answer, or the replica is shut down while it asks.  *)
(* What it says of a voter's tuple, which another response of that voter may    *)
(* take away, it says while the upstream names a voter in one response of a     *)
(* vote only.                                                                   *)

NeverRefused == Faults \cap {"reject", "payload"} = {}
WaitsOut(k) == k \in Response => Faults \cap {"mapper", "shutdown"} = {}
NeverGivesUp == NeverRefused /\ Faults \cap {"mapper", "shutdown"} = {}

DistinctVoters ==
  \A a, b \in Response : (a # b /\ ParentOf[a] = ParentOf[b]) =>
    \A i \in 1..Len(log[a]), j \in 1..Len(log[b]) :
      log[a][i].user = log[b][j].user => log[a][i].user = NoUser

VoteDeleted(v) == \E i \in 1..Len(log[v]) : log[v][i].op \in {"soft", "hard"}

\* Revision r of record k is in the indexer, its own tuples and its voter's in
\* fga-sync.
IndexedAt(k, r) == index[k].rev = r /\ index[k].doc # "none"
Accessed(k, r) == k \notin Result => access[k] = r
Participates(k, r) ==
  (k \in Response /\ DistinctVoters /\ log[k][r].user # NoUser) =>
    /\ RevokesParticipant(log[k][r]) => <<ParentOf[k], log[k][r].user>> \notin grants
    /\ GrantsParticipant(log[k][r]) =>
         <<ParentOf[k], log[k][r].user>> \in grants \/ VoteDeleted(ParentOf[k])

\* Only deletes take the delete path.
DeletesAreDeletes(w) ==
  (job[w] # Idle /\ (job[w].pc = "dedupe" \/ job[w].act = "deleted")) =>
    EntryOf(w).op \in {"soft", "hard"}

\* A write has reached the sinks its handler has published to.
PutStage(w) ==
  (job[w] # Idle /\ EntryOf(w).op = "put") =>
    /\ job[w].pc \in {"access", "participant", "record", "marker", "resolve", "pend",
                      "send", "done"} => IndexedAt(KeyOf(w), job[w].rev)
    /\ job[w].pc \in {"participant", "record", "marker", "resolve", "pend", "send",
                      "done"} => Accessed(KeyOf(w), job[w].rev)
    /\ job[w].pc \in {"record", "marker", "resolve", "pend", "send", "done"} =>
         Participates(KeyOf(w), job[w].rev)

AckedStage(k) ==
  (cons[k].st = "acked" /\ Stored(k).op = "put") =>
    IndexedAt(k, Len(log[k])) /\ Accessed(k, Len(log[k])) /\ Participates(k, Len(log[k]))

PutInv ==
  /\ SoloInv
  /\ \A w \in Replica : DeletesAreDeletes(w)
  /\ \A w \in Replica : PutStage(w)
  /\ \A k \in Key : WaitsOut(k) => AckedStage(k)

LEMMA LogKeeps ==
  ASSUME SoloInv, [Next]_vars
  PROVE  \A k \in Key : /\ Len(log[k]) \in Nat /\ Len(log'[k]) \in Nat
                        /\ Len(log[k]) <= Len(log'[k])
                        /\ \A i \in 1..Len(log[k]) : log'[k][i] = log[k][i]
<1>0. TypeOK /\ RevisionsExist /\ \A k \in Key : Len(log[k]) \in Nat
  BY DEF SoloInv, IInv, TypeOK, QueuesTypeOK
<1>1. CASE log' = log
  BY <1>0, <1>1
<1>2. ASSUME NEW k \in Key, NEW e \in Entry, Write(k, e)
      PROVE  \A x \in Key : /\ Len(log'[x]) \in Nat /\ Len(log[x]) <= Len(log'[x])
                            /\ \A i \in 1..Len(log[x]) : log'[x][i] = log[x][i]
  BY <1>0, <1>2 DEF Write, Supersede, TypeOK, QueuesTypeOK
<1>3. log' = log \/ \E k \in Key, e \in Entry : Write(k, e)
  <2>1. ASSUME NEW w \in Replica, Handle(w) PROVE log' = log
    <3>1. CASE Receive(w)
      BY <3>1 DEF Receive
    <3>2. CASE ~Receive(w)
      BY <1>0, <2>1, <3>2, Stands
    <3> QED BY <3>1, <3>2
  <2> QED BY <2>1 DEF Next, Expire, Deliver, Stops, Crash, Shutdown,
     Close, Restart, vars, sinks, stream
<1> QED BY <1>0, <1>1, <1>2, <1>3

\* Voters told apart by every revision of now were told apart before.
LEMMA VotersWereDistinct ==
  ASSUME SoloInv, [Next]_vars, DistinctVoters'
  PROVE  DistinctVoters
<1> SUFFICES ASSUME NEW a \in Response, NEW b \in Response, a # b,
                    ParentOf[a] = ParentOf[b],
                    NEW i \in 1..Len(log[a]), NEW j \in 1..Len(log[b]),
                    log[a][i].user = log[b][j].user
             PROVE  log[a][i].user = NoUser
  BY DEF DistinctVoters
<1>1. a \in Key /\ b \in Key
  BY DEF Key, Child
<1>2. /\ i \in 1..Len(log'[a]) /\ log'[a][i] = log[a][i]
      /\ j \in 1..Len(log'[b]) /\ log'[b][j] = log[b][j]
  BY <1>1, LogKeeps
<1> QED BY <1>2 DEF DistinctVoters

LEMMA AccessMoves ==
  ASSUME NEW w \in Replica, Handle(w)
  PROVE  \/ access' = access
         \/ /\ At(w, "access") /\ ~Receive(w)
            /\ access' = [access EXCEPT ![KeyOf(w)] =
                 IF job[w].act = "deleted" THEN 0 ELSE job[w].rev]
<1>1. CASE VoteAccess(w) \/ ResponseAccess(w)
  BY <1>1 DEF VoteAccess, ResponseAccess, PublishFails, sinks, Receive, At, Idle
<1>2. CASE ~VoteAccess(w) /\ ~ResponseAccess(w)
  BY <1>2 DEF Handle, Receive, ConvertVote, ConvertResponse, ConvertResult,
     ResponseParent, ResultParent, ReadPrivacy, LookupAction, Dedupe, Done, CheckMarker,
     ResolveInvitee, PublishIndex, Participant, PublishFails,
     StoreMapping, MarkPending, SendInvite, sinks
<1> QED BY <1>1, <1>2

LEMMA GrantMoves ==
  ASSUME NEW w \in Replica, Handle(w)
  PROVE  \/ grants' = grants
         \/ /\ ~Receive(w) /\ KeyOf(w) \in Vote /\ job[w].act = "deleted"
            /\ grants' = {g \in grants : g[1] # KeyOf(w)}
         \/ /\ ~Receive(w) /\ At(w, "participant") /\ EntryOf(w).user # NoUser
            /\ grants' = IF RevokesParticipant(EntryOf(w))
                           THEN grants \ {<<ParentOf[KeyOf(w)], EntryOf(w).user>>}
                         ELSE IF GrantsParticipant(EntryOf(w))
                           THEN grants \cup {<<ParentOf[KeyOf(w)], EntryOf(w).user>>}
                         ELSE grants
<1>1. CASE VoteAccess(w)
  BY <1>1 DEF VoteAccess, PublishFails, sinks, Receive, At, Idle
<1>2. CASE Participant(w)
  BY <1>2 DEF Participant, PublishFails, sinks, Receive, At, Idle
<1>3. CASE ~VoteAccess(w) /\ ~Participant(w)
  BY <1>3 DEF Handle, Receive, ConvertVote, ConvertResponse, ConvertResult,
     ResponseParent, ResultParent, ReadPrivacy, LookupAction, Dedupe, Done, CheckMarker,
     ResolveInvitee, PublishIndex, ResponseAccess, PublishFails,
     StoreMapping, MarkPending, SendInvite, sinks
<1> QED BY <1>1, <1>2, <1>3

\* A handler's step takes back nothing of a revision another delivery put there.
LEMMA HandleKeepsPut ==
  ASSUME SoloInv, NEW w \in Replica, DeletesAreDeletes(w), Handle(w),
         NEW k \in Key, NEW r \in 1..Len(log[k]), log[k][r].op = "put",
         (job[w] # Idle /\ KeyOf(w) = k) => job[w].rev = r
  PROVE  /\ IndexedAt(k, r) => IndexedAt(k, r)'
         /\ Accessed(k, r) => Accessed(k, r)'
         /\ Participates(k, r) => Participates(k, r)'
<1>0. /\ TypeOK /\ RevisionsExist /\ StepFits(w)
      /\ DistinctVoters' => DistinctVoters
  BY VotersWereDistinct DEF SoloInv, IInv, Next
<1>1. CASE Receive(w)
  BY <1>0, <1>1 DEF Receive, sinks, IndexedAt, Accessed, Participates, VoteDeleted
<1>2. CASE ~Receive(w)
  <2>1. /\ job[w] \in Job /\ job[w] # Idle /\ KeyOf(w) \in Key /\ log' = log
        /\ job[w].rev \in 1..Len(log[KeyOf(w)]) /\ EntryOf(w) = log[KeyOf(w)][job[w].rev]
    BY <1>0, <1>2, HandleContinues, BusyRevision, Stands DEF EntryOf, KeyOf
  <2>2. KeyOf(w) = k => job[w].act # "deleted"
    BY <2>1 DEF DeletesAreDeletes
  <2>3. IndexedAt(k, r) => IndexedAt(k, r)'
    <3>1. \/ index' = index
          \/ index' = [index EXCEPT ![KeyOf(w)] =
                 [rev |-> job[w].rev, doc |-> Document(w), act |-> job[w].act]]
      BY IndexMoves
    <3>2. job[w].act # "deleted" => Document(w) # "none"
      BY DEF Document
    <3>3. \/ index'[k] = index[k]
          \/ KeyOf(w) = k /\ index'[k].rev = job[w].rev /\ index'[k].doc = Document(w)
      BY <1>0, <2>1, <3>1 DEF TypeOK, EffectsTypeOK
    <3> QED BY <2>1, <2>2, <3>2, <3>3 DEF IndexedAt
  <2>4. Accessed(k, r) => Accessed(k, r)'
    <3>1. access'[k] = access[k] \/ access'[k] = r
      BY <1>0, <2>1, <2>2, AccessMoves DEF TypeOK, EffectsTypeOK
    <3> QED BY <3>1 DEF Accessed
  <2> DEFINE e == log[k][r]
             tuple == <<ParentOf[k], e.user>>
  <2>5. ASSUME k \in Response, DistinctVoters, e.user # NoUser, Participates(k, r)
        PROVE  /\ RevokesParticipant(e) => tuple \notin grants'
               /\ GrantsParticipant(e) => tuple \in grants' \/ VoteDeleted(ParentOf[k])
    <3>1. /\ RevokesParticipant(e) => tuple \notin grants
          /\ GrantsParticipant(e) => tuple \in grants \/ VoteDeleted(ParentOf[k])
      BY <2>5 DEF Participates
    <3>2. CASE grants' = grants
      BY <3>1, <3>2
    <3>3. CASE /\ KeyOf(w) \in Vote /\ job[w].act = "deleted"
               /\ grants' = {g \in grants : g[1] # KeyOf(w)}
      <4>1. VoteDeleted(KeyOf(w))
        BY <2>1, <3>3 DEF DeletesAreDeletes, VoteDeleted
      <4>2. tuple[1] = ParentOf[k]
        OBVIOUS
      <4> HIDE DEF tuple, e
      <4> QED BY <3>1, <3>3, <4>1, <4>2
    <3>4. CASE /\ At(w, "participant") /\ EntryOf(w).user # NoUser
               /\ grants' = IF RevokesParticipant(EntryOf(w))
                           THEN grants \ {<<ParentOf[KeyOf(w)], EntryOf(w).user>>}
                         ELSE IF GrantsParticipant(EntryOf(w))
                           THEN grants \cup {<<ParentOf[KeyOf(w)], EntryOf(w).user>>}
                         ELSE grants
      <4>1. KeyOf(w) \in Response
        BY <1>0, <3>4 DEF At, StepFits
      <4>2. CASE KeyOf(w) = k
        <5>1. EntryOf(w) = e
          BY <2>1, <4>2
        <5>2. ~(RevokesParticipant(e) /\ GrantsParticipant(e))
          BY DEF RevokesParticipant, GrantsParticipant
        <5> HIDE DEF e
        <5> QED BY <3>4, <4>2, <5>1, <5>2
      <4>3. CASE KeyOf(w) # k
        <5>1. <<ParentOf[KeyOf(w)], EntryOf(w).user>> # tuple
          <6>1. ParentOf[KeyOf(w)] = ParentOf[k] => EntryOf(w).user # e.user
            BY <2>1, <2>5, <4>1, <4>3 DEF DistinctVoters
          <6> HIDE DEF e
          <6> QED BY <6>1
        <5> HIDE DEF tuple, e
        <5> QED BY <3>1, <3>4, <5>1
      <4> QED BY <4>2, <4>3
    <3> QED BY <3>2, <3>3, <3>4, GrantMoves
  <2>6. Participates(k, r) => Participates(k, r)'
    <3>1. VoteDeleted(ParentOf[k])' <=> VoteDeleted(ParentOf[k])
      BY <2>1 DEF VoteDeleted
    <3> HIDE DEF e, tuple
    <3> QED BY <1>0, <2>1, <2>5, <3>1 DEF Participates, e, tuple
  <2> QED BY <2>3, <2>4, <2>6
<1> QED BY <1>1, <1>2

LEMMA ActKept ==
  ASSUME TypeOK, RevisionsExist, NEW w \in Replica, Handle(w), ~Receive(w),
         ~Ack(w), ~Nak(w), ~LookupAction(w), ~Dedupe(w)
  PROVE  job'[w].act = job[w].act
<1>1. job[w] \in Job
  BY HandleContinues
<1>2. ASSUME NEW pc, Goto(w, pc) PROVE job'[w].act = job[w].act
  BY <1>1, <1>2, GotoJob
<1>3. CASE ReadPrivacy(w)
  <2> DEFINE hidden == PseudoAnonymous(ParentOf[KeyOf(w)])
  <2>1. job' = [job EXCEPT ![w].pc = "lookup", ![w].redact = hidden]
    BY <1>3 DEF ReadPrivacy
  <2> HIDE DEF hidden
  <2> QED BY <1>1, <2>1 DEF TypeOK, QueuesTypeOK, Job
<1>4. CASE ~ReadPrivacy(w)
  BY <1>2, <1>4 DEF Handle, ConvertVote, ConvertResponse,
     ConvertResult, ResponseParent, ResultParent, PublishIndex, VoteAccess,
     ResponseAccess, Participant, PublishFails, StoreMapping, Done, CheckMarker,
     ResolveInvitee, MarkPending, SendInvite
<1> QED BY <1>3, <1>4

LEMMA HandleDeletes ==
  ASSUME TypeOK, RevisionsExist, NEW w \in Replica, DeletesAreDeletes(w), Handle(w)
  PROVE  DeletesAreDeletes(w)'
<1>1. CASE Receive(w)
  <2>1. buf[w][1].key \in Key /\ buf[w][1].rev \in 1..Len(log[buf[w][1].key])
    BY <1>1, ReceiveHead, HeldTypes
  <2>2. log[buf[w][1].key][buf[w][1].rev].op \in OpKinds
    <3>1. log[buf[w][1].key] \in Seq(Entry)
      BY <2>1 DEF TypeOK, QueuesTypeOK
    <3>2. log[buf[w][1].key][buf[w][1].rev] \in Entry
      BY <2>1, <3>1
    <3> QED BY <3>2 DEF Entry
  <2> QED BY <1>1, <2>2, ReceiveHead DEF DeletesAreDeletes, EntryOf, OpKinds
<1>2. CASE ~Receive(w)
  <2> SUFFICES ASSUME job'[w] # Idle, job'[w].pc = "dedupe" \/ job'[w].act = "deleted"
               PROVE  EntryOf(w).op \in {"soft", "hard"} /\ EntryOf(w)' = EntryOf(w)
    BY DEF DeletesAreDeletes
  <2>1. /\ job[w] \in Job /\ job[w] # Idle /\ Continues(w) /\ log' = log
        /\ ~Ack(w) /\ ~Nak(w) /\ job'[w].act = "deleted"
    BY <1>2, HandleContinues, BusyRevision, StepOrder, Stands
  <2>2. EntryOf(w)' = EntryOf(w)
    BY <2>1 DEF EntryOf, Continues
  <2>3. job[w].act = "deleted" \/ Dedupe(w)
    <3>1. ~LookupAction(w)
      BY <2>1 DEF LookupAction, TypeOK, QueuesTypeOK, Job
    <3> QED BY <1>2, <2>1, <3>1, ActKept
  <2> QED BY <2>1, <2>2, <2>3 DEF DeletesAreDeletes, Dedupe, At
<1> QED BY <1>1, <1>2

LEMMA HandlePutStage ==
  ASSUME SoloInv, NEW w \in Replica, DeletesAreDeletes(w), PutStage(w), Handle(w)
  PROVE  PutStage(w)'
<1>0. TypeOK /\ RevisionsExist /\ StepFits(w)
  BY DEF SoloInv, IInv
<1>1. CASE Receive(w)
  BY <1>0, <1>1, ReceiveGoes DEF PutStage
<1>2. CASE ~Receive(w)
  <2> SUFFICES ASSUME job'[w] # Idle, EntryOf(w)'.op = "put"
               PROVE  PutStage(w)'
    BY DEF PutStage
  <2>0. PICK k, r : k = KeyOf(w) /\ r = job[w].rev
    OBVIOUS
  <2>1. /\ job[w] \in Job /\ job[w] # Idle /\ log' = log /\ k \in Key
        /\ r \in 1..Len(log[k]) /\ EntryOf(w) = log[k][r]
        /\ KeyOf(w)' = k /\ job'[w].rev = r
    BY <1>0, <1>2, <2>0, HandleContinues, BusyRevision, Stands
       DEF Continues, EntryOf, KeyOf
  <2>2. EntryOf(w).op = "put" /\ log[k][r].op = "put"
    BY <2>1 DEF EntryOf, KeyOf
  <2>3. job[w].act # "deleted"
    BY <2>1, <2>2 DEF DeletesAreDeletes
  <2>4. /\ IndexedAt(k, r) => IndexedAt(k, r)'
        /\ Accessed(k, r) => Accessed(k, r)'
        /\ Participates(k, r) => Participates(k, r)'
    BY <2>0, <2>1, <2>2, HandleKeepsPut
  <2>5. ASSUME NEW pc, Goto(w, pc) PROVE job'[w].pc = pc
    BY <1>0, <2>1, <2>5, GotoJob
  <2>6. k \in Response => k \notin Result /\ k \notin Vote
    BY KeysAssumption
  <2>7. ~Ack(w) /\ ~Nak(w) /\ ~PublishFails(w)
    BY <1>0, <1>2, StepOrder DEF PublishFails
  <2>8. PublishIndex(w) => IndexedAt(k, r)'
    <3> SUFFICES ASSUME PublishIndex(w) PROVE IndexedAt(k, r)'
      OBVIOUS
    <3>1. index' = [index EXCEPT ![k] =
                 [rev |-> r, doc |-> Document(w), act |-> job[w].act]]
      BY <2>0, <2>7 DEF PublishIndex
    <3>2. Document(w) # "none"
      BY <2>3 DEF Document
    <3>3. index'[k] = [rev |-> r, doc |-> Document(w), act |-> job[w].act]
      BY <1>0, <2>1, <3>1 DEF TypeOK, EffectsTypeOK
    <3> QED BY <3>2, <3>3 DEF IndexedAt
  <2>9. VoteAccess(w) \/ ResponseAccess(w) => Accessed(k, r)'
    <3> SUFFICES ASSUME VoteAccess(w) \/ ResponseAccess(w) PROVE Accessed(k, r)'
      OBVIOUS
    <3>1. access' = [access EXCEPT ![k] = r]
      BY <2>0, <2>3, <2>7 DEF VoteAccess, ResponseAccess
    <3> QED BY <1>0, <2>1, <3>1 DEF TypeOK, EffectsTypeOK, Accessed
  <2>10. Participant(w) => Participates(k, r)'
    <3> SUFFICES ASSUME Participant(w), EntryOf(w).user # NoUser
                 PROVE  Participates(k, r)'
      BY <2>1 DEF Participates
    <3> DEFINE e == EntryOf(w)
               tuple == <<ParentOf[k], e.user>>
    <3>1. grants' = IF RevokesParticipant(e) THEN grants \ {tuple}
                    ELSE IF GrantsParticipant(e) THEN grants \cup {tuple} ELSE grants
      BY <2>0, <2>7 DEF Participant
    <3>2. ~(RevokesParticipant(e) /\ GrantsParticipant(e))
      BY DEF RevokesParticipant, GrantsParticipant
    <3> HIDE DEF tuple, e
    <3>3. /\ RevokesParticipant(e) => tuple \notin grants'
          /\ GrantsParticipant(e) => tuple \in grants'
      BY <3>1, <3>2
    <3> QED BY <2>1, <3>3 DEF Participates, e, tuple
  <2>11. k \notin Response => Participates(k, r)'
    BY DEF Participates
  <2>12. k \in Result => Accessed(k, r)'
    BY DEF Accessed
  <2>13. job'[w].pc \in {"access", "participant", "record", "marker", "resolve", "pend",
                         "send", "done"} => IndexedAt(k, r)'
    <3>1. CASE PublishIndex(w)
      BY <2>8, <3>1
    <3>2. CASE ~PublishIndex(w)
      BY <1>0, <1>2, <2>0, <2>1, <2>2, <2>4, <3>2, StepOrder DEF PutStage, VoteAccess,
         ResponseAccess, Participant, StoreMapping, CheckMarker, ResolveInvitee,
         MarkPending, SendInvite, At
    <3> QED BY <3>1, <3>2
  <2>14. job'[w].pc \in {"participant", "record", "marker", "resolve", "pend", "send",
                         "done"} => Accessed(k, r)'
    <3>1. CASE VoteAccess(w) \/ ResponseAccess(w)
      BY <2>9, <3>1
    <3>2. CASE PublishIndex(w)
      <4>1. job'[w].pc = IF k \in Result THEN "record" ELSE "access"
        BY <2>0, <2>5, <2>7, <3>2 DEF PublishIndex
      <4> QED BY <2>12, <4>1
    <3>3. CASE ~VoteAccess(w) /\ ~ResponseAccess(w) /\ ~PublishIndex(w)
      BY <1>0, <1>2, <2>0, <2>1, <2>2, <2>4, <3>3, StepOrder DEF PutStage,
         Participant, StoreMapping, CheckMarker, ResolveInvitee,
         MarkPending, SendInvite, At
    <3> QED BY <3>1, <3>2, <3>3
  <2>15. job'[w].pc \in {"record", "marker", "resolve", "pend", "send", "done"}
           => Participates(k, r)'
    <3>1. CASE Participant(w)
      BY <2>10, <3>1
    <3>2. CASE PublishIndex(w) \/ VoteAccess(w)
      <4>1. k \in Vote \/ k \in Result \/ job'[w].pc = "access"
        BY <2>0, <2>5, <2>7, <3>2 DEF PublishIndex, VoteAccess
      <4> QED BY <2>6, <2>11, <4>1
    <3>3. CASE ~Participant(w) /\ ~PublishIndex(w) /\ ~VoteAccess(w)
      BY <1>0, <1>2, <2>0, <2>1, <2>2, <2>4, <3>3, StepOrder DEF PutStage,
         StoreMapping, CheckMarker, ResolveInvitee, MarkPending, SendInvite, At
    <3> QED BY <3>1, <3>2, <3>3
  <2> QED BY <2>1, <2>13, <2>14, <2>15 DEF PutStage
<1> QED BY <1>1, <1>2

LEMMA AcksOrStays ==
  ASSUME NEW w \in Replica, Handle(w), ~Receive(w)
  PROVE  cons' = cons \/ Ack(w) \/ Nak(w)
<1>1. CASE ReadPrivacy(w) \/ LookupAction(w) \/ Dedupe(w) \/ Done(w)
  BY <1>1 DEF ReadPrivacy, LookupAction, Dedupe, Done, stream
<1>2. \A pc : Goto(w, pc) => cons' = cons
  BY DEF Goto, stream
<1>3. PublishFails(w) => Ack(w) \/ Nak(w)
  BY DEF PublishFails
<1>4. CASE \/ ConvertVote(w) \/ ConvertResponse(w) \/ ConvertResult(w)
           \/ ResponseParent(w) \/ ResultParent(w)
  BY <1>2, <1>4 DEF ConvertVote, ConvertResponse, ConvertResult, ResponseParent,
     ResultParent
<1>5. CASE \/ PublishIndex(w) \/ VoteAccess(w) \/ ResponseAccess(w) \/ Participant(w)
  BY <1>2, <1>3, <1>5 DEF PublishIndex, VoteAccess, ResponseAccess, Participant
<1>6. CASE \/ StoreMapping(w) \/ CheckMarker(w) \/ ResolveInvitee(w)
           \/ MarkPending(w) \/ SendInvite(w)
  BY <1>2, <1>6 DEF StoreMapping, CheckMarker, ResolveInvitee, MarkPending, SendInvite
<1> QED BY <1>1, <1>4, <1>5, <1>6 DEF Handle

\* Whoever acknowledges a record's stored revision holds it.
LEMMA AckedByHolder ==
  ASSUME TypeOK, RevisionsExist, NEW w \in Replica, Handle(w), ~Receive(w),
         NEW k \in Key, cons'[k].st = "acked", cons[k].st # "acked"
  PROVE  Ack(w) /\ ~Nak(w) /\ k = KeyOf(w) /\ job[w].rev = Len(log[k])
<1>1. job[w] \in Job /\ job[w].key \in Key /\ cons' # cons
  BY HandleContinues DEF Job
<1>2. ~Nak(w)
  <2>1. AfterAttempt(job[w].key) # "acked"
    BY DEF AfterAttempt
  <2>2. ASSUME NEW st, st # "acked", cons' = [cons EXCEPT ![job[w].key].st = st]
        PROVE  FALSE
    BY <1>1, <2>2 DEF TypeOK, QueuesTypeOK
  <2> QED BY <1>1, <2>1, <2>2 DEF Nak, NakMsg
<1>3. Ack(w)
  BY <1>1, <1>2, AcksOrStays
<1>4. k = KeyOf(w) /\ job[w].rev = Len(log[k])
  BY <1>1, <1>3 DEF Ack, AckMsg, TypeOK, QueuesTypeOK, KeyOf
<1> QED BY <1>2, <1>3, <1>4

\* A handler that never gives up acknowledges its delivery when it is done, or
\* finds its record deleted already.
LEMMA NewAcks ==
  ASSUME NeverRefused, TypeOK, RevisionsExist, NEW w \in Replica, Handle(w), ~Receive(w),
         NEW k \in Key, WaitsOut(k), cons'[k].st = "acked", cons[k].st # "acked"
  PROVE  /\ k = KeyOf(w) /\ job[w].rev = Len(log[k])
         /\ Done(w) \/ Dedupe(w)
<1>1. Ack(w) /\ ~Nak(w) /\ k = KeyOf(w) /\ job[w].rev = Len(log[k]) /\ cons' # cons
  BY AckedByHolder
<1>2. ~PublishFails(w) /\ \A pc : ~Goto(w, pc)
  BY <1>1 DEF PublishFails, Goto, stream, NeverRefused
<1>3. /\ ~ConvertVote(w) /\ ~ConvertResponse(w) /\ ~ConvertResult(w)
      /\ ~ResponseParent(w) /\ ~ResultParent(w)
  <2>1. k \in Response => ~CallFails(w, "mapper")
    BY DEF CallFails, WaitsOut, TypeOK, QueuesTypeOK
  <2> QED BY <1>1, <1>2, <2>1 DEF ConvertVote, ConvertResponse, ConvertResult,
     ResponseParent, ResultParent, NeverRefused
<1>4. ~ReadPrivacy(w) /\ ~LookupAction(w)
  BY <1>1 DEF ReadPrivacy, LookupAction, stream
<1>5. /\ ~PublishIndex(w) /\ ~VoteAccess(w) /\ ~ResponseAccess(w) /\ ~Participant(w)
      /\ ~StoreMapping(w) /\ ~CheckMarker(w) /\ ~ResolveInvitee(w)
      /\ ~MarkPending(w) /\ ~SendInvite(w)
  BY <1>2 DEF PublishIndex, VoteAccess, ResponseAccess, Participant, StoreMapping,
     CheckMarker, ResolveInvitee, MarkPending, SendInvite
<1> QED BY <1>1, <1>3, <1>4, <1>5 DEF Handle

LEMMA HandleAcked ==
  ASSUME NeverRefused, SoloInv, NEW w \in Replica,
         DeletesAreDeletes(w), PutStage(w), Handle(w),
         NEW k \in Key, WaitsOut(k), AckedStage(k)
  PROVE  AckedStage(k)'
<1>0. TypeOK /\ RevisionsExist /\ RevisionsExist' /\ InOrder(w)
  BY HandleRevisions DEF SoloInv, IInv
<1> SUFFICES ASSUME cons'[k].st = "acked", Stored(k)'.op = "put"
             PROVE  /\ IndexedAt(k, Len(log[k]))' /\ Accessed(k, Len(log[k]))'
                    /\ Participates(k, Len(log[k]))'
  BY DEF AckedStage
<1>1. log' = log
  <2>1. CASE Receive(w)
    BY <2>1 DEF Receive
  <2>2. CASE ~Receive(w)
    BY <1>0, <2>2, Stands
  <2> QED BY <2>1, <2>2
<1>2. PICK r : r = Len(log[k])
  OBVIOUS
<1>3. /\ r \in 1..Len(log[k]) /\ log[k][r].op = "put" /\ Len(log'[k]) = r
  BY <1>0, <1>1, <1>2 DEF RevisionsExist, Stored, TypeOK, QueuesTypeOK
<1> SUFFICES IndexedAt(k, r)' /\ Accessed(k, r)' /\ Participates(k, r)'
  BY <1>3
<1>4. CASE cons[k].st = "acked"
  <2>1. IndexedAt(k, r) /\ Accessed(k, r) /\ Participates(k, r)
    BY <1>2, <1>3, <1>4 DEF AckedStage, Stored
  <2>2. (job[w] # Idle /\ KeyOf(w) = k) => job[w].rev = r
    <3> SUFFICES ASSUME job[w] # Idle, job[w].key = k PROVE job[w].rev = r
      BY DEF KeyOf
    <3>1. job[w].rev \in 1..Len(log[k]) /\ index[k].rev = r /\ index[k].rev <= job[w].rev
      BY <1>0, <2>1 DEF RevisionsExist, InOrder, IndexedAt
    <3>2. Len(log[k]) \in Nat
      BY <1>0 DEF TypeOK, QueuesTypeOK
    <3> QED BY <1>2, <3>1, <3>2
  <2> QED BY <1>3, <2>1, <2>2, HandleKeepsPut
<1>5. CASE cons[k].st # "acked" /\ Receive(w)
  <2>1. /\ 1 \in 1..Len(buf[w]) /\ AckMsg(buf[w][1])
        /\ log[buf[w][1].key][buf[w][1].rev].op = "junk"
    BY <1>0, <1>5, ReceiveHead
  <2>2. buf[w][1].key \in Key
    BY <1>0, <2>1, HeldTypes
  <2>3. buf[w][1].key = k /\ buf[w][1].rev = r
    BY <1>0, <1>2, <1>5, <2>1, <2>2 DEF AckMsg, TypeOK, QueuesTypeOK
  <2> QED BY <1>3, <2>1, <2>3
<1>6. CASE cons[k].st # "acked" /\ ~Receive(w)
  <2>1. k = KeyOf(w) /\ job[w].rev = r /\ (Done(w) \/ Dedupe(w))
    BY <1>0, <1>2, <1>6, NewAcks
  <2>2. job[w] # Idle /\ EntryOf(w) = log[k][r]
    BY <1>0, <1>6, <2>1, HandleContinues, BusyRevision DEF EntryOf, KeyOf
  <2>3. Done(w)
    BY <1>3, <2>1, <2>2 DEF Dedupe, At, DeletesAreDeletes
  <2>4. IndexedAt(k, r) /\ Accessed(k, r) /\ Participates(k, r)
    BY <1>3, <2>1, <2>2, <2>3 DEF Done, At, PutStage
  <2> QED BY <1>3, <2>1, <2>4, HandleKeepsPut
<1> QED BY <1>4, <1>5, <1>6

\* The steps of the upstream and the consumer publish nothing.
LEMMA QuietPuts ==
  ASSUME PutInv, [Next]_vars, UNCHANGED sinks,
         \A w \in Replica : job'[w] = job[w] \/ job'[w] = Idle,
         \A k \in Key : cons'[k].st = "acked" => cons[k].st = "acked" /\ log'[k] = log[k]
  PROVE  /\ \A w \in Replica : DeletesAreDeletes(w)' /\ PutStage(w)'
         /\ \A k \in Key : WaitsOut(k) => AckedStage(k)'
<1>0. SoloInv /\ TypeOK /\ RevisionsExist /\ (DistinctVoters' => DistinctVoters)
  BY VotersWereDistinct DEF PutInv, SoloInv, IInv
<1>1. ASSUME NEW k \in Key, NEW r \in 1..Len(log[k])
      PROVE  /\ log'[k][r] = log[k][r]
             /\ IndexedAt(k, r) => IndexedAt(k, r)'
             /\ Accessed(k, r) => Accessed(k, r)'
             /\ Participates(k, r) => Participates(k, r)'
  <2>1. log'[k][r] = log[k][r]
    BY <1>0, LogKeeps
  <2>2. k \in Response => (VoteDeleted(ParentOf[k]) => VoteDeleted(ParentOf[k])')
    <3> SUFFICES ASSUME k \in Response, NEW i \in 1..Len(log[ParentOf[k]]),
                        log[ParentOf[k]][i].op \in {"soft", "hard"}
                 PROVE  VoteDeleted(ParentOf[k])'
      BY DEF VoteDeleted
    <3>1. ParentOf[k] \in Key
      BY KeysAssumption DEF Key, Child
    <3>2. i \in 1..Len(log'[ParentOf[k]]) /\ log'[ParentOf[k]][i] = log[ParentOf[k]][i]
      BY <1>0, <3>1, LogKeeps
    <3> QED BY <3>2 DEF VoteDeleted
  <2>3. IndexedAt(k, r) => IndexedAt(k, r)'
    BY DEF IndexedAt, sinks
  <2>4. Accessed(k, r) => Accessed(k, r)'
    BY DEF Accessed, sinks
  <2>5. Participates(k, r) => Participates(k, r)'
    BY <1>0, <2>1, <2>2 DEF Participates, sinks
  <2> QED BY <2>1, <2>3, <2>4, <2>5
<1>2. ASSUME NEW w \in Replica PROVE DeletesAreDeletes(w)' /\ PutStage(w)'
  <2>1. CASE job'[w] = Idle
    BY <2>1 DEF DeletesAreDeletes, PutStage
  <2>2. CASE job'[w] = job[w] /\ job[w] # Idle
    <3>1. PICK k, r : k = KeyOf(w) /\ r = job[w].rev
      OBVIOUS
    <3>2. k \in Key /\ r \in 1..Len(log[k])
      BY <1>0, <2>2, <3>1 DEF TypeOK, QueuesTypeOK, Job, RevisionsExist, KeyOf
    <3>3. KeyOf(w)' = k /\ EntryOf(w) = log[k][r] /\ EntryOf(w)' = log[k][r]
      BY <1>1, <2>2, <3>1, <3>2 DEF KeyOf, EntryOf
    <3>4. DeletesAreDeletes(w)'
      BY <2>2, <3>3 DEF PutInv, DeletesAreDeletes
    <3>5. PutStage(w)'
      BY <1>1, <2>2, <3>1, <3>2, <3>3 DEF PutInv, PutStage
    <3> QED BY <3>4, <3>5
  <2> QED BY <2>1, <2>2
<1>3. ASSUME NEW k \in Key, WaitsOut(k) PROVE AckedStage(k)'
  <2> SUFFICES ASSUME cons'[k].st = "acked", Stored(k)'.op = "put" PROVE AckedStage(k)'
    BY DEF AckedStage
  <2>1. cons[k].st = "acked" /\ log'[k] = log[k]
    OBVIOUS
  <2>2. PICK r : r = Len(log[k])
    OBVIOUS
  <2>3. r \in 1..Len(log[k]) /\ Len(log'[k]) = r /\ Stored(k).op = "put"
    <3>1. Len(log[k]) \in Nat /\ Len(log[k]) > 0
      BY <1>0, <2>1 DEF RevisionsExist, TypeOK, QueuesTypeOK
    <3>2. Stored(k)' = Stored(k)
      BY <2>1 DEF Stored
    <3> QED BY <2>1, <2>2, <3>1, <3>2
  <2>4. IndexedAt(k, r) /\ Accessed(k, r) /\ Participates(k, r)
    BY <1>3, <2>1, <2>2, <2>3 DEF PutInv, AckedStage
  <2> QED BY <1>1, <2>3, <2>4 DEF AckedStage
<1> QED BY <1>2, <1>3

LEMMA AckedBefore ==
  ASSUME TypeOK, NEW k \in Key, cons'[k].st = "acked",
         \/ \E x \in Key, e \in Entry : Write(x, e)
         \/ \E x \in Key : Expire(x)
         \/ \E y \in Replica, x \in Key : Deliver(y, x)
         \/ UNCHANGED vars
  PROVE  cons[k].st = "acked" /\ log'[k] = log[k]
<1>1. ASSUME NEW x \in Key, NEW e \in Entry, Write(x, e)
      PROVE  cons[k].st = "acked" /\ log'[k] = log[k]
  BY <1>1 DEF Write, Supersede, TypeOK, QueuesTypeOK
<1>2. ASSUME NEW x \in Key, Expire(x)
      PROVE  cons[k].st = "acked" /\ log'[k] = log[k]
  BY <1>2 DEF Expire, AfterAttempt, TypeOK, QueuesTypeOK
<1>3. ASSUME NEW y \in Replica, NEW x \in Key, Deliver(y, x)
      PROVE  cons[k].st = "acked" /\ log'[k] = log[k]
  BY <1>3 DEF Deliver, TypeOK, QueuesTypeOK
<1>4. CASE UNCHANGED vars
  BY <1>4 DEF vars
<1> QED BY <1>1, <1>2, <1>3, <1>4

LEMMA NextPut ==
  ASSUME NeverRefused, OneReplica, PutInv, [Next]_vars
  PROVE  PutInv'
<1>0. /\ SoloInv /\ SoloInv' /\ TypeOK /\ RevisionsExist
      /\ \A w \in Replica : DeletesAreDeletes(w) /\ PutStage(w)
      /\ \A k \in Key : WaitsOut(k) => AckedStage(k)
  BY NextSolo DEF PutInv, SoloInv, IInv
<1>1. CASE \E w \in Replica : Handle(w)
  <2>1. PICK w \in Replica : Handle(w)
    BY <1>1
  <2>2. \A x \in Replica : x = w
    BY DEF OneReplica
  <2>3. DeletesAreDeletes(w)'
    BY <1>0, <2>1, HandleDeletes
  <2>4. PutStage(w)' /\ \A k \in Key : WaitsOut(k) => AckedStage(k)'
    BY <1>0, <2>1, HandlePutStage, HandleAcked
  <2>5. \A k \in Key : WaitsOut(k)' <=> WaitsOut(k)
    BY DEF WaitsOut
  <2> QED BY <1>0, <2>2, <2>3, <2>4, <2>5 DEF PutInv
<1>2. CASE ~\E w \in Replica : Handle(w)
  <2>1. UNCHANGED sinks
    BY <1>2 DEF Next, Write, Expire, Deliver, Stops, Crash, Shutdown,
       Close, Restart, vars, sinks
  <2>2. \A w \in Replica : job'[w] = job[w] \/ job'[w] = Idle
    <3>1. ASSUME NEW x \in Replica, Stops(x)
          PROVE  \A w \in Replica : job'[w] = job[w] \/ job'[w] = Idle
      BY <1>0, <3>1, StopsRevisions
    <3>2. job' = job \/ \E x \in Replica : Stops(x)
      BY <1>2 DEF Next, Write, Expire, Deliver, vars
    <3> QED BY <3>1, <3>2
  <2>3. ASSUME NEW k \in Key, cons'[k].st = "acked"
        PROVE  cons[k].st = "acked" /\ log'[k] = log[k]
    <3>1. CASE UNCHANGED stream
      BY <2>3, <3>1 DEF stream
    <3>2. (\E w \in Replica : Stops(w)) => UNCHANGED stream
      BY <1>0, StopsQueues DEF TypeOK
    <3> QED BY <1>0, <1>2, <2>3, <3>1, <3>2, AckedBefore DEF Next
  <2>4. \A k \in Key : WaitsOut(k)' <=> WaitsOut(k)
    BY DEF WaitsOut
  <2> QED BY <1>0, <2>1, <2>2, <2>3, <2>4, QuietPuts DEF PutInv
<1> QED BY <1>1, <1>2

\* Whatever the upstream writes, and whenever it is killed or shut down, a single
\* replica has published what it acknowledged of what nothing refused: a response
\* only if it never lost the mapper's answer, to a fault or to a shutdown.
THEOREM PutInvariant ==
  ASSUME NeverRefused, OneReplica
  PROVE  Spec => []PutInv
<1>1. Init => PutInv
  <2> SUFFICES ASSUME Init PROVE PutInv
    OBVIOUS
  <2>1. \A w \in Replica : DeletesAreDeletes(w) /\ PutStage(w)
    BY DEF Init, DeletesAreDeletes, PutStage
  <2>2. \A k \in Key : AckedStage(k)
    BY DEF Init, AckedStage
  <2> QED BY <2>1, <2>2, InitSolo DEF PutInv
<1>2. PutInv /\ [Next]_vars => PutInv'
  BY NextPut
<1> QED BY <1>1, <1>2, PTL DEF Spec

LEMMA StagedIsSynced ==
  ASSUME PutInv, NEW k \in Key, WaitsOut(k), k \in Response => DistinctVoters
  PROVE  PutIsSynced(k)
<1> SUFFICES ASSUME cons[k].st = "acked", Stored(k).op = "put"
             PROVE  /\ index[k].rev = Len(log[k]) /\ index[k].doc # "none"
                    /\ k \notin Result => access[k] = Len(log[k])
                    /\ (k \in Response /\ Stored(k).user # NoUser) =>
                         /\ RevokesParticipant(Stored(k)) =>
                              <<ParentOf[k], Stored(k).user>> \notin grants
                         /\ GrantsParticipant(Stored(k)) =>
                              \/ <<ParentOf[k], Stored(k).user>> \in grants
                              \/ \E i \in DOMAIN log[ParentOf[k]] :
                                   log[ParentOf[k]][i].op \in {"soft", "hard"}
  BY DEF PutIsSynced
<1>1. /\ IndexedAt(k, Len(log[k])) /\ Accessed(k, Len(log[k]))
      /\ Participates(k, Len(log[k]))
  BY DEF PutInv, AckedStage
<1>2. k \in Response => DOMAIN log[ParentOf[k]] = 1..Len(log[ParentOf[k]])
  <2>1. k \in Response => ParentOf[k] \in Key
    BY KeysAssumption DEF Key, Child
  <2> QED BY <2>1 DEF PutInv, SoloInv, IInv, TypeOK, QueuesTypeOK
<1> QED BY <1>1, <1>2 DEF IndexedAt, Accessed, Participates, VoteDeleted, Stored

\* A single replica that is never shut down and whose records no mapper, indexer
\* or fga-sync refuses has, for each write it has acknowledged and that is still
\* the last of its key, the record in the indexer, its access tuples and its
\* voter's, through every other fault and kills: provided the upstream never names
\* one user in two responses of a vote, since removing either takes the tuple of
\* both.
THEOREM AckedPutsAreSynced ==
  ASSUME NeverGivesUp, OneReplica
  PROVE  Spec => [](DistinctVoters => AckedPutIsSynced)
<1>1. NeverRefused /\ \A k \in Key : WaitsOut(k)
  BY DEF NeverGivesUp, WaitsOut
<1>2. PutInv => (DistinctVoters => AckedPutIsSynced)
  BY <1>1, StagedIsSynced DEF AckedPutIsSynced
<1>3. Spec => []PutInv
  BY <1>1, PutInvariant
<1> QED BY <1>2, <1>3, PTL

\* Votes and results keep that promise through an unavailable mapper and through
\* shutdowns at any step, whoever votes twice: their handlers give a delivery back
\* where a response's acknowledges it.
THEOREM VoteAndResultPutsAreSynced ==
  ASSUME NeverRefused, OneReplica
  PROVE  Spec => [](\A k \in Vote \cup Result : PutIsSynced(k))
<1>1. \A k \in Vote \cup Result : k \in Key /\ k \notin Response
  BY KeysAssumption DEF Key, Child
<1>2. PutInv => \A k \in Vote \cup Result : PutIsSynced(k)
  BY <1>1, StagedIsSynced DEF WaitsOut
<1> QED BY <1>2, PutInvariant, PTL

=============================================================================
