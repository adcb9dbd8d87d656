--------------------------- MODULE VoteLinksProofs ---------------------------
(***************************************************************************)
(* Theorems about VoteLinks, for any votes, ballots, keys and replicas.    *)
(***************************************************************************)
EXTENDS VoteLinks, TLAPS

-----------------------------------------------------------------------------
(* Type correctness *)

LEMMA InitTypeOK == Init => TypeOK
BY LinksAssumption DEF Init, TypeOK, Config, Idle

LEMMA UpSigns ==
  ASSUME TypeOK, NEW w \in Replica, Up(w)
  PROVE  ActiveKey(signer[w]) \in SigningKey
BY DEF TypeOK, Up, Usable, ActiveKey, Config

LEMMA NextTypeOK == TypeOK /\ [Next]_vars => TypeOK'
<1> SUFFICES ASSUME TypeOK, [Next]_vars PROVE TypeOK'
  OBVIOUS
<1> USE LinksAssumption
<1>1. ASSUME NEW k \in SigningKey, AddKey(k) PROVE TypeOK'
  BY <1>1 DEF AddKey, TypeOK, Config, itx
<1>2. ASSUME NEW k \in SigningKey, PromoteKey(k) PROVE TypeOK'
  BY <1>2 DEF PromoteKey, TypeOK, Config, itx
<1>3. ASSUME NEW k \in SigningKey, RemoveKey(k) PROVE TypeOK'
  <2>1. secret' \in Config
    <3>1. PICK f \in secret.keys \ {k} :
            secret' = [[secret EXCEPT !.keys = @ \ {k}] EXCEPT !.first = f]
      BY <1>3 DEF RemoveKey
    <3>2. secret \in Config /\ f \in SigningKey
      BY DEF TypeOK, Config
    <3> QED BY <3>1, <3>2 DEF Config
  <2> QED BY <1>3, <2>1 DEF RemoveKey, TypeOK, itx
<1>4. CASE ClearOverride
  BY <1>4 DEF ClearOverride, TypeOK, Config, itx
<1>5. ASSUME NEW w \in Replica, Restart(w) PROVE TypeOK'
  BY <1>5 DEF Restart, TypeOK, Config, Down, itx
<1>6. ASSUME NEW w \in Replica, NEW v \in Vote, BulkResendVote(w, v) PROVE TypeOK'
  <2>1. ActiveKey(signer[w]) \in SigningKey
    BY <1>6, UpSigns DEF BulkResendVote
  <2>2. links' \subseteq Link
    BY <1>6, <2>1 DEF BulkResendVote, TypeOK, Link
  <2> QED BY <1>6, <2>2 DEF BulkResendVote, TypeOK, keyring, itx
<1>7. ASSUME NEW w \in Replica, NEW l \in links, NEW kind \in Kinds, Arrive(w, l, kind)
      PROVE  TypeOK'
  BY <1>7 DEF Arrive, TypeOK, Request, keyring, itx
<1>8. ASSUME NEW w \in Replica, Submit(w) PROVE TypeOK'
  <2>1. req[w] \in Request
    BY <1>8 DEF Submit, At, TypeOK, Idle
  <2>2. BallotOf(w) \in Ballot
    BY <2>1 DEF Request, Link, BallotOf
  <2> QED BY <1>8, <2>2 DEF Submit, Answer, TypeOK, keyring
<1>9. ASSUME NEW w \in Replica, Fail(w) PROVE TypeOK'
  BY <1>9 DEF Fail, Answer, TypeOK, keyring, itx
<1>10. ASSUME NEW w \in Replica, GetVote(w) PROVE TypeOK'
  <2>1. req[w] \in Request
    BY <1>10 DEF GetVote, At, TypeOK, Idle
  <2>2. req' \in [Replica -> Request \cup {Idle}]
    BY <1>10, <2>1 DEF GetVote, Answer, TypeOK, Request
  <2> QED BY <1>10, <2>2 DEF GetVote, TypeOK, keyring, itx
<1>11. ASSUME NEW w \in Replica, GetPoll(w) PROVE TypeOK'
  <2>1. req[w] \in Request
    BY <1>11 DEF GetPoll, At, TypeOK, Idle
  <2>2. req' \in [Replica -> Request \cup {Idle}]
    BY <1>11, <2>1 DEF GetPoll, IncludesContents, TypeOK, Request
  <2> QED BY <1>11, <2>2 DEF GetPoll, TypeOK, keyring, itx
<1>12. ASSUME NEW w \in Replica, ReturnBallot(w) PROVE TypeOK'
  <2>1. req[w] \in Request
    BY <1>12 DEF ReturnBallot, At, TypeOK, Idle
  <2>2. shown' \subseteq [vote: Vote, ballot: Ballot, opened: BOOLEAN]
    BY <1>12, <2>1 DEF ReturnBallot, BallotOf, TypeOK, Request, Link
  <2> QED BY <1>12, <2>2 DEF ReturnBallot, Answer, TypeOK, keyring, itx
<1>13. ASSUME NEW v \in Vote, NEW p \in Privacies, SetPrivacy(v, p) PROVE TypeOK'
  <2>1. req' \in [Replica -> Request \cup {Idle}]
    BY <1>13 DEF SetPrivacy, TypeOK, Request, Idle
  <2> QED BY <1>13, <2>1 DEF SetPrivacy, TypeOK, keyring
<1>14. CASE UNCHANGED vars
  BY <1>14 DEF vars, TypeOK
<1> QED
  BY <1>1, <1>2, <1>3, <1>4, <1>5, <1>6, <1>7, <1>8, <1>9, <1>10, <1>11, <1>12,
     <1>13, <1>14 DEF Next, Operator, Serve

-----------------------------------------------------------------------------
(* Rotation *)

Rotation == RotationSafe /\ LinksKeepVerifying

LEMMA InitRotation == Init => Rotation
BY DEF Init, Rotation, RotationSafe, LinksKeepVerifying, Up, Usable, ActiveKey,
       Verifies

\* A configuration that is rolled out is usable: a replica that came up with
\* nothing is no match for it.
LEMMA RolledOutUp ==
  ASSUME RotationSafe, RolledOut, NEW w \in Replica
  PROVE  Up(w) /\ signer[w] = secret
BY DEF RotationSafe, RolledOut, Up, Down

LEMMA AddKeyRotation ==
  ASSUME TypeOK, Rotation, NEW k \in SigningKey, AddKey(k)
  PROVE  Rotation'
<1> USE RolledOutUp DEF Rotation
<1>1. \A w \in Replica : Up(w) /\ Up(w)' /\ signer'[w] = secret
  BY DEF AddKey, Up
<1>2. k # ActiveKey(secret) /\ ActiveKey(secret)' = ActiveKey(secret)
  BY LinksAssumption DEF AddKey, RotationSafe, ActiveKey, TypeOK, Config
<1>3. /\ secret'.keys = secret.keys \cup {k} /\ secret'.first = secret.first
      /\ secret'.override = secret.override /\ used' = used \cup {k}
      /\ k \notin used /\ signer' = signer /\ links' = links
  BY DEF AddKey, TypeOK, Config
<1>4. RotationSafe'
  BY <1>1, <1>2, <1>3 DEF RotationSafe, Usable, Up
<1>5. LinksKeepVerifying'
  BY <1>1, <1>3 DEF RotationSafe, LinksKeepVerifying, Verifies
<1> QED BY <1>4, <1>5

LEMMA PromoteKeyRotation ==
  ASSUME TypeOK, Rotation, NEW k \in SigningKey, PromoteKey(k)
  PROVE  Rotation'
<1> USE RolledOutUp DEF Rotation
<1>1. \A w \in Replica : Up(w) /\ Up(w)' /\ signer'[w] = secret
  BY DEF PromoteKey, Up
<1>2. /\ secret'.keys = secret.keys /\ k \in secret.keys
      /\ secret'.first \in {k, secret.first}
      /\ secret'.override \in {k, secret.override}
      /\ UNCHANGED <<signer, used, links>>
  BY DEF PromoteKey, TypeOK, Config
<1>3. k # NoKey
  BY LinksAssumption
<1>4. RotationSafe'
  BY <1>1, <1>2, <1>3 DEF RotationSafe, Usable, Up, ActiveKey
<1>5. LinksKeepVerifying'
  BY <1>1, <1>2 DEF LinksKeepVerifying, Verifies
<1> QED BY <1>4, <1>5

LEMMA RemoveKeyRotation ==
  ASSUME TypeOK, Rotation, NEW k \in SigningKey, RemoveKey(k)
  PROVE  Rotation'
<1> USE RolledOutUp DEF Rotation
<1>1. \A w \in Replica : Up(w) /\ Up(w)' /\ signer'[w] = secret
  BY DEF RemoveKey, Up
<1>2. /\ secret'.keys = secret.keys \ {k}
      /\ secret'.first \in secret'.keys
      /\ secret'.override = secret.override
      /\ UNCHANGED <<signer, used, links>>
  BY DEF RemoveKey, TypeOK, Config
<1>3. RotationSafe'
  BY <1>1, <1>2 DEF RotationSafe, Usable, Up, ActiveKey
<1>4. LinksKeepVerifying'
  BY <1>1, <1>2 DEF LinksKeepVerifying, Verifies
<1> QED BY <1>3, <1>4

LEMMA ClearOverrideRotation ==
  ASSUME TypeOK, Rotation, ClearOverride
  PROVE  Rotation'
<1> USE DEF Rotation
<1>1. /\ secret'.keys = secret.keys /\ secret'.first = secret.first
      /\ secret'.override = NoKey
      /\ UNCHANGED <<signer, used, links>>
  BY DEF ClearOverride, TypeOK, Config
<1>2. RotationSafe'
  BY <1>1 DEF RotationSafe, Usable, Up, ActiveKey
<1>3. LinksKeepVerifying'
  BY <1>1 DEF LinksKeepVerifying, Verifies, Up
<1> QED BY <1>2, <1>3

LEMMA RestartRotation ==
  ASSUME TypeOK, Rotation, NEW w \in Replica, Restart(w)
  PROVE  Rotation'
<1> USE DEF Rotation
<1>1. /\ \A u \in Replica : u # w => signer'[u] = signer[u]
      /\ Usable(secret) => signer'[w] = secret
      /\ ~Usable(secret) => signer'[w] = Down
      /\ UNCHANGED <<secret, used, links>>
  BY DEF Restart, TypeOK
<1>2. /\ \A u \in Replica : u # w => (Up(u)' <=> Up(u))
      /\ Up(w)' <=> Usable(secret)
  BY <1>1 DEF Up, Usable, Down
<1>3. RotationSafe'
  <2>1. CASE Usable(secret)
    BY <1>1, <2>1 DEF RotationSafe, Up, Usable, ActiveKey
  <2>2. CASE ~Usable(secret)
    <3>1. ~Usable(Down)
      BY DEF Usable, Down
    <3>2. Down.keys = {}
      BY DEF Down
    <3> QED
      BY <1>1, <2>2, <3>1, <3>2 DEF RotationSafe, Up, Usable, ActiveKey
  <2> QED BY <2>1, <2>2
<1>4. LinksKeepVerifying'
  BY <1>1, <1>2 DEF LinksKeepVerifying, Verifies
<1> QED BY <1>3, <1>4

LEMMA BulkResendVoteRotation ==
  ASSUME TypeOK, Rotation, NEW w \in Replica, NEW v \in Vote, BulkResendVote(w, v)
  PROVE  Rotation'
<1> USE DEF Rotation
<1>1. \A l \in links' : l \in links \/ l.kid = ActiveKey(signer[w])
  BY DEF BulkResendVote
<1>2. UNCHANGED keyring /\ Up(w)
  BY DEF BulkResendVote
<1>3. RotationSafe'
  BY <1>1, <1>2 DEF RotationSafe, keyring, Up, Usable
<1>4. LinksKeepVerifying'
  BY <1>1, <1>2 DEF LinksKeepVerifying, RotationSafe, Verifies, keyring, Up
<1> QED BY <1>3, <1>4

LEMMA OtherRotation ==
  ASSUME Rotation, UNCHANGED <<keyring, links>>
  PROVE  Rotation'
BY DEF Rotation, RotationSafe, LinksKeepVerifying, Verifies, Up, keyring

-----------------------------------------------------------------------------
(* Requests *)

Requests == (\A w \in Replica : RequestSafe(w)) /\ ContentsOnlyIfOpen /\ ShowsOwnVote

LEMMA InitRequests == Init => Requests
BY DEF Init, Requests, RequestSafe, Idle, ContentsOnlyIfOpen, ShowsOwnVote

\* A step that leaves requests and the votes' privacy alone.
LEMMA KeyringRequests ==
  ASSUME Requests, UNCHANGED <<signer, req, privacy, shown>>
  PROVE  Requests'
BY DEF Requests, RequestSafe, ContentsOnlyIfOpen, ShowsOwnVote, BallotOf

\* A step that ends the request of w and shows nothing.
LEMMA AnswerRequests ==
  ASSUME TypeOK, Requests, NEW w \in Replica, Answer(w),
         UNCHANGED <<signer, privacy, shown>>
  PROVE  Requests'
<1>1. \A u \in Replica : req'[u] = req[u] \/ req'[u] = Idle
  BY DEF Answer, TypeOK
<1> QED
  BY <1>1 DEF Requests, RequestSafe, ContentsOnlyIfOpen, ShowsOwnVote, BallotOf, Idle

LEMMA RestartRequests ==
  ASSUME TypeOK, Requests, NEW w \in Replica, Restart(w)
  PROVE  Requests'
<1>1. \A u \in Replica : \/ req'[u] = req[u] /\ signer'[u] = signer[u]
                         \/ req'[u] = Idle
  BY DEF Restart, TypeOK
<1>2. UNCHANGED <<privacy, shown>>
  BY DEF Restart, itx
<1> QED
  BY <1>1, <1>2 DEF Requests, RequestSafe, ContentsOnlyIfOpen, ShowsOwnVote,
                    BallotOf, Idle

LEMMA ArriveRequests ==
  ASSUME TypeOK, Requests, NEW w \in Replica, NEW l \in links, NEW kind \in Kinds,
         Arrive(w, l, kind)
  PROVE  Requests'
<1>1. /\ \A u \in Replica : u # w => req'[u] = req[u]
      /\ req'[w].pc \in {"getvote", "submit"} /\ req'[w].link = l
      /\ l.kid \in signer[w].keys
      /\ UNCHANGED <<signer, privacy, shown>>
  BY DEF Arrive, Verifies, TypeOK, keyring, itx
<1> QED
  BY <1>1 DEF Requests, RequestSafe, ContentsOnlyIfOpen, ShowsOwnVote, BallotOf

LEMMA GetVoteRequests ==
  ASSUME TypeOK, Requests, NEW w \in Replica, GetVote(w)
  PROVE  Requests'
<1>1. CASE VoteOf[BallotOf(w)] # req[w].link.vote
  BY <1>1, AnswerRequests DEF GetVote, keyring, itx
<1>2. CASE VoteOf[BallotOf(w)] = req[w].link.vote
  <2>1. req[w] \in Request
    BY DEF GetVote, At, TypeOK, Idle
  <2>2. /\ \A u \in Replica : u # w => req'[u] = req[u]
        /\ req'[w].pc = "getpoll" /\ req'[w].link = req[w].link
        /\ privacy[VoteOf[BallotOf(w)]] = "open" => req'[w].opened
        /\ UNCHANGED <<signer, privacy, shown>>
    BY <1>2, <2>1 DEF GetVote, TypeOK, Request, keyring, itx
  <2>3. req[w] # Idle
    BY DEF GetVote, At, Idle
  <2>4. RequestSafe(w)'
    BY <1>2, <2>2, <2>3 DEF Requests, RequestSafe, BallotOf
  <2>5. ASSUME NEW u \in Replica, u # w PROVE RequestSafe(u)'
    BY <2>2, <2>5 DEF Requests, RequestSafe, BallotOf
  <2> QED
    BY <2>2, <2>4, <2>5 DEF Requests, ContentsOnlyIfOpen, ShowsOwnVote
<1> QED BY <1>1, <1>2

LEMMA GetPollRequests ==
  ASSUME TypeOK, Requests, NEW w \in Replica, GetPoll(w)
  PROVE  Requests'
<1>1. req[w] \in Request /\ req[w] # Idle
  BY DEF GetPoll, At, TypeOK, Idle
<1>2. /\ \A u \in Replica : u # w => req'[u] = req[u]
      /\ req'[w].pc = "project" /\ req'[w].link = req[w].link
      /\ req'[w].opened = req[w].opened
      /\ req'[w].include => privacy[req[w].link.vote] = "open"
      /\ UNCHANGED <<signer, privacy, shown>>
  BY <1>1 DEF GetPoll, IncludesContents, TypeOK, Request, keyring, itx
<1>3. RequestSafe(w) /\ req[w].pc = "getpoll"
  BY DEF GetPoll, At, Requests
<1>4. RequestSafe(w)'
  BY <1>1, <1>2, <1>3 DEF RequestSafe, BallotOf
<1>5. ASSUME NEW u \in Replica, u # w PROVE RequestSafe(u)'
  BY <1>2, <1>5 DEF Requests, RequestSafe, BallotOf
<1> QED
  BY <1>2, <1>4, <1>5 DEF Requests, ContentsOnlyIfOpen, ShowsOwnVote

LEMMA ReturnBallotRequests ==
  ASSUME TypeOK, Requests, NEW w \in Replica, ReturnBallot(w)
  PROVE  Requests'
<1>1. \A u \in Replica : req'[u] = req[u] \/ req'[u] = Idle
  BY DEF ReturnBallot, Answer, TypeOK
<1>2. UNCHANGED <<signer, privacy>>
  BY DEF ReturnBallot, keyring, itx
<1>3. \A s \in shown' : \/ s \in shown
                        \/ /\ s.opened = req[w].opened /\ req[w].include
                           /\ s.ballot = BallotOf(w) /\ s.vote = req[w].link.vote
  BY DEF ReturnBallot
<1>4. /\ req[w].include => req[w].opened
      /\ VoteOf[BallotOf(w)] = req[w].link.vote
  BY DEF ReturnBallot, At, Requests, RequestSafe
<1>5. ContentsOnlyIfOpen'
  BY <1>3, <1>4 DEF Requests, ContentsOnlyIfOpen
<1>6. ShowsOwnVote'
  BY <1>3, <1>4 DEF Requests, ShowsOwnVote
<1> QED
  BY <1>1, <1>2, <1>5, <1>6 DEF Requests, RequestSafe, BallotOf, Idle

LEMMA SetPrivacyRequests ==
  ASSUME TypeOK, Requests, NEW v \in Vote, NEW p \in Privacies, SetPrivacy(v, p)
  PROVE  Requests'
<1>1. UNCHANGED <<signer, shown>>
  BY DEF SetPrivacy, keyring
<1>2. ASSUME NEW w \in Replica PROVE RequestSafe(w)'
  <2>1. CASE req[w] = Idle
    BY <2>1 DEF SetPrivacy, RequestSafe, Idle
  <2>2. CASE req[w] \in Request
    <3>1. /\ req'[w].pc = req[w].pc /\ req'[w].link = req[w].link
          /\ req'[w].include = req[w].include
          /\ req[w].opened => req'[w].opened
          /\ (p = "open" /\ req[w].pc \in {"getpoll", "project"} /\ VoteOf[BallotOf(w)] = v)
               => req'[w].opened
      BY <2>2 DEF SetPrivacy, Request
    <3>2. VoteOf[BallotOf(w)] # v =>
            privacy'[VoteOf[BallotOf(w)]] = privacy[VoteOf[BallotOf(w)]]
      BY DEF SetPrivacy, TypeOK
    <3>3. privacy'[v] = p
      BY DEF SetPrivacy, TypeOK
    <3>4. RequestSafe(w) /\ BallotOf(w)' = BallotOf(w)
      BY <3>1 DEF Requests, BallotOf
    <3>5. req[w] # Idle
      BY <2>2 DEF Request, Idle
    <3> QED
      BY <1>1, <3>1, <3>2, <3>3, <3>4, <3>5 DEF RequestSafe
  <2> QED BY <2>1, <2>2 DEF TypeOK
<1> QED
  BY <1>1, <1>2 DEF Requests, ContentsOnlyIfOpen, ShowsOwnVote

-----------------------------------------------------------------------------
(* The inductive invariant *)

LEMMA InitLinks == Init => LinksInv
BY InitTypeOK, InitRotation, InitRequests DEF LinksInv, Rotation, Requests

LEMMA NextLinks == LinksInv /\ [Next]_vars => LinksInv'
<1> SUFFICES ASSUME TypeOK, Rotation, Requests, [Next]_vars
             PROVE  Rotation' /\ Requests'
  BY NextTypeOK DEF LinksInv, Rotation, Requests
<1>1. ASSUME NEW k \in SigningKey, AddKey(k) PROVE Rotation' /\ Requests'
  BY <1>1, AddKeyRotation, KeyringRequests DEF AddKey, itx
<1>2. ASSUME NEW k \in SigningKey, PromoteKey(k) PROVE Rotation' /\ Requests'
  BY <1>2, PromoteKeyRotation, KeyringRequests DEF PromoteKey, itx
<1>3. ASSUME NEW k \in SigningKey, RemoveKey(k) PROVE Rotation' /\ Requests'
  BY <1>3, RemoveKeyRotation, KeyringRequests DEF RemoveKey, itx
<1>4. CASE ClearOverride
  BY <1>4, ClearOverrideRotation, KeyringRequests DEF ClearOverride, itx
<1>5. ASSUME NEW w \in Replica, Restart(w) PROVE Rotation' /\ Requests'
  BY <1>5, RestartRotation, RestartRequests
<1>6. ASSUME NEW w \in Replica, NEW v \in Vote, BulkResendVote(w, v)
      PROVE  Rotation' /\ Requests'
  BY <1>6, BulkResendVoteRotation, KeyringRequests DEF BulkResendVote, keyring, itx
<1>7. ASSUME NEW w \in Replica, NEW l \in links, NEW kind \in Kinds, Arrive(w, l, kind)
      PROVE  Rotation' /\ Requests'
  BY <1>7, OtherRotation, ArriveRequests DEF Arrive
<1>8. ASSUME NEW w \in Replica, Submit(w) PROVE Rotation' /\ Requests'
  BY <1>8, OtherRotation, AnswerRequests DEF Submit, keyring
<1>9. ASSUME NEW w \in Replica, Fail(w) PROVE Rotation' /\ Requests'
  BY <1>9, OtherRotation, AnswerRequests DEF Fail, keyring, itx
<1>10. ASSUME NEW w \in Replica, GetVote(w) PROVE Rotation' /\ Requests'
  BY <1>10, OtherRotation, GetVoteRequests DEF GetVote
<1>11. ASSUME NEW w \in Replica, GetPoll(w) PROVE Rotation' /\ Requests'
  BY <1>11, OtherRotation, GetPollRequests DEF GetPoll
<1>12. ASSUME NEW w \in Replica, ReturnBallot(w) PROVE Rotation' /\ Requests'
  BY <1>12, OtherRotation, ReturnBallotRequests DEF ReturnBallot
<1>13. ASSUME NEW v \in Vote, NEW p \in Privacies, SetPrivacy(v, p)
       PROVE  Rotation' /\ Requests'
  BY <1>13, OtherRotation, SetPrivacyRequests DEF SetPrivacy
<1>14. CASE UNCHANGED vars
  BY <1>14, OtherRotation, KeyringRequests DEF vars, keyring
<1> QED
  BY <1>1, <1>2, <1>3, <1>4, <1>5, <1>6, <1>7, <1>8, <1>9, <1>10, <1>11, <1>12,
     <1>13, <1>14 DEF Next, Operator, Serve

-----------------------------------------------------------------------------
(* Theorems *)

\* What the rotation procedure keeps and each step of a request relies on
\* (newVoteLinkSigner, GetBallotByLink) holds in every reachable state.
THEOREM Invariant == Spec => []LinksInv
BY InitLinks, NextLinks, PTL DEF Spec

\* However many replicas are restarted in whatever order, a link whose key is
\* still configured is refused by none of them (docs/vote-links.md).
THEOREM LinksVerify == Spec => []LinksKeepVerifying
<1>1. LinksInv => LinksKeepVerifying
  BY DEF LinksInv
<1> QED BY <1>1, Invariant, PTL

\* When the removal of a key has been rolled out, no request rests on a link it
\* signed (HMACSigner.Verify, docs/vote-links.md).
THEOREM RevocationWorks == Spec => []RevokedLinksAreDead
<1>1. LinksInv => RevokedLinksAreDead
  BY DEF LinksInv, RequestSafe, RevokedLinksAreDead, RolledOut
<1> QED BY <1>1, Invariant, PTL

\* GetBallotByLink shows the contents of a ballot only if its vote was known not
\* to be pseudo-anonymous after they were read.
THEOREM ContentsStayPrivate == Spec => []ContentsOnlyIfOpen
<1>1. LinksInv => ContentsOnlyIfOpen
  BY DEF LinksInv
<1> QED BY <1>1, Invariant, PTL

\* GetBallotByLink shows a ballot only under the vote it belongs to.
THEOREM OwnVoteOnly == Spec => []ShowsOwnVote
<1>1. LinksInv => ShowsOwnVote
  BY DEF LinksInv
<1> QED BY <1>1, Invariant, PTL
=============================================================================
