------------------------------ MODULE VoteLinks ------------------------------
(***************************************************************************)
(* Personalized vote links. A bulk resend signs a link per recipient; the  *)
(* holder of a link reads or submits a ballot with no other authorization. *)
(* Every replica reads its keys once, when it starts, so that during a     *)
(* rollout replicas with different keys sign and verify side by side.      *)
(*                                                                         *)
(*   secret   VOTE_LINK_SIGNING_KEYS and VOTE_LINK_ACTIVE_KID as configured*)
(*   signer   the configuration each replica started with                  *)
(*   used     the key ids configured so far                                *)
(*   links    the links sent by mail, which never expire                   *)
(*   privacy  what ITX says of a vote's pseudo_anonymity: open is false,   *)
(*            hidden is true, unset is missing or null                     *)
(*   voted    the ballots submitted to ITX                                 *)
(*   req      the request by link a replica serves, call by call to ITX    *)
(*   shown    the ballot contents returned to link holders; opened notes   *)
(*            whether the ballot's vote was not pseudo-anonymous at some   *)
(*            moment since its contents were read                          *)
(***************************************************************************)
EXTENDS Naturals, FiniteSets

CONSTANTS
  Vote, Ballot,
  VoteOf,        \* the vote each ballot belongs to, in ITX
  SigningKey, NoKey,
  Replica,
  MaxLinks       \* bound: links sent

ASSUME LinksAssumption ==
  /\ VoteOf \in [Ballot -> Vote]
  /\ NoKey \notin SigningKey
  /\ MaxLinks \in Nat

VARIABLES secret, signer, used, links, privacy, voted, req, shown

keyring == <<secret, signer, used>>
itx == <<privacy, voted>>
vars == <<secret, signer, used, links, privacy, voted, req, shown>>

-----------------------------------------------------------------------------
(* Keys *)

\* A key set, the key listed first and the override, if any. The order of the
\* other keys does not matter to the code.
Config == [keys: SUBSET SigningKey, first: SigningKey \cup {NoKey},
           override: SigningKey \cup {NoKey}]
Down == [keys |-> {}, first |-> NoKey, override |-> NoKey]

\* The override signs when it is set, the first key listed otherwise.
ActiveKey(c) == IF c.override # NoKey THEN c.override ELSE c.first

\* Mutant: whether the active key is in the key set is not checked.
UsableUnchecked(c) == c.keys # {}

\* A signer is built only if its active key is in the key set.
Usable(c) == ActiveKey(c) \in c.keys
Up(w) == Usable(signer[w])

Link == [vote: Vote, ballot: Ballot, kid: SigningKey]

\* Mutant: only the active key verifies.
VerifiesActive(w, l) == l.kid = ActiveKey(signer[w])

\* Every key listed verifies, whichever of them signs.
Verifies(w, l) == l.kid \in signer[w].keys

-----------------------------------------------------------------------------
(* Types *)

Privacies == {"open", "hidden", "unset"}
Kinds == {"submit", "read"}
Idle == [pc |-> "idle"]
Request == [pc: {"submit", "getvote", "getpoll", "project"}, link: Link,
            voted: BOOLEAN, include: BOOLEAN, opened: BOOLEAN]

TypeOK ==
  /\ secret \in Config
  /\ signer \in [Replica -> Config]
  /\ used \subseteq SigningKey
  /\ links \subseteq Link
  /\ privacy \in [Vote -> Privacies]
  /\ voted \subseteq Ballot
  /\ req \in [Replica -> Request \cup {Idle}]
  /\ shown \subseteq [vote: Vote, ballot: Ballot, opened: BOOLEAN]

\* Links are enabled and rolled out with one key.
Init ==
  /\ \E k \in SigningKey :
       /\ secret = [keys |-> {k}, first |-> k, override |-> NoKey]
       /\ used = {k}
  /\ signer = [w \in Replica |-> secret]
  /\ links = {}
  /\ privacy \in [Vote -> Privacies]
  /\ voted = {}
  /\ req = [w \in Replica |-> Idle]
  /\ shown = {}

-----------------------------------------------------------------------------
(* The operator, who follows the rotation procedure of docs/vote-links.md: *)
(* one change at a time, each rolled out before the next.                  *)

RolledOut == \A w \in Replica : signer[w] = secret

\* A new key, under an id never used before, is listed last.
AddKey(k) ==
  /\ RolledOut
  /\ k \notin used
  /\ secret' = [secret EXCEPT !.keys = @ \cup {k}]
  /\ used' = used \cup {k}
  /\ UNCHANGED <<signer, links, itx, req, shown>>

\* A key every replica verifies moves first, or becomes the override.
PromoteKey(k) ==
  /\ RolledOut
  /\ k \in secret.keys
  /\ \/ secret' = [secret EXCEPT !.first = k]
     \/ secret' = [secret EXCEPT !.override = k]
  /\ UNCHANGED <<signer, used, links, itx, req, shown>>

\* A key is removed, the active one included; another moves first if need be.
RemoveKey(k) ==
  /\ RolledOut
  /\ k \in secret.keys
  /\ \E f \in secret.keys \ {k} :
       /\ secret.first # k => f = secret.first
       /\ secret' = [secret EXCEPT !.keys = @ \ {k}, !.first = f]
  /\ UNCHANGED <<signer, used, links, itx, req, shown>>

\* The override is dropped, at once if its key was removed by mistake.
ClearOverride ==
  /\ RolledOut \/ ~Usable(secret)
  /\ secret.override # NoKey
  /\ secret' = [secret EXCEPT !.override = NoKey]
  /\ UNCHANGED <<signer, used, links, itx, req, shown>>

-----------------------------------------------------------------------------
(* Replicas *)

\* Mutant: the keys are read again under the request in progress.
RestartReloads(w) ==
  /\ signer' = [signer EXCEPT ![w] = IF Usable(secret) THEN secret ELSE Down]
  /\ UNCHANGED <<secret, used, links, itx, req, shown>>

\* A replica restarts, in a rollout or by itself. It reads its configuration,
\* and does not come up with one it cannot sign with. Its request is over.
Restart(w) ==
  /\ signer' = [signer EXCEPT ![w] = IF Usable(secret) THEN secret ELSE Down]
  /\ req' = [req EXCEPT ![w] = Idle]
  /\ UNCHANGED <<secret, used, links, itx, shown>>

\* Personalized links for the recipients of a bulk resend. The caller names the
\* recipients, and ITX mails the links.
BulkResendVote(w, v) ==
  /\ Up(w)
  /\ \E recipients \in SUBSET Ballot \ {{}} :
       links' = links \cup { [vote |-> v, ballot |-> b, kid |-> ActiveKey(signer[w])] :
                             b \in recipients }
  /\ Cardinality(links') <= MaxLinks
  /\ UNCHANGED <<keyring, itx, req, shown>>

\* A request by link; a token that does not verify is answered not found.
Arrive(w, l, kind) ==
  /\ Up(w) /\ req[w] = Idle
  /\ l \in links
  /\ Verifies(w, l)
  /\ req' = [req EXCEPT ![w] =
       [pc |-> IF kind = "read" THEN "getvote" ELSE "submit", link |-> l,
        voted |-> FALSE, include |-> FALSE, opened |-> FALSE]]
  /\ UNCHANGED <<keyring, links, itx, shown>>

At(w, pc) == req[w].pc = pc
BallotOf(w) == req[w].link.ballot
Answer(w) == req' = [req EXCEPT ![w] = Idle]

\* A ballot is created or updated under the id the token names. ITX refuses
\* it when the vote is not active, the voter was removed, or the ballot was, or
\* was not, submitted before; or the call fails, before or after it took effect.
Submit(w) ==
  /\ At(w, "submit")
  /\ voted' \in {voted, voted \cup {BallotOf(w)}}
  /\ Answer(w)
  /\ UNCHANGED <<keyring, links, privacy, shown>>

\* Any call of ITX or of the ID mapper fails, and the request with it.
Fail(w) ==
  /\ req[w].pc \in {"getvote", "getpoll", "project"}
  /\ Answer(w)
  /\ UNCHANGED <<keyring, links, itx, shown>>

\* Mutant: the ballot is not checked against the vote of the token.
GetVoteUnchecked(w) ==
  /\ At(w, "getvote")
  /\ LET b == BallotOf(w)
     IN req' = [req EXCEPT ![w].pc = "getpoll", ![w].voted = b \in voted,
                           ![w].opened = privacy[VoteOf[b]] = "open"]
  /\ UNCHANGED <<keyring, links, itx, shown>>

\* Reading a ballot begins with the ballot; one of another vote than the token's
\* is answered not found.
GetVote(w) ==
  /\ At(w, "getvote")
  /\ LET b == BallotOf(w)
     IN \/ /\ VoteOf[b] = req[w].link.vote
           /\ req' = [req EXCEPT ![w].pc = "getpoll", ![w].voted = b \in voted,
                                 ![w].opened = privacy[VoteOf[b]] = "open"]
        \/ VoteOf[b] # req[w].link.vote /\ Answer(w)
  /\ UNCHANGED <<keyring, links, itx, shown>>

\* Mutant: a missing flag reads as false.
IncludesUnlessHidden(p) == p # "hidden"

\* Contents are included only if ITX said the vote is not pseudo-anonymous.
IncludesContents(p) == p = "open"

\* Then the vote the token names is read.
GetPoll(w) ==
  /\ At(w, "getpoll")
  /\ req' = [req EXCEPT ![w].pc = "project",
                        ![w].include = IncludesContents(privacy[req[w].link.vote])]
  /\ UNCHANGED <<keyring, links, itx, shown>>

\* The project is mapped and the ballot returned, with its contents if it was
\* submitted and they may be shown.
ReturnBallot(w) ==
  /\ At(w, "project")
  /\ shown' = IF req[w].include /\ req[w].voted
                THEN shown \cup {[vote |-> req[w].link.vote, ballot |-> BallotOf(w),
                                  opened |-> req[w].opened]}
                ELSE shown
  /\ Answer(w)
  /\ UNCHANGED <<keyring, links, itx>>

-----------------------------------------------------------------------------
(* ITX, where others edit the votes meanwhile *)

\* The vote's privacy is edited; opened follows it for the requests in flight.
SetPrivacy(v, p) ==
  /\ privacy' = [privacy EXCEPT ![v] = p]
  /\ req' = [w \in Replica |->
       IF p = "open" /\ req[w].pc \in {"getpoll", "project"} /\ VoteOf[BallotOf(w)] = v
         THEN [req[w] EXCEPT !.opened = TRUE] ELSE req[w]]
  /\ UNCHANGED <<keyring, links, voted, shown>>

-----------------------------------------------------------------------------

Operator ==
  \/ \E k \in SigningKey : AddKey(k) \/ PromoteKey(k) \/ RemoveKey(k)
  \/ ClearOverride

Serve(w) ==
  \/ \E v \in Vote : BulkResendVote(w, v)
  \/ \E l \in links, kind \in Kinds : Arrive(w, l, kind)
  \/ Submit(w) \/ Fail(w) \/ GetVote(w) \/ GetPoll(w) \/ ReturnBallot(w)

Next ==
  \/ Operator
  \/ \E w \in Replica : Restart(w) \/ Serve(w)
  \/ \E v \in Vote, p \in Privacies : SetPrivacy(v, p)

Spec == Init /\ [][Next]_vars

-----------------------------------------------------------------------------
(* Safety *)

\* While a rotation is rolled out, no link is rejected by a replica that has not
\* heard of its key, or has forgotten it: a link whose key is configured verifies
\* at every replica that is up (docs/vote-links.md, "Key rotation").
LinksKeepVerifying ==
  \A l \in links, w \in Replica :
    (l.kid \in secret.keys /\ Up(w)) => Verifies(w, l)

\* Once the removal of a key is rolled out, no request rests on a link it signed,
\* not even one that was let in before.
RevokedLinksAreDead ==
  RolledOut => \A w \in Replica : req[w] # Idle => req[w].link.kid \in secret.keys

\* The contents of a ballot are shown only if its own vote was known not to be
\* pseudo-anonymous at some moment since they were read, however the vote's
\* setting changes between the calls of GetBallotByLink.
ContentsOnlyIfOpen == \A s \in shown : s.opened

\* A link shows a ballot of its own vote only.
ShowsOwnVote == \A s \in shown : VoteOf[s.ballot] = s.vote

\* What a step of a request relies on, and what the rotation procedure keeps:
\* the key a replica signs with, if still configured, is known to all others.
RequestSafe(w) ==
  /\ req[w] # Idle => req[w].link.kid \in signer[w].keys
  /\ req[w].pc \in {"getpoll", "project"} => VoteOf[BallotOf(w)] = req[w].link.vote
  /\ req[w].pc = "getpoll" =>
       (privacy[VoteOf[BallotOf(w)]] = "open" => req[w].opened)
  /\ req[w].pc = "project" => (req[w].include => req[w].opened)

RotationSafe ==
  /\ Usable(secret) =>
       \A w \in Replica : Up(w) => ActiveKey(secret) \in signer[w].keys
  /\ secret.override = NoKey => Usable(secret)
  /\ secret.override \in used \cup {NoKey}
  /\ secret.first \in secret.keys
  /\ \A w \in Replica : Up(w) => secret.first \in signer[w].keys
  /\ \A w, u \in Replica :
       (Up(w) /\ Up(u) /\ ActiveKey(signer[w]) \in secret.keys)
         => ActiveKey(signer[w]) \in signer[u].keys
  /\ secret.keys \subseteq used
  /\ \A l \in links : l.kid \in used
  /\ \A w \in Replica : signer[w].keys \subseteq used
  /\ \A w \in Replica : ~Up(w) => signer[w] = Down

LinksInv ==
  /\ TypeOK
  /\ RotationSafe
  /\ LinksKeepVerifying
  /\ \A w \in Replica : RequestSafe(w)
  /\ ContentsOnlyIfOpen
  /\ ShowsOwnVote
=============================================================================
