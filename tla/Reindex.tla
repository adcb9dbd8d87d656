------------------------------- MODULE Reindex -------------------------------
(***************************************************************************)
(* The reindex tool for vote responses, run by an operator beside the      *)
(* event processor of EventSync. It scrolls through the documents the      *)
(* indexer holds and writes the record behind each one back to v1-objects, *)
(* unchanged, so that the replicas handle it once more: after a release    *)
(* that redacts ballots, or one that grants participants.                  *)
(*                                                                         *)
(*   tool      the step of the run, the options it was started with, the   *)
(*             response in hand, the revision read of its record, and the  *)
(*             responses the index holds a second document of              *)
(*   scroll    documents of the scroll not processed yet                   *)
(*   outcome   what the run's tally counts each response as                *)
(*   parentOK  the answers cached about the mapping of each vote           *)
(*   pseudoOK  the answers cached about the privacy of each vote           *)
(*   replays   history: the revision the run wrote for a response (0: none)*)
(*   asked     history: the revision of a vote its cached privacy is from  *)
(*                                                                         *)
(* The run starts after responses were indexed under an earlier release or *)
(* under a vote that was not yet pseudo-anonymous.                         *)
(***************************************************************************)
EXTENDS EventSync

CONSTANTS
  Indexed,   \* responses synced with their ballot before the behaviour starts
  NewCheck,  \* those whose document already has the access check in use now
  Copied,    \* those of which the index may hold a second, noncanonical document
  AllVotes,  \* no VoteUID was given
  NoneInHand, \* the run is between two documents
  Modes,     \* bound: the options an operator may choose, members of Options
  ToolFaults \* bound: "read" a read fails for good or the run is interrupted,
             \* "put" a write gets no answer

Options == [apply: BOOLEAN, pseudoOnly: BOOLEAN, skipReindexed: BOOLEAN,
            only: Vote \cup {AllVotes}]

ASSUME ReindexAssumption ==
  /\ Indexed \subseteq Response
  /\ NewCheck \subseteq Indexed
  /\ Copied \subseteq Indexed
  /\ AllVotes \notin Vote
  /\ NoneInHand \notin Response
  /\ Modes \subseteq Options
  /\ ToolFaults \subseteq {"read", "put"}

VARIABLES tool, scroll, outcome, parentOK, pseudoOK, replays, asked

toolVars == <<tool, scroll, outcome, parentOK, pseudoOK, replays, asked>>
caches == <<parentOK, pseudoOK, asked>>
allVars == <<vars, toolVars>>

-----------------------------------------------------------------------------
(* Types and initial states *)

Hit == [id: Response, copy: BOOLEAN, newCheck: BOOLEAN]
ToolSteps == {"off", "scan", "read", "mapping", "parent", "privacy", "replay",
              "finished", "aborted"}
Skips == {"reindexed", "other", "notfound", "undecodable", "deleted", "nomap",
          "tomb", "noparent", "named"}
Outcomes == Skips \cup {"none", "eligible", "replayed", "conflict", "failed"}
Cached == {"unknown", "yes", "no"}

ToolTypeOK ==
  /\ tool \in [pc: ToolSteps, mode: Options,
            id: Response \cup {NoneInHand}, rev: Nat, copies: SUBSET Copied]
  /\ scroll \subseteq Hit
  /\ outcome \in [Response -> Outcomes]
  /\ parentOK \in [Vote -> Cached]
  /\ pseudoOK \in [Vote -> Cached]
  /\ replays \in [Response -> Nat]
  /\ asked \in [Vote -> Nat]

\* Every vote, and every response of Indexed, was written, published and
\* acknowledged; the documents of the responses hold their ballots. The mapping
\* of a response may never have been stored, for which nothing is retried.
Synced(k) == k \in Vote \cup Indexed
FirstEntry(k, e) ==
  /\ e.op = "put"
  /\ k \notin Vote => ~e.open
  /\ k \notin Response => e.user = NoUser
  /\ ~e.removed

ReindexInit ==
  /\ log \in [Key -> {<<>>} \cup {<<e>> : e \in Entry}]
  /\ \A k \in Key : IF Synced(k) THEN log[k] # <<>> /\ FirstEntry(k, log[k][1])
                                 ELSE log[k] = <<>>
  /\ cons = [k \in Key |-> IF Synced(k) THEN [st |-> "acked", n |-> 1]
                                        ELSE [st |-> "none", n |-> 0]]
  /\ buf = [w \in Replica |-> <<>>]
  /\ job = [w \in Replica |-> Idle]
  /\ closing = {}
  /\ mapping \in [Key -> {"none", "live"}]
  /\ \A k \in Key : ~Synced(k) => mapping[k] = "none"
  /\ \A k \in Key : Synced(k) => mapping[k] = "live" \/ (k \in Response /\ "kvput" \in Faults)
  /\ marker = [r \in Response |-> "none"]
  /\ invited = [r \in Response |-> 0]
  /\ index = [k \in Key |->
       IF Synced(k) THEN [rev |-> 1, doc |-> "full", act |-> "created"]
                    ELSE [rev |-> 0, doc |-> "none", act |-> "none"]]
  /\ access = [k \in Key |-> IF Synced(k) THEN 1 ELSE 0]
  /\ grants = {}
  /\ tool \in [pc: {"off"}, mode: Modes, id: {NoneInHand}, rev: {0}, copies: SUBSET Copied]
  /\ scroll = {}
  /\ outcome = [r \in Response |-> "none"]
  /\ parentOK = [v \in Vote |-> "unknown"]
  /\ pseudoOK = [v \in Vote |-> "unknown"]
  /\ replays = [r \in Response |-> 0]
  /\ asked = [v \in Vote |-> 0]

-----------------------------------------------------------------------------
(* Scrolling *)

ToolAt(pc) == tool.pc = pc
ToolGoto(pc) == tool' = [tool EXCEPT !.pc = pc]
PutDown(pc) == tool' = [tool EXCEPT !.pc = pc, !.id = NoneInHand, !.rev = 0]

\* The documents the indexer holds as the scroll opens, and only those.
Documents ==
  { h \in Hit :
      /\ index[h.id].doc # "none"
      /\ h.copy => h.id \in tool.copies
      /\ h.newCheck <=> (h.id \in NewCheck \/ h.id \notin Indexed \/ index[h.id].rev > 1) }

\* Mutant: any combination of options is accepted.
StartAnyway ==
  /\ ToolAt("off")
  /\ ToolGoto("scan")
  /\ scroll' = Documents
  /\ UNCHANGED <<vars, outcome, caches, replays>>

\* Ballots are still in documents of the new access check, so that a privacy
\* pass may not skip those.
Start ==
  /\ ToolAt("off")
  /\ IF tool.mode.pseudoOnly /\ tool.mode.skipReindexed
       THEN ToolGoto("aborted") /\ UNCHANGED scroll
       ELSE ToolGoto("scan") /\ scroll' = Documents
  /\ UNCHANGED <<vars, outcome, caches, replays>>

InScope(h) == tool.mode.only \in {AllVotes, ParentOf[h.id]}
Seen(h) == outcome[h.id] # "none"

\* Mutant: a document is compared with those seen before its copies are refused.
NoncanonicalOnce(h) == tool.mode.pseudoOnly /\ InScope(h) /\ h.copy /\ ~Seen(h)

\* A privacy pass refuses copies of a document in its scope, seen or not.
Noncanonical(h) == tool.mode.pseudoOnly /\ InScope(h) /\ h.copy

\* Count the response in hand and go on with the next document.
Count(r, what) ==
  /\ outcome' = [outcome EXCEPT ![r] = what]
  /\ PutDown("scan")

\* Take the next document of the scroll, in whatever order it lists them.
Pick(h) ==
  /\ ToolAt("scan") /\ h \in scroll
  /\ scroll' = scroll \ {h}
  /\ IF Noncanonical(h) THEN ToolGoto("aborted") /\ UNCHANGED outcome
     ELSE IF Seen(h) THEN UNCHANGED <<tool, outcome>>
     ELSE IF tool.mode.skipReindexed /\ h.newCheck THEN Count(h.id, "reindexed")
     ELSE IF ~InScope(h) THEN Count(h.id, "other")
     ELSE tool' = [tool EXCEPT !.pc = "read", !.id = h.id] /\ UNCHANGED outcome
  /\ UNCHANGED <<vars, caches, replays>>

\* A run in which a write failed ends with an error.
Finish ==
  /\ ToolAt("scan") /\ scroll = {}
  /\ ToolGoto(IF \E r \in Response : outcome[r] = "failed" THEN "aborted" ELSE "finished")
  /\ UNCHANGED <<vars, scroll, outcome, caches, replays>>

\* A read that keeps failing, or an interrupt, ends the run where it is.
Abort ==
  /\ "read" \in ToolFaults
  /\ tool.pc \in {"scan", "read", "mapping", "parent", "privacy", "replay"}
  /\ PutDown("aborted")
  /\ UNCHANGED <<vars, scroll, outcome, caches, replays>>

-----------------------------------------------------------------------------
(* The skip rules, each after a read of its own, and the replay *)

ReadRecord ==
  /\ ToolAt("read")
  /\ LET r == tool.id IN
       IF ~Found(r) THEN Count(r, "notfound")
       ELSE IF ~Decodes(r) THEN Count(r, "undecodable")
       ELSE IF Stored(r).op = "soft" THEN Count(r, "deleted")
       ELSE tool' = [tool EXCEPT !.pc = "mapping", !.rev = Len(log[r])] /\ UNCHANGED outcome
  /\ UNCHANGED <<vars, scroll, caches, replays>>

\* Mutant: only a tombstone keeps a response from being replayed.
ReadMappingTombOnly ==
  /\ ToolAt("mapping")
  /\ IF mapping[tool.id] = "tomb" THEN Count(tool.id, "tomb")
     ELSE ToolGoto("parent") /\ UNCHANGED outcome
  /\ UNCHANGED <<vars, scroll, caches, replays>>

\* Only what the consumer has handled, and has not deleted, is replayed.
ReadMapping ==
  /\ ToolAt("mapping")
  /\ CASE mapping[tool.id] = "none" -> Count(tool.id, "nomap")
       [] mapping[tool.id] = "tomb" -> Count(tool.id, "tomb")
       [] OTHER -> ToolGoto("parent") /\ UNCHANGED outcome
  /\ UNCHANGED <<vars, scroll, caches, replays>>

Eligible(v) ==
  IF tool.mode.apply THEN ToolGoto("replay") /\ UNCHANGED outcome
                     ELSE Count(tool.id, "eligible")

\* The vote must be mapped and not deleted, now or when it was asked about first.
ParentMapped ==
  /\ ToolAt("parent")
  /\ LET v == ParentOf[tool.id]
         ok == IF parentOK[v] # "unknown" THEN parentOK[v]
               ELSE IF mapping[v] = "live" THEN "yes" ELSE "no"
     IN /\ parentOK' = [parentOK EXCEPT ![v] = ok]
        /\ IF ok = "no" THEN Count(tool.id, "noparent")
           ELSE IF tool.mode.pseudoOnly THEN ToolGoto("privacy") /\ UNCHANGED outcome
           ELSE Eligible(v)
  /\ UNCHANGED <<vars, scroll, pseudoOK, asked, replays>>

\* A privacy pass leaves the responses of other votes alone; a vote that cannot
\* be found or decoded counts as pseudo-anonymous, as it does for the handler.
ParentPseudoAnonymous ==
  /\ ToolAt("privacy")
  /\ LET v == ParentOf[tool.id]
         known == pseudoOK[v] # "unknown"
         pseudo == IF known THEN pseudoOK[v]
                   ELSE IF PseudoAnonymous(v) THEN "yes" ELSE "no"
     IN /\ pseudoOK' = [pseudoOK EXCEPT ![v] = pseudo]
        /\ asked' = IF known THEN asked ELSE [asked EXCEPT ![v] = Len(log[v])]
        /\ IF pseudo = "yes" THEN Eligible(v) ELSE Count(tool.id, "named")
  /\ UNCHANGED <<vars, scroll, parentOK, replays>>

\* The bytes that were read become the newest revision.
PutBack(r) ==
  /\ Supersede(r, log[r][tool.rev])
  /\ replays' = [replays EXCEPT ![r] = Len(log[r]) + 1]

\* Mutant: the record is put back whatever was written meanwhile.
UnmodifiedOrNot(r) == TRUE

\* The put names the revision that was read.
Unmodified(r) == Len(log[r]) = tool.rev

ReplayRecord ==
  /\ ToolAt("replay")
  /\ LET r == tool.id IN
       \/ Unmodified(r) /\ PutBack(r) /\ Count(r, "replayed")
       \/ ~Unmodified(r) /\ Count(r, "conflict") /\ UNCHANGED <<stream, replays>>
       \/ /\ "put" \in ToolFaults
          /\ Count(r, "failed")
          /\ \/ Unmodified(r) /\ PutBack(r)
             \/ UNCHANGED <<stream, replays>>
  /\ UNCHANGED <<buf, job, closing, tracking, invited, sinks, scroll, caches>>

-----------------------------------------------------------------------------

Process == ReadRecord \/ ReadMapping \/ ParentMapped \/ ParentPseudoAnonymous \/ ReplayRecord

Run == Start \/ (\E h \in scroll : Pick(h)) \/ Process \/ Finish

\* The upstream and the replicas go on as in EventSync.
Service == Next /\ UNCHANGED toolVars

ReindexNext == Service \/ Run \/ Abort

ReindexSpec == ReindexInit /\ [][ReindexNext]_allVars

-----------------------------------------------------------------------------
(* Safety *)

\* What the run writes back is what the bucket held just before: a record that
\* the upstream changed since it was read is never overwritten (replayRecord).
ReplayKeepsRecord ==
  \A r \in Response : replays[r] # 0 => log[r][replays[r]] = log[r][replays[r] - 1]

\* A replayed record is an update to the handler, not a new response, so that
\* nobody is invited a second time: its mapping was stored before (reindex.go:
\* 117-119). Only while the mappings can be read.
MappingsRead == Faults \cap {"kvread", "shutdown"} = {}
ReplayIsUpdate ==
  \A r \in Response :
    (replays[r] # 0 /\ index[r].rev = replays[r]) => index[r].act = "updated"

\* The inductive invariant behind these two: the revision in hand exists and is
\* a put, what was replayed is mapped, and no handler takes it for a new record.
InHand ==
  /\ tool.pc \in {"read", "mapping", "parent", "privacy", "replay"} => tool.id \in Response
  /\ tool.pc \in {"mapping", "parent", "privacy", "replay"} =>
       /\ tool.rev \in 1..Len(log[tool.id])
       /\ log[tool.id][tool.rev].op = "put"
MappedBeforeReplay ==
  tool.pc \in {"parent", "privacy", "replay"} => mapping[tool.id] # "none"
ReplaysExist ==
  \A r \in Response : replays[r] # 0 =>
    /\ replays[r] \in 2..Len(log[r])
    /\ log[r][replays[r]].op = "put"
    /\ mapping[r] # "none"
IndexedExist == \A r \in Response : index[r].rev <= Len(log[r])
ReplayedAsUpdate(w) ==
  (/\ job[w].pc \notin {"idle", "convert", "parent", "privacy", "lookup"}
   /\ KeyOf(w) \in Response /\ job[w].rev = replays[KeyOf(w)])
   => job[w].pc # "dedupe" /\ job[w].act = "updated"
ReindexInv ==
  /\ TypeOK /\ ToolTypeOK
  /\ RevisionsExist
  /\ \A w \in Replica : StepFits(w) /\ StepSafe(w)
  /\ InHand /\ MappedBeforeReplay
  /\ ReplaysExist /\ IndexedExist
  /\ ReplayKeepsRecord
  /\ MappingsRead =>
       ReplayIsUpdate /\ \A w \in Replica : ReplayedAsUpdate(w)

\* A privacy pass that reports success has met no second document of a response
\* in its scope, seen or not (process).
PassLeavesNoCopy ==
  (ToolAt("finished") /\ tool.mode.pseudoOnly) =>
    \A r \in tool.copies : outcome[r] # "none" => outcome[r] = "other"

-----------------------------------------------------------------------------
(* What a pass achieves with one replica. A replayed record, and one that was *)
(* written meanwhile, is delivered like any other, so that the documents and  *)
(* tuples are right as soon as its last revision is acknowledged.             *)

OpenedSince(v, rev) == \E i \in DOMAIN log[v] : i >= rev /\ log[v][i].open
DeletedOnce(v) == \E i \in DOMAIN log[v] : log[v][i].op \in {"soft", "hard"}

\* The upstream wrote a record again after it had deleted it.
WrittenAgain(r) ==
  \E i, j \in DOMAIN log[r] :
    i < j /\ log[r][i].op \in {"soft", "hard"} /\ log[r][j].op = "put"

\* After a privacy pass that reports success no document of a response to a
\* pseudo-anonymous vote keeps its ballot, whatever the upstream wrote
\* meanwhile: except a response whose vote was not, or not always, pseudo-
\* anonymous from the time the run asked, or was deleted, or whose record can
\* no longer be decoded (parentPseudoAnonymous, pollIsPseudoAnonymous); one the
\* run found deleted and the upstream wrote again, for that may have been before
\* the run asked; and a delete that a stale tombstone let the handler skip, once
\* the record had been written again (handleVoteResponseDelete).
Redacted(r) ==
  (/\ cons[r].st = "acked" /\ Stored(r).op # "junk"
   /\ ~OpenedSince(ParentOf[r], asked[ParentOf[r]])
   /\ Stored(r).op = "put" \/ ~WrittenAgain(r))
  => index[r].doc # "full"
PassSucceeded == ToolAt("finished") /\ tool.mode.pseudoOnly /\ tool.mode.apply
PrivacyPassRedacts ==
  PassSucceeded =>
    \A r \in Indexed :
      (/\ outcome[r] \notin {"none", "other", "noparent", "undecodable", "nomap", "conflict"}
       /\ outcome[r] \in {"notfound", "deleted", "tomb"} => Stored(r).op # "put")
      => Redacted(r)

\* Once a response was replayed, or found to have been written meanwhile, the
\* voter it names is a participant of the vote, unless removed, or the vote was
\* deleted, or another response of the same voter to it took the tuple away
\* (PublishVoteResponseEvent).
RevokedByAnother(r) ==
  \E o \in Response \ {r} :
    /\ ParentOf[o] = ParentOf[r]
    /\ \E i \in DOMAIN log[o] :
         log[o][i].user = Stored(r).user /\ RevokesParticipant(log[o][i])
PassGrants ==
  \A r \in Indexed :
    (/\ outcome[r] \in {"replayed", "conflict"}
     /\ cons[r].st = "acked" /\ GrantsParticipant(Stored(r)) /\ Stored(r).user # NoUser)
    => \/ <<ParentOf[r], Stored(r).user>> \in grants
       \/ DeletedOnce(ParentOf[r]) \/ RevokedByAnother(r)
=============================================================================
