SPECIFICATION Spec
CONSTANTS
  v1 = v1
  r1 = r1
  s1 = s1
  Vote = {v1}
  Response = {}
  Result = {s1}
  ParentOf <- MCParentOf
  User = {u1}
  NoUser = NoUser
  Replica = {w1}
  Ops = {"put", "hard"}
  Faults = {"kvread", "mapper", "reject", "publish"}
  ParticipantGrants = TRUE
  MaxDeliver = 2
  MaxAckPending = 2
  Prefetch = 1
  VoteRevisions = 2
  ResponseRevisions = 1
  ResultRevisions = 4
  MaxRevisions <- MCMaxRevisions
INVARIANTS AckedDeleteIsGone
PROPERTIES ResultUnderLiveVote ResultUpdatedOnlyIfLive
CHECK_DEADLOCK FALSE
