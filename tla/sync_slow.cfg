SPECIFICATION FairSpec
CONSTANTS
  v1 = v1
  r1 = r1
  s1 = s1
  Vote = {v1}
  Response = {r1}
  Result = {}
  ParentOf <- MCParentOf
  User = {u1}
  NoUser = NoUser
  Replica = {w1}
  Ops = {"put", "soft", "hard"}
  Faults = {"slow"}
  ParticipantGrants = TRUE
  MaxDeliver = 2
  MaxAckPending = 1
  Prefetch = 1
  VoteRevisions = 2
  ResponseRevisions = 2
  ResultRevisions = 1
  MaxRevisions <- MCMaxRevisions
INVARIANTS AckedDeleteIsGone
PROPERTIES KnownVoteSuffices
CHECK_DEADLOCK FALSE
