SPECIFICATION Spec
CONSTANTS
  v1 = v1
  r1 = r1
  s1 = s1
  Vote = {v1}
  Response = {}
  Result = {}
  ParentOf <- MCParentOf
  User = {u1}
  NoUser = NoUser
  Replica = {w1}
  Ops = {"put", "hard"}
  Faults = {"kvput"}
  ParticipantGrants = TRUE
  MaxDeliver = 2
  MaxAckPending = 2
  Prefetch = 1
  VoteRevisions = 4
  ResponseRevisions = 1
  ResultRevisions = 1
  MaxRevisions <- MCMaxRevisions
INVARIANTS AckedDeleteIsGone
CHECK_DEADLOCK FALSE
