SPECIFICATION Spec
CONSTANTS
  v1 = v1
  r1 = r1
  s1 = s1
  Vote = {v1}
  Response = {r1}
  Result = {}
  ParentOf <- MCParentOf
  User = {}
  NoUser = NoUser
  Replica = {w1}
  Ops = {"put", "hard"}
  Faults = {"shutdown", "slow", "reject", "publish", "payload"}
  ParticipantGrants = TRUE
  MaxDeliver = 2
  MaxAckPending = 2
  Prefetch = 1
  VoteRevisions = 2
  ResponseRevisions = 1
  ResultRevisions = 1
  MaxRevisions <- MCMaxRevisions
INVARIANTS TypeOK InviteComesLast
PROPERTIES ImplementsMirror
CHECK_DEADLOCK FALSE
