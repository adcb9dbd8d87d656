SPECIFICATION MCSpec
CONSTANTS
  v1 = v1
  r1 = r1
  r2 = r2
  Vote = {v1}
  Response = {r1, r2}
  Result = {}
  ParentOf <- MCParentOf
  User = {u1}
  NoUser = NoUser
  Replica = {w1}
  Ops = {"put", "hard"}
  Faults = {"kvput"}
  ParticipantGrants = TRUE
  MaxDeliver = 2
  MaxAckPending = 1
  Prefetch = 1
  VoteRevisions = 2
  ResponseRevisions = 2
  MaxRevisions <- MCMaxRevisions
  Indexed = {r1, r2}
  NewCheck = {r2}
  Copied = {r2}
  AllVotes = AllVotes
  NoneInHand = NoneInHand
  Modes <- MCModes
  ToolFaults = {"put", "read"}
INVARIANTS ReindexInv ReplayKeepsRecord ReplayIsUpdate PassLeavesNoCopy PrivacyPassRedacts PassGrants
CHECK_DEADLOCK FALSE
