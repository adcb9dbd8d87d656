SPECIFICATION Spec
CONSTANTS
  v1 = v1
  v2 = v2
  b1 = b1
  b2 = b2
  Vote = {v1, v2}
  Ballot = {b1}
  VoteOf <- MCVoteOf
  SigningKey = {k1, k2, k3}
  NoKey = NoKey
  Replica = {w1, w2}
  MaxLinks = 1
INVARIANTS LinksInv LinksKeepVerifying RevokedLinksAreDead ContentsOnlyIfOpen ShowsOwnVote
SYMMETRY Symmetries
