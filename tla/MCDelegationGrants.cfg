SPECIFICATION CollaborationSpec
CONSTANTS
  Account = {a, b}
  Resource = {r}
  Invitation = {i}
  MemberRequest = {p}
  OtherRequest = {o}
  Proposal = {d}
  MaxGrant = 1
  Assignable = {"member"}
  NoAccount = NoAccount
  NoRequest = NoRequest
INVARIANTS GrantsCoexist
SYMMETRY Interchangeable
CHECK_DEADLOCK FALSE
