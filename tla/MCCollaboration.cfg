SPECIFICATION Spec
CONSTANTS
  Account = {a, b}
  Resource = {r}
  Invitation = {i, j}
  MemberRequest = {p, q}
  OtherRequest = {o}
  Proposal = {d}
  MaxGrant = 1
  Assignable = {"owner", "viewer"}
  NoAccount = NoAccount
  NoRequest = NoRequest
  Mailbox = {p, q}
  Caller = {i, j}
  MaxMinted = 2
  MaxHarm = 1
  NoCall = NoCall
  NoSync = NoSync
INVARIANTS CollaborationTypeOK GmailTypeOK HasOwner RemovedOwnsNothing OnePendingPerEmail OpenBetweenMembers MailUnderConsent GrantsEnd
PROPERTIES EndIsFinal DelegatedWithAuthority SpareConnected
SYMMETRY Interchangeable
CHECK_DEADLOCK FALSE
