----------------------------- MODULE MCDelegation -----------------------------
EXTENDS Delegation, TLC

Interchangeable ==
  UNION {Permutations(S) : S \in {Account, Invitation, MemberRequest, OtherRequest}}
=============================================================================
