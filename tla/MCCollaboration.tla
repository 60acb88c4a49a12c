--------------------------- MODULE MCCollaboration ---------------------------
(* What the members of a workspace share (Delegation) and the mailboxes of  *)
(* one of them (GmailConsent) share no state and are checked one at a time: *)
(* `focus` is the one whose steps are taken.  Mailboxes and callers use     *)
(* the model values of requests and invitations, with their symmetry.       *)
EXTENDS MCDelegation, GmailConsent

VARIABLE focus
vars == <<collaborationVars, gmailVars, focus>>

\* Bound: once something is delegated, one invitation is under way.
UnderWay ==
  Cardinality({i \in Invitation : Pending(i)}) + Cardinality({p \in MemberRequest : Serving(p, "invite")})
FewInvited == UnderWay' <= 1 \/ \A d \in Proposal : delegation'[d] = NotProposed

Init == CollaborationInit /\ GmailInit /\ focus \in {"members", "mail"}
Next ==
  \/ focus = "members" /\ CollaborationNext /\ FewInvited /\ UNCHANGED <<gmailVars, focus>>
  \/ focus = "mail" /\ GmailNext /\ UNCHANGED <<collaborationVars, focus>>
Spec == Init /\ [][Next]_vars
==============================================================================
