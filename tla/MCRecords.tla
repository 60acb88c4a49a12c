------------------------------ MODULE MCRecords ------------------------------
(* ConnectorSync and EntityOperations share no state and are checked one at *)
(* a time: `focus` is the one whose steps are taken.  Runs and relation-    *)
(* ships use the same model values, so that one symmetry serves for both.   *)
EXTENDS ConnectorSync, EntityOperations, TLC

VARIABLE focus
vars == <<syncVars, entityVars, focus>>

(* Bound: a third item is only there in the first second, while the        *)
(* account is active, and not with both a trouble and an exposed item.     *)
FewItems ==
  \/ clock = 1 /\ account = "active" /\ (troubles = 0 \/ exposed = {})
  \/ \E i \in Item : updatedAt[i] = 0 /\ synced[i] = 0 /\ i \notin exposed

(* Bounds: a second relationship is created only before the first merge,    *)
(* and at most one is invalidated by a user.                                *)
Related == {e \in Edge : edgeStatus[e] # "none"}
FewRelated ==
  /\ Made = {} \/ Related' = Related \/ Cardinality(Related') = 1
  /\ Cardinality(withdrawn') <= 1

Init == SyncInit /\ EntityInit /\ focus \in {"sync", "entities"}
Next ==
  \/ focus = "sync" /\ SyncNext /\ FewItems' /\ UNCHANGED <<entityVars, focus>>
  \/ focus = "entities" /\ EntityNext /\ FewRelated /\ UNCHANGED <<syncVars, focus>>
Spec == Init /\ [][Next]_vars

(* The rows and requests of both are of the kinds the code gives them. *)
RecordsTypeOK == SyncTypeOK /\ EntityTypeOK

Interchangeable == UNION {Permutations(S) : S \in {Item, SyncRun, Entity}}
=============================================================================
