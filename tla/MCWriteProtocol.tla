---------------------------- MODULE MCWriteProtocol ----------------------------
(* Five requests of one caller with one key: a plain one, two insights, a   *)
(* meeting pack and a model run; and the removal of the caller.            *)
EXTENDS WriteProtocol

CONSTANTS p1, h1, h2, q1, a1, c1, k1

MCBy == [r \in Request |-> c1]
MCKeyOf == [r \in Request |-> k1]
MCKind == [r \in Request |->
  CASE r = p1 -> "plain" [] r \in {h1, h2} -> "insight" [] r = q1 -> "prep" [] r = a1 -> "run"]
MCTarget == [x \in Removal |-> c1]
=============================================================================
