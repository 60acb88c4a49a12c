------------------------- MODULE CatchUpOnceProofs -------------------------
(***************************************************************************)
(* Catch-up once starts no two runs for one occurrence.  The intervals its *)
(* runs resolve follow each other: each begins where the anchor stood and  *)
(* ends where it then stands.                                              *)
(***************************************************************************)
EXTENDS CatchUpOnce, TLAPS

Schedule == MaxTime \in Nat /\ Occurs \in [Trigger -> SUBSET (1 .. MaxTime)]

\* The intervals of one trigger's runs lie below its anchor and do not overlap.
IntervalsOf(t) ==
  /\ \A f \in fired[t] : f.from < f.to /\ f.to <= anchor[t]
  /\ \A f, g \in fired[t] : f = g \/ f.to <= g.from \/ g.to <= f.from

Inv == TypeOK /\ \A t \in Trigger : IntervalsOf(t)

\* A resolved interval is not empty, since it holds an occurrence.
LEMMA PendingAdvances ==
  ASSUME Schedule, NEW t \in Trigger, NEW from \in 0 .. MaxTime, NEW m \in 1 .. MaxTime,
         Pending(t, from, m) # {}
  PROVE  from < m
<1>1. PICK o \in Occurs[t] : from < o /\ o <= m
  BY DEF Pending
<1>2. o \in Nat
  BY DEF Schedule
<1> QED
  BY <1>1, <1>2

LEMMA ResolvePreserves ==
  ASSUME Schedule, Inv, NEW t \in Trigger, NEW m \in 1 .. MaxTime, Resolve(t, m)
  PROVE  Inv'
<1>1. anchor[t] \in 0 .. MaxTime /\ anchor' = [anchor EXCEPT ![t] = m]
  BY DEF Inv, TypeOK, Resolve
<1>2. anchor[t] < m
  BY <1>1, PendingAdvances DEF Resolve
<1>3. anchor' \in [Trigger -> 0 .. MaxTime]
  BY <1>1 DEF Inv, TypeOK, Schedule
<1>4. \A f \in Firing : f.from \in Nat /\ f.to \in Nat
  BY DEF Firing, Schedule
<1>5. CASE UNCHANGED fired
  <2>1. ASSUME NEW u \in Trigger PROVE IntervalsOf(u)'
    <3>1. anchor[u] \in Nat /\ anchor'[u] \in Nat /\ anchor[u] <= anchor'[u]
      BY <1>1, <1>2, <1>3 DEF Inv, TypeOK, Schedule
    <3>2. fired[u] \subseteq Firing
      BY DEF Inv, TypeOK
    <3> QED
      BY <3>1, <3>2, <1>4, <1>5 DEF Inv, IntervalsOf
  <2> QED
    BY <2>1, <1>3, <1>5 DEF Inv, TypeOK
<1>6. ASSUME NEW r \in Run,
             fired' = [fired EXCEPT ![t] =
                         @ \cup {[run |-> r, from |-> anchor[t], to |-> m]}]
      PROVE  Inv'
  <2> DEFINE new == [run |-> r, from |-> anchor[t], to |-> m]
  <2>1. new \in Firing /\ new.from = anchor[t] /\ new.to = m
    BY <1>1 DEF Firing, Schedule
  <2>2. fired' \in [Trigger -> SUBSET Firing]
    BY <1>6, <2>1 DEF Inv, TypeOK
  <2>3. ASSUME NEW u \in Trigger PROVE IntervalsOf(u)'
    <3>1. anchor[u] \in Nat /\ anchor'[u] \in Nat /\ anchor[u] <= anchor'[u]
      BY <1>1, <1>2, <1>3 DEF Inv, TypeOK, Schedule
    <3>2. fired[u] \subseteq Firing
      BY DEF Inv, TypeOK
    <3>3. CASE u # t
      <4>1. fired'[u] = fired[u] /\ anchor'[u] = anchor[u]
        BY <1>1, <1>6, <3>3 DEF Inv, TypeOK
      <4> QED
        BY <4>1 DEF Inv, IntervalsOf
    <3>4. CASE u = t
      <4>1. fired'[u] = fired[u] \cup {new} /\ anchor'[u] = m
        BY <1>1, <1>6, <3>4 DEF Inv, TypeOK
      <4>2. \A f \in fired[u] : f.from < f.to /\ f.to <= new.from
        BY <2>1, <3>4 DEF Inv, IntervalsOf
      <4> HIDE DEF new
      <4>3. \A f \in fired'[u] : f.from < f.to /\ f.to <= anchor'[u]
        BY <4>1, <4>2, <2>1, <1>2, <1>4, <3>1, <3>2, <3>4
      <4>4. \A f, g \in fired'[u] : f = g \/ f.to <= g.from \/ g.to <= f.from
        BY <4>1, <4>2 DEF Inv, IntervalsOf
      <4> QED
        BY <4>3, <4>4 DEF IntervalsOf
    <3> QED
      BY <3>3, <3>4
  <2> QED
    BY <2>2, <2>3, <1>3 DEF Inv, TypeOK
<1> QED
  BY <1>5, <1>6 DEF Resolve

LEMMA InvHolds == ASSUME Schedule PROVE Spec => []Inv
<1>1. Init => Inv
  BY DEF Init, Inv, TypeOK, IntervalsOf, Schedule
<1>2. Inv /\ [Next]_<<anchor, fired>> => Inv'
  <2> SUFFICES ASSUME Inv, [Next]_<<anchor, fired>> PROVE Inv'
    OBVIOUS
  <2>1. CASE UNCHANGED <<anchor, fired>>
    BY <2>1 DEF Inv, TypeOK, IntervalsOf
  <2>2. CASE Next
    BY <2>2, ResolvePreserves DEF Next
  <2> QED
    BY <2>1, <2>2
<1> QED
  BY <1>1, <1>2, PTL DEF Spec

\* Two runs of one trigger never resolve the same occurrence.
THEOREM OnceHolds == ASSUME Schedule PROVE Spec => []OncePerOccurrence
<1>1. Inv => OncePerOccurrence
  <2> SUFFICES ASSUME Inv, NEW t \in Trigger, NEW f \in fired[t], NEW g \in fired[t],
                      NEW o \in Occurs[t],
                      o \in Pending(t, f.from, f.to), o \in Pending(t, g.from, g.to)
               PROVE  f = g
    BY DEF OncePerOccurrence
  <2>1. o \in Nat /\ f.from < o /\ o <= f.to /\ g.from < o /\ o <= g.to
    BY DEF Pending, Schedule
  <2>2. f \in Firing /\ g \in Firing
    BY DEF Inv, TypeOK
  <2>3. f.from \in Nat /\ f.to \in Nat /\ g.from \in Nat /\ g.to \in Nat
    BY <2>2 DEF Firing, Schedule
  <2> QED
    BY <2>1, <2>3 DEF Inv, IntervalsOf
<1> QED
  BY <1>1, InvHolds, PTL
====
