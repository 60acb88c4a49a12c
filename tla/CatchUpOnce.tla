---------------------------- MODULE CatchUpOnce ----------------------------
(***************************************************************************)
(* What backend/ecc/domains/automation/scheduler.py promises of a schedule *)
(* trigger: "catch-up once".  The trigger keeps an anchor.  Now and then   *)
(* the occurrences between the anchor and a later moment are resolved      *)
(* together: the anchor moves to that moment and, in the same step, at     *)
(* most one run starts for all of them -- none if the trigger skips missed *)
(* windows and missed one.  Nothing is said here of clocks, replicas,      *)
(* locks or authorization.                                                 *)
(***************************************************************************)
EXTENDS Integers

CONSTANTS
  Trigger,     \* schedule triggers
  Run,         \* runs that may start
  MaxTime,     \* the horizon
  Occurs,      \* the occurrences of each trigger's cron expression
  SkipMissed   \* triggers.skip_missed

VARIABLES
  anchor,   \* the moment up to which each trigger is resolved
  fired     \* the runs each trigger started, with the interval each resolved

Firing == [run : Run, from : 0 .. MaxTime, to : 0 .. MaxTime]

TypeOK ==
  /\ anchor \in [Trigger -> 0 .. MaxTime]
  /\ fired \in [Trigger -> SUBSET Firing]

\* The occurrences in (from, to].
Pending(t, from, to) == {o \in Occurs[t] : from < o /\ o <= to}

Init ==
  /\ anchor = [t \in Trigger |-> 0]
  /\ fired = [t \in Trigger |-> {}]

Unused(r) == \A t \in Trigger : \A f \in fired[t] : f.run # r

MayFire(t, from, to) ==
  SkipMissed[t] => \A o, p \in Pending(t, from, to) : o = p

Resolve(t, m) ==
  /\ Pending(t, anchor[t], m) # {}
  /\ anchor' = [anchor EXCEPT ![t] = m]
  /\ \/ UNCHANGED fired
     \/ /\ MayFire(t, anchor[t], m)
        /\ \E r \in Run :
             /\ Unused(r)
             /\ fired' = [fired EXCEPT ![t] =
                            @ \cup {[run |-> r, from |-> anchor[t], to |-> m]}]

Next == \E t \in Trigger, m \in 1 .. MaxTime : Resolve(t, m)

Spec == Init /\ [][Next]_<<anchor, fired>>

\* No occurrence of a trigger starts two runs.
OncePerOccurrence ==
  \A t \in Trigger : \A f, g \in fired[t] : \A o \in Occurs[t] :
    o \in Pending(t, f.from, f.to) /\ o \in Pending(t, g.from, g.to) => f = g
====
