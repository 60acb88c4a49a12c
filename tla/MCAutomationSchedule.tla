------------------------ MODULE MCAutomationSchedule ------------------------
(* Trigger t2 skips missed windows and t1 catches up; each is due at 1 and at 2. *)
EXTENDS AutomationSchedule

CONSTANTS t1, t2, m1

MCRun == 1 .. 3
MCCreator == [t \in Trigger |-> m1]
MCOccurs == [t \in Trigger |-> {1, 2}]
MCSkipMissed == [t \in Trigger |-> t = t2]
====
