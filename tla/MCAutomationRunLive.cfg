CONSTANTS
  r1 = r1
  w1 = w1
  w2 = w2
  wf1 = wf1
  Run = {r1}
  Worker = {w1, w2}
  Workflow = {wf1}
  NoWorker = NoWorker
  NoRun = NoRun
  Everything = Everything
  WorkflowOf <- MCWorkflowOf
  NumSteps = 3
  ActionStep <- MCActionStep
  CompensateRef <- MCCompensateRef
  Adapter <- MCAdapter
  HighImpact <- MCHighImpact
  Mode = {"bounded_recurring"}
  CountLimit = 2
  MaxRetry = 1
  MaxCrash = 1
SPECIFICATION LiveSpec
PROPERTIES RunSettles CompensationEnds
