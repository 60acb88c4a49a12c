CONSTANTS
  r1 = r1
  w1 = w1
  w2 = w2
  wf1 = wf1
  Run = {r1}
  Worker = {w1, w2}
  Workflow = {wf1}
  NoWorker = NoWorker
  NoRun = NoRun
  Everything = Everything
  WorkflowOf <- MCWorkflowOf
  NumSteps = 5
  ActionStep <- MCLongActionStep
  CompensateRef <- MCLongCompensateRef
  Adapter <- MCLongAdapter
  HighImpact <- MCHighImpact
  Mode = {"bounded_recurring", "per_run", "preview_only"}
  CountLimit = 2
  MaxRetry = 0
  MaxCrash = 1
SPECIFICATION Spec
INVARIANTS EffectsAuthorized CompensationSound CompensationDescends OutcomeTruthful
SYMMETRY MCSymmetry
