SPECIFICATION Spec
CONSTANTS
  Tabs = {t1}
  Ours = {e1, e2}
  Theirs = {}
  Kinds = {"BPMN_PROCESS"}
  MaxRevisions = 4
  MaxCalls = 1
  MaxFaults = 1
  Null = Null
PROPERTY AllChangesSaved
CHECK_DEADLOCK FALSE
