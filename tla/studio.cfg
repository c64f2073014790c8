SPECIFICATION Spec
CONSTANTS
  Tabs = {t1}
  Ours = {e1}
  Theirs = {e2}
  Kinds = {"BPMN_PROCESS", "FORM"}
  MaxRevisions = 4
  MaxCalls = 1
  MaxFaults = 1
  Null = Null
PROPERTIES EditorsCatchUp UnsavedWorkIsSentOrShown
CHECK_DEADLOCK FALSE
