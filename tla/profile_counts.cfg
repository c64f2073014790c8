\* Every form of one element beside another one, and edits of up to six
\* commands that can be taken back.
SPECIFICATION Spec
CONSTANTS
  Models <- SmallModels
  JobValues = {"none", "good", "bad"}
  MaxCommands <- Commands
  None = None
  Error = Error
INVARIANT EveryCatchIsBound
