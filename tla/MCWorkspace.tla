------------------------------ MODULE MCWorkspace ------------------------------
\* An instance of each component.
EXTENDS Workspace, MCExecutionProfile

CONSTANTS p1, p2, c1, c2, c3, t1, t2, t3, x, y

\* Every form of an element beside another one, and edits of single elements.
Forms == INSTANCE MCModelBindings WITH Models <- {}, JobValues <- FieldTexts, MaxCommands <- {},
  element <- v1, companion <- v2, messages <- v3, kind <- v4, stack <- v5, applied <- v6
FilesOfOneOrTwo == Forms!SmallModels
CommandsOfOneApply == Forms!Commands

\* Two rules of two inputs with every kind of cell, and tables that are refused.
CellsOfRules == {{}, {"lo"}, InputValues, Failing} \X {{}, {"lo"}, InputValues, Failing}
SmallTables ==
  [policy : {"UNIQUE", "FIRST"}, names : {<<"amount", "risk">>},
   rules : [cells : CellsOfRules, output : {"yes", Failing}] \X [cells : CellsOfRules, output : {"no"}]]
  \cup [policy : {"UNIQUE", "COLLECT"}, names : {<<"amount", "amount">>, <<"risk", "amount">>},
        rules : {<<>>, <<[cells |-> <<InputValues>>, output |-> "yes"]>>,
                 <<[cells |-> <<InputValues, {"lo"}>>, output |-> "yes"]>>}]

\* The founders are an owner and the administrator of one workspace; the third
\* email has no account.
OwnerAndAdmin == {<<1, "owner", 0, "organization-owner">>, <<2, "admin", 2, "workspace-admin">>}

\* Two sources of two waits, one of which uses a decision, and one of one wait.
OneOrTwoWaits == [t \in Drafts |-> IF t = t3 THEN 1 ELSE 2]

\* Of an owner and of a member of one workspace.  Without a key only the
\* business key can be taken.
Asking ==
  {ask \in Repeats!Bodies \X (IdempotencyKeys \cup {None}) \X CallerScopes :
     ask[2] = None => ask[1].business # None /\ ask[3] = None}

Symmetric == Permutations({p1, p2}) \cup Permutations({x, y})

=============================================================================
