------------------------------ MODULE DecisionTable ------------------------------
(***************************************************************************)
(* A business rule task: the deployed DMN table is parsed, its inputs are  *)
(* taken from process variables, its rules are tested in their order, and  *)
(* the output of the rule that decides is put into a process variable.     *)
(* A FEEL cell is the set of the values it accepts ("-" accepts all), or   *)
(* Failing: its evaluation warns, which is an error.                       *)
(***************************************************************************)
EXTENDS Naturals, Sequences, FiniteSetsExt, Functions

CONSTANTS
  Tables,      \* the sources that are deployed: see Table
  Names,       \* inputs of decisions; the variables they are mapped to have their names
  Values,      \* of inputs
  Outputs,     \* of rules
  Failing,
  None

Cells == (SUBSET Values) \cup {Failing}

\* A rule is its input cells and the cell of its output.
IsTable(t) ==
  /\ t.policy \in {"UNIQUE", "FIRST", "COLLECT"}
  /\ t.names \in Seq(Names)
  /\ t.rules \in Seq([cells : Seq(Cells), output : Outputs \cup {Failing}])

VARIABLES
  table,
  variables,   \* process variables that inputs are mapped to; None: not there
  result,      \* the process variable that the output is mapped to
  phase,       \* "parse", "require", "test", "conclude", "done"
  rule,        \* the rule that is tested
  matching,    \* rules that matched
  outcome      \* what the evaluation ended in

vars == <<table, variables, result, phase, rule, matching, outcome>>

Rules == 1..Len(table.rules)
Statuses == {"INVALID", "DMN_INPUT_REQUIRED", "DMN_FEEL_EVALUATION_FAILED",
             "DMN_UNIQUE_HIT_VIOLATION", "MATCHED", "NO_MATCH"}

TypeOK ==
  /\ IsTable(table)
  /\ variables \in [Names -> Values \cup {None}]
  /\ result \in Outputs \cup {None}
  /\ phase \in {"parse", "require", "test", "conclude", "done"}
  /\ rule \in Rules \cup {1}
  /\ matching \subseteq Rules
  /\ outcome \in Statuses \cup {None}

Init ==
  /\ table \in Tables
  /\ variables \in [Names -> Values \cup {None}]
  /\ result = None
  /\ phase = "parse" /\ rule = 1 /\ matching = {} /\ outcome = None

-----------------------------------------------------------------------------
\* parseDmnDecision, which the listeners of an instance are built from.
Parsed(t) ==
  /\ t.policy \in {"UNIQUE", "FIRST"}
  /\ t.names # <<>> /\ t.rules # <<>>
  /\ IsInjective(t.names)
  /\ \A i \in DOMAIN t.rules : Len(t.rules[i].cells) = Len(t.names)

\* An error ends in an incident; the variables stay as they were.
End(status) == /\ outcome' = status /\ phase' = "done"
               /\ UNCHANGED <<table, variables, result, rule, matching>>

GoOn(next) == phase' = next /\ UNCHANGED <<table, variables, result, outcome>>

Parse ==
  /\ phase = "parse"
  /\ IF Parsed(table) THEN GoOn("require") /\ UNCHANGED <<rule, matching>> ELSE End("INVALID")

\* A variable that is not there is not given to the decision.
Input(j) == variables[table.names[j]]

Require ==
  /\ phase = "require"
  /\ IF \A j \in DOMAIN table.names : Input(j) # None
     THEN GoOn("test") /\ UNCHANGED <<rule, matching>> ELSE End("DMN_INPUT_REQUIRED")

Accepts(i, j) == table.rules[i].cells[j] # Failing /\ Input(j) \in table.rules[i].cells[j]

\* every(): the cells up to the first one that does not accept are evaluated.
Evaluated(i) ==
  {j \in DOMAIN table.names : \A k \in 1..(j - 1) : Accepts(i, k)}

\* The filter goes over every rule, under FIRST too.
Test ==
  /\ phase = "test"
  /\ IF \E j \in Evaluated(rule) : table.rules[rule].cells[j] = Failing
     THEN End("DMN_FEEL_EVALUATION_FAILED")
     ELSE /\ matching' = IF \A j \in Evaluated(rule) : Accepts(rule, j) THEN matching \cup {rule} ELSE matching
          /\ IF rule = Len(table.rules) THEN GoOn("conclude") /\ UNCHANGED rule
             ELSE rule' = rule + 1 /\ GoOn("test")

\* Mutant: the rule that matched last decides.
LastOf(rules) == Max(rules)

\* slice(0, 1)
Selected(rules) == Min(rules)

\* The output of a rule is evaluated when it decides.  No match leaves the
\* process variable as it is.
Conclude ==
  /\ phase = "conclude"
  /\ IF table.policy = "UNIQUE" /\ \E i, k \in matching : i # k THEN End("DMN_UNIQUE_HIT_VIOLATION")
     ELSE IF matching = {} THEN End("NO_MATCH")
     ELSE LET output == table.rules[Selected(matching)].output
          IN IF output = Failing THEN End("DMN_FEEL_EVALUATION_FAILED")
             ELSE /\ result' = output /\ outcome' = "MATCHED" /\ phase' = "done"
                  /\ UNCHANGED <<table, variables, rule, matching>>

Next == Parse \/ Require \/ Test \/ Conclude

Spec == Init /\ [][Next]_vars

-----------------------------------------------------------------------------
\* The table read as a whole: the rules that fit the inputs, and the rules with
\* a failing cell that nothing before it in the rule has ruled out.
Fitting == {i \in Rules : \A j \in DOMAIN table.names : Accepts(i, j)}
Broken == {i \in Rules : \E j \in DOMAIN table.names :
             table.rules[i].cells[j] = Failing /\ \A k \in 1..(j - 1) : Accepts(i, k)}

\* Whatever rule by rule evaluation ends in is what the table says: a UNIQUE
\* table decides by the only rule that fits, a FIRST table by the earliest one,
\* no failing cell is passed over, nothing else fails, and nothing but a rule
\* that fits changes the process variable.
DecidedByTheTable ==
  /\ outcome \in {"MATCHED", "NO_MATCH", "DMN_UNIQUE_HIT_VIOLATION"} =>
       /\ Parsed(table) /\ Broken = {}
       /\ (outcome = "NO_MATCH") <=> (Fitting = {})
       /\ (outcome = "DMN_UNIQUE_HIT_VIOLATION") <=> (table.policy = "UNIQUE" /\ \E i, k \in Fitting : i # k)
  /\ outcome = "MATCHED" =>
       \E i \in Fitting : result = table.rules[i].output /\ \A k \in Fitting : i <= k
  /\ outcome = "DMN_FEEL_EVALUATION_FAILED" =>
       Broken # {} \/ \E i \in Fitting : table.rules[i].output = Failing
  /\ result # None => outcome = "MATCHED"

===============================================================================
