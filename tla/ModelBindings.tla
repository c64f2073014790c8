----------------------------- MODULE ModelBindings -----------------------------
(***************************************************************************)
(* The Wanaflow contract of a BPMN element: what the Studio panel writes   *)
(* on it and shows of it, what validateBpmnXml accepts, what the runtime   *)
(* profile counts and what the engine adapter waits for.  Four pieces of   *)
(* code read the same attributes, each in its own way.                     *)
(*                                                                         *)
(* An element that is alone in its model is edited in the panel; of two    *)
(* elements, the readers are compared.  Each call of bpmn-js modeling is a *)
(* command of its own: an undo takes back one of them.                     *)
(***************************************************************************)
EXTENDS Naturals, Sequences, FiniteSets, SequencesExt, TLC

CONSTANTS
  Models,         \* files to begin with: an element and its companion
  MaxCommands,    \* bound: commands on the undo stack, by type of element
  JobValues,      \* bound: texts that are typed into the fields of a job
  None,
  Error           \* a contract that is refused

\* A text attribute: absent or empty, two texts that are accepted, the first
\* of them with blanks around it, and one that is not accepted.  zero is the
\* number 0.  (Texts of blanks only are left out.)
Text == {"none", "good", "other", "padded", "bad", "zero"}
Good == {"good", "other"}
Types == {"UserTask", "ServiceTask", "BusinessRuleTask", "IntermediateCatchEvent", "IntermediateThrowEvent"}
Events == {"TIMER", "MESSAGE", "OTHER"}

\* key: formKey, jobType or decisionKey; mapping: the mappings and headers;
\* limits: jobLockDuration and jobRetryBackoff; message: the position in
\* rootElements that messageRef points to.
Attributes == {"key", "mapping", "person", "group", "limits", "attempts",
               "duration", "date", "cycle", "correlation"}
Element == [id : {"edited", "companion"}, type : Types, home : {"executable", "other"}, events : Seq(Events),
            attr : [Attributes -> Text], message : Nat]

\* Files have one message to begin with; in the fields of a job stand texts.
Typed ==
  /\ \A m \in Models :
       m.element \in Element /\ m.element.message \in 0..1 /\ m.companion \in Element \cup {None}
  /\ JobValues \subseteq {"none", "bad"} \cup Good

\* No contract is None or Error.
Words == Text \cup {"default", "STARTER", "PERSON", "GROUP", "DATE", "DURATION"}
ContractsApart == None # Error /\ {None, Error} \cap Seq(Words) = {}

VARIABLES
  element,        \* the element in the panel
  companion,      \* the second element, or None
  messages,       \* bpmn:Message root elements: <<id, name>>
  kind,           \* selected.catchKind, as of the last selection
  stack,          \* the command stack: what each undo returns to
  applied         \* history: the contract last applied, None if it was not the last change

vars == <<element, companion, messages, kind, stack, applied>>

TypeOK ==
  /\ element \in Element
  /\ companion \in Element \cup {None}
  /\ messages \in Seq({"own", "foreign"} \X Text)
  /\ element.message \in 0..Len(messages)
  /\ kind \in {"TIMER", "MESSAGE", "none"}
  /\ Len(stack) <= MaxCommands[element.type]

-----------------------------------------------------------------------------
(* What the attributes mean to everybody.                                   *)

Present(t) == t # "none"
Trim(t) == IF t = "padded" THEN "good" ELSE t
Has(e, event) == event \in ToSet(e.events)
Name(e, roots) == IF e.message = 0 THEN "none" ELSE roots[e.message][2]
Ref(e, roots) == IF e.message = 0 THEN "none" ELSE roots[e.message][1]

\* parseMapping, parseHeaders: the panel reads what it cannot parse as empty.
Parsed(t) == IF t = "bad" THEN "none" ELSE t

-----------------------------------------------------------------------------
(* The panel: selectedElement.                                              *)

OwnerShown(e) ==
  IF Present(e.attr["person"]) THEN <<"PERSON", e.attr["person"]>>
  ELSE IF Present(e.attr["group"]) THEN <<"GROUP", e.attr["group"]>> ELSE <<"STARTER">>

TimerShown(e) ==
  IF Present(e.attr["date"]) THEN <<"DATE", e.attr["date"]>>
  ELSE IF Present(e.attr["duration"]) THEN <<"DURATION", e.attr["duration"]>> ELSE None

MessageShown(e, roots) ==
  IF Present(Name(e, roots)) /\ Present(e.attr["correlation"])
  THEN <<Name(e, roots), e.attr["correlation"],
         IF e.type = "IntermediateThrowEvent" THEN Parsed(e.attr["mapping"]) ELSE "none">>
  ELSE None

CatchKind(e) == IF Has(e, "TIMER") THEN "TIMER" ELSE IF Has(e, "MESSAGE") THEN "MESSAGE" ELSE "none"

OrDefault(t) == IF t \in {"none", "zero"} THEN "default" ELSE t

Shown(e, roots) ==
  CASE e.type = "UserTask" ->
         <<OwnerShown(e), IF Present(e.attr["key"]) THEN <<e.attr["key"], Parsed(e.attr["mapping"])>> ELSE None>>
    [] e.type = "ServiceTask" ->
         IF Present(e.attr["key"])
         THEN <<e.attr["key"], Parsed(e.attr["mapping"]), OrDefault(e.attr["limits"]), OrDefault(e.attr["attempts"])>>
         ELSE None
    [] e.type = "BusinessRuleTask" ->
         IF Present(e.attr["key"]) THEN <<e.attr["key"], Parsed(e.attr["mapping"])>> ELSE None
    [] e.type = "IntermediateCatchEvent" ->
         IF Has(e, "TIMER") THEN TimerShown(e) ELSE IF Has(e, "MESSAGE") THEN MessageShown(e, roots) ELSE None
    [] OTHER -> IF Has(e, "MESSAGE") THEN MessageShown(e, roots) ELSE None

-----------------------------------------------------------------------------
(* The modeling package: the binding of an element, None if it has none,    *)
(* Error if it is refused.                                                *)

Mapping(t) == t \in {"none"} \cup Good

FormOf(e) ==
  IF ~Present(e.attr["key"]) THEN None
  ELSE IF Mapping(e.attr["mapping"]) THEN <<e.attr["key"], e.attr["mapping"]>> ELSE Error

OwnerOf(e) ==
  LET person == e.attr["person"]
      group == e.attr["group"]
  IN CASE Present(person) /\ Present(group) -> Error
       [] Present(person) /\ ~Present(group) -> IF Trim(person) \in Good THEN <<"PERSON", Trim(person)>> ELSE Error
       [] Present(group) /\ ~Present(person) -> IF Trim(group) \in Good THEN <<"GROUP", Trim(group)>> ELSE Error
       [] OTHER -> <<"STARTER">>

\* A limit that is absent has a default; the number 0 is not absent.
Limit(t) == IF t = "none" THEN "default" ELSE t

JobOf(e) ==
  IF /\ e.attr["key"] \in Good /\ Mapping(e.attr["mapping"])
     /\ Limit(e.attr["limits"]) \in {"default"} \cup Good
     /\ Limit(e.attr["attempts"]) \in {"default"} \cup Good
  THEN <<e.attr["key"], e.attr["mapping"], Limit(e.attr["limits"]), Limit(e.attr["attempts"])>>
  ELSE Error

DecisionOf(e) ==
  IF e.attr["key"] \in Good /\ Mapping(e.attr["mapping"])
  THEN <<e.attr["key"], e.attr["mapping"]>> ELSE Error

\* Mutant: a date beside a duration is not noticed.
AnyExpression(duration, date) == Present(duration) \/ Present(date)

\* Boolean(duration) !== Boolean(date)
OneExpression(duration, date) == Present(duration) # Present(date)

TimerOf(e) ==
  LET duration == Trim(e.attr["duration"])
      date == Trim(e.attr["date"])
  IN CASE ~Has(e, "TIMER") -> None
       [] Has(e, "TIMER") /\ (Len(e.events) # 1 \/ Present(e.attr["cycle"]) \/ ~OneExpression(duration, date)) -> Error
       [] OTHER -> IF Present(duration)
                   THEN IF duration \in Good THEN <<"DURATION", duration>> ELSE Error
                   ELSE IF date \in Good THEN <<"DATE", date>> ELSE Error

MessageOf(e, roots) ==
  IF ~Has(e, "MESSAGE") THEN None
  ELSE IF /\ Len(e.events) = 1 /\ Name(e, roots) \in Good /\ e.attr["correlation"] \in Good
          /\ (e.type = "IntermediateThrowEvent" => Mapping(e.attr["mapping"]))
  THEN <<Name(e, roots), e.attr["correlation"],
         IF e.type = "IntermediateThrowEvent" THEN e.attr["mapping"] ELSE "none">>
  ELSE Error

\* Every list the package makes of an element.
Listed(e, roots) ==
  CASE e.type = "UserTask" -> {FormOf(e), OwnerOf(e)}
    [] e.type = "ServiceTask" -> {JobOf(e)}
    [] e.type = "BusinessRuleTask" -> {DecisionOf(e)}
    [] e.type = "IntermediateCatchEvent" -> {TimerOf(e), MessageOf(e, roots)}
    [] OTHER -> {MessageOf(e, roots)}

\* validateEvent, for the events of the executable process.
EventAllowed(e) ==
  CASE e.type = "IntermediateCatchEvent" -> Len(e.events) <= 1 /\ ~Has(e, "OTHER")
    [] e.type = "IntermediateThrowEvent" -> Len(e.events) <= 1 /\ ToSet(e.events) \subseteq {"MESSAGE"}
    [] OTHER -> TRUE

Model == {element} \cup ({companion} \ {None})
Executable == {e \in Model : e.home = "executable"}

\* validateBpmnXml: contracts are looked for in the whole file.
Valid(roots) ==
  /\ \A e \in Executable : EventAllowed(e)
  /\ \A e \in Model : Error \notin Listed(e, roots)

-----------------------------------------------------------------------------
(* The runtime.                                                             *)

Bound(elements, type, roots) ==
  {e \in elements : e.type = type /\ Listed(e, roots) \ {None} # {}}

\* Mutant: nothing is counted.
Uncounted(type, roots) == TRUE

\* assertRuntimeProfile compares how many bindings the file has with how many
\* elements the executable process has.
Counted(type, roots) ==
  Cardinality(Bound(Model, type, roots)) = Cardinality({e \in Executable : e.type = type})

Startable(roots) ==
  /\ Valid(roots)
  /\ \A type \in {"BusinessRuleTask", "IntermediateCatchEvent", "IntermediateThrowEvent"} : Counted(type, roots)

\* What the engine adapter makes of an element it reaches: the timer first,
\* then the message.
Run(e, roots) ==
  CASE e.type = "UserTask" -> <<OwnerOf(e), FormOf(e)>>
    [] e.type = "ServiceTask" -> JobOf(e)
    [] e.type = "BusinessRuleTask" -> DecisionOf(e)
    [] e.type = "IntermediateCatchEvent" -> IF TimerOf(e) # None THEN TimerOf(e) ELSE MessageOf(e, roots)
    [] OTHER -> MessageOf(e, roots)

-----------------------------------------------------------------------------
(* Editing.                                                                 *)

\* The file has one message, which an imported element may refer to.
Init ==
  /\ \E m \in Models : element = m.element /\ companion = m.companion
  /\ messages = <<<<"foreign", "good">>>>
  /\ kind = CatchKind(element)
  /\ stack = <<>>
  /\ applied = None

State == [element |-> element, messages |-> messages]

\* The commands of one operation: the states the model goes through.
Execute(states) ==
  LET before == <<State>> \o SubSeq(states, 1, Len(states) - 1)
  IN /\ companion = None
     /\ Len(stack) + Len(states) <= MaxCommands[element.type]
     /\ stack' = stack \o before
     /\ element' = states[Len(states)].element
     /\ messages' = states[Len(states)].messages
     /\ UNCHANGED companion

Set(e, values) == [e EXCEPT !.attr = [a \in Attributes |-> IF a \in DOMAIN values THEN values[a] ELSE @[a]]]

\* One updateProperties; values are what the panel passes on.
Update(values) == Execute(<<[State EXCEPT !.element = Set(element, values)]>>)

\* What was applied, of which part of the contract.
Apply(part, contract) == applied' = [part |-> part, contract |-> contract] /\ UNCHANGED kind
ApplyRefused == applied' = None /\ UNCHANGED kind

ApplyForm(key, mapping) ==
  /\ element.type = "UserTask"
  /\ Update([key |-> key, mapping |-> IF key = "none" THEN "none" ELSE mapping])
  /\ IF key = "none" THEN Apply("form", None)
     ELSE IF Mapping(mapping) THEN Apply("form", <<key, mapping>>) ELSE ApplyRefused

ApplyOwner(owner) ==
  /\ element.type = "UserTask"
  /\ Update([person |-> IF owner[1] = "PERSON" THEN owner[2] ELSE "none",
             group |-> IF owner[1] = "GROUP" THEN owner[2] ELSE "none"])
  /\ Apply("owner", owner)

ApplyDecision(key, mapping) ==
  /\ element.type = "BusinessRuleTask"
  /\ Update([key |-> key, mapping |-> IF key = "none" THEN "none" ELSE mapping])
  /\ IF key # "none" /\ Mapping(mapping) THEN Apply("all", <<key, mapping>>) ELSE ApplyRefused

\* maxAttempts 0 is written as absent.
ApplyJob(key, mapping, limits, attempts) ==
  /\ element.type = "ServiceTask"
  /\ Update([key |-> key, mapping |-> IF key = "none" THEN "none" ELSE mapping,
             limits |-> IF key = "none" THEN "none" ELSE limits,
             attempts |-> IF key = "none" \/ attempts = "zero" THEN "none" ELSE attempts])
  /\ IF key \in Good /\ Mapping(mapping) /\ "bad" \notin {limits, attempts}
     THEN Apply("all", <<key, mapping, OrDefault(limits), OrDefault(attempts)>>) ELSE ApplyRefused

\* Mutant: the expression of the other kind is kept.
TimesKept(type, expression) ==
  IF type = "DURATION" THEN [duration |-> expression, cycle |-> "none"] ELSE [date |-> expression, cycle |-> "none"]

Times(type, expression) ==
  [duration |-> IF type = "DURATION" THEN expression ELSE "none",
   date |-> IF type = "DATE" THEN expression ELSE "none", cycle |-> "none"]

\* The attributes of an event definition that is taken out go with it.
NoTimer == [duration |-> "none", date |-> "none", cycle |-> "none"]
NoEvent == [duration |-> "none", date |-> "none", cycle |-> "none", correlation |-> "none"]

\* The panel of a catch event that it does not take for a message.  A timer
\* definition that is there is kept, with whatever stands beside it; else a
\* new one replaces the others.
ApplyTimer(type, expression) ==
  LET found == Has(element, "TIMER")
      fresh == IF found THEN element
               ELSE [Set(element, NoTimer) EXCEPT !.events = <<"TIMER">>, !.message = 0]
      bare == Set(fresh, [correlation |-> "none"])
      timed == Set(bare, Times(type, expression))
      step(e) == [State EXCEPT !.element = e]
  IN /\ element.type = "IntermediateCatchEvent" /\ kind # "MESSAGE"
     /\ Execute((IF found THEN <<>> ELSE <<step(fresh)>>) \o <<step(bare), step(timed)>>)
     /\ IF expression \in Good THEN Apply("all", <<type, expression>>) ELSE ApplyRefused

\* The commands of setMessageBinding and setMessageThrowBinding.  A message
\* definition that has no message gets a new one, with an id made of the id of
\* the element; a definition of another kind is replaced in the last step.
Contract(name, values) ==
  LET new == element.message = 0
      at == IF new THEN Len(messages) + 1 ELSE element.message
      roots == IF new THEN Append(messages, <<"own", "none">>) ELSE messages
      named == [roots EXCEPT ![at] = <<roots[at][1], name>>]
      linked == IF Has(element, "MESSAGE") THEN [element EXCEPT !.message = at] ELSE element
      final == Set(Set([element EXCEPT !.events = <<"MESSAGE">>, !.message = at], NoTimer), values)
      step(e, r) == [element |-> e, messages |-> r]
  IN (IF new THEN <<step(element, roots)>> ELSE <<>>)
       \o <<step(element, named), step(linked, named), step(final, named)>>

ApplyMessage(name, correlation) ==
  /\ element.type = "IntermediateCatchEvent" /\ kind = "MESSAGE"
  /\ Execute(Contract(name, [correlation |-> correlation]))
  /\ Apply("all", <<name, correlation, "none">>)

ApplyMessageThrow(name, correlation, mapping) ==
  /\ element.type = "IntermediateThrowEvent"
  /\ Execute(Contract(name, [correlation |-> correlation, mapping |-> mapping]))
  /\ IF Mapping(mapping) THEN Apply("all", <<name, correlation, mapping>>) ELSE ApplyRefused

\* bpmn-js: the user makes another kind of catch event of the element.
Morph(event) ==
  /\ element.type = "IntermediateCatchEvent" /\ ~Has(element, event)
  /\ \E kept \in BOOLEAN :
       Execute(<<[State EXCEPT !.element =
         [Set(element, IF kept THEN NoTimer ELSE NoEvent) EXCEPT
            !.events = <<event>>, !.message = 0]]>>)
  /\ kind' = event
  /\ applied' = None

\* bpmn-js: the last command is taken back.  The panel is not told.
Undo ==
  /\ stack # <<>>
  /\ element' = stack[Len(stack)].element
  /\ messages' = stack[Len(stack)].messages
  /\ stack' = SubSeq(stack, 1, Len(stack) - 1)
  /\ applied' = None
  /\ UNCHANGED <<companion, kind>>

\* onSelectionChange: the panel shows the element anew.
Select ==
  /\ kind' = CatchKind(element)
  /\ UNCHANGED <<element, companion, messages, stack, applied>>

\* The first root element with an id is the one that is read, and that
\* references find; the others are parser warnings.
FirstIds(roots) == {n \in DOMAIN roots : \A k \in 1..(n - 1) : roots[k][1] # roots[n][1]}

Position(e, roots) ==
  IF e.message = 0 THEN 0
  ELSE CHOOSE n \in FirstIds(roots) : roots[n][1] = Ref(e, roots)

\* The model is written as XML and parsed, by the editor or the server.
\* A message with an id of its own is always the first, so that what is not
\* read stands at the end.
Reread == [element EXCEPT !.message = Position(element, messages)]

AllRead == FirstIds(messages) = DOMAIN messages

Reload ==
  /\ element' = Reread
  /\ messages' = SubSeq(messages, 1, Cardinality(FirstIds(messages)))
  /\ stack' = <<>>
  /\ applied' = IF AllRead THEN applied ELSE None
  /\ UNCHANGED <<companion, kind>>

Next ==
  \/ \E key \in {"none", "good", "other"}, mapping \in {"none", "good", "bad"} :
       ApplyForm(key, mapping) \/ ApplyDecision(key, mapping)
  \/ \E owner \in {<<"STARTER">>, <<"PERSON", "good">>, <<"GROUP", "good">>} : ApplyOwner(owner)
  \/ \E key \in JobValues, mapping \in JobValues, limits \in JobValues,
        attempts \in (JobValues \ {"none"}) \cup {"zero"} : ApplyJob(key, mapping, limits, attempts)
  \/ \E type \in {"DURATION", "DATE"}, expression \in {"good", "other", "bad"} : ApplyTimer(type, expression)
  \/ \E name \in Good, correlation \in Good :
       \/ ApplyMessage(name, correlation)
       \/ \E mapping \in {"none", "good", "bad"} : ApplyMessageThrow(name, correlation, mapping)
  \/ \E event \in {"TIMER", "MESSAGE"} : Morph(event)
  \/ Undo
  \/ Select
  \/ Reload

Spec == Init /\ [][Next]_vars

-----------------------------------------------------------------------------
Norm(binding) ==
  IF binding = None THEN None ELSE [n \in DOMAIN binding |-> Trim(binding[n])]

\* Of a part of the model that is accepted, the panel shows what the runtime
\* will do: two readers of the same attributes, one lenient and with its own
\* defaults and precedences, the other strict (selectedElement and listBpmn*).
\* A key is read as it is, of other texts blanks at the ends do not count.
ShownIsRun ==
  LET shown == Shown(element, messages)
      run == Run(element, messages)
  IN EventAllowed(element) /\ Error \notin Listed(element, messages) =>
       run = IF element.type = "UserTask" THEN <<Norm(shown[1]), shown[2]>> ELSE Norm(shown)

\* What was applied last is what the runtime will read from the saved file,
\* whatever the element was before, kinds changed, commands taken back and
\* messages left behind; unless it was imported with several definitions, or
\* a message of the same id was left behind by an earlier change of kind.
AppliedIsRun ==
  LET run == Run(Reread, messages)
  IN applied # None /\ Len(element.events) <= 1 /\ AllRead =>
      CASE applied.part = "owner" -> run[1] = applied.contract
          [] applied.part = "form" -> run[2] = applied.contract
          [] OTHER -> run = applied.contract

\* What an executable element needs is there when the engine reaches it.
Served(e) == e.type # "UserTask" => Run(e, messages) \notin {None, Error}

\* The count of bindings that the profile makes is enough when all of the
\* model is executable: no wait is met that has no binding (waitsFrom).
WaitsAreBound == Model = Executable /\ Startable(messages) => \A e \in Executable : Served(e)

\* "Every intermediate catch event in this runtime profile must define one
\* supported timer or message subscription" (the message of the profile).
EveryCatchIsBound == Startable(messages) => \A e \in Executable : Served(e)

=============================================================================
