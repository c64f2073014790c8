---------------------------- MODULE MCModelBindings ----------------------------
\* Elements as files bring them, one attribute or two of each in any form.
EXTENDS ModelBindings

Plain == [a \in Attributes |-> "none"]
ElementForms(id, type, events, home, attrs, texts, refs) ==
  [id : {id}, type : {type}, home : home, events : events,
   attr : {[a \in Attributes |-> IF a \in attrs THEN f[a] ELSE "none"] : f \in [attrs -> texts]}, message : refs]

Tasks ==
  ElementForms("edited", "UserTask", {<<>>}, {"executable"}, {"key", "mapping", "person", "group"},
      {"none", "good", "padded", "bad"}, {0})
  \cup ElementForms("edited", "ServiceTask", {<<>>}, {"executable"}, {"key", "mapping", "limits", "attempts"},
           {"none", "good", "bad", "zero"}, {0})
  \cup ElementForms("edited", "BusinessRuleTask", {<<>>}, {"executable", "other"}, {"key", "mapping"}, {"none", "good", "bad"}, {0})

EventLists == {<<>>, <<"TIMER">>, <<"OTHER">>, <<"TIMER", "TIMER">>}
MessageLists == {<<"MESSAGE">>, <<"TIMER", "MESSAGE">>, <<"MESSAGE", "TIMER">>}

Catches ==
  ElementForms("edited", "IntermediateCatchEvent", EventLists, {"executable", "other"}, {"duration", "date", "cycle"},
      {"none", "good", "padded", "bad"}, {0})
  \cup ElementForms("edited", "IntermediateCatchEvent", MessageLists, {"executable"}, {"duration", "date", "correlation"},
           {"none", "good", "bad"}, {0, 1})
Throws ==
  ElementForms("edited", "IntermediateThrowEvent", {<<>>, <<"MESSAGE">>, <<"TIMER">>}, {"executable", "other"},
      {"correlation", "mapping"}, {"none", "good", "bad"}, {0, 1})

\* Numbers are zero, texts are not; a message stands in a message definition.
Sensible(e) ==
  /\ \A a \in Attributes \ {"attempts"} : e.attr[a] # "zero"
  /\ e.message # 0 => Has(e, "MESSAGE")
  /\ \A a \in {"duration", "date", "cycle"} : e.attr[a] # "none" => Has(e, "TIMER")
  /\ \A a \in {"mapping", "limits"} : e.attr[a] # "padded"

AnyElement == {e \in Tasks \cup Catches \cup Throws : Sensible(e)}

Beside(type, home, events, values, ref) ==
  [id |-> "companion", type |-> type, home |-> home, events |-> events, attr |-> values @@ Plain, message |-> ref]

Companions ==
  {Beside("UserTask", "other", <<>>, Plain, 0)}
  \cup UNION {{Beside("IntermediateCatchEvent", home, <<>>, Plain, 0),
               Beside("IntermediateCatchEvent", home, <<"TIMER">>, [duration |-> "good"], 0),
               Beside("IntermediateThrowEvent", home, <<"MESSAGE">>, [correlation |-> "good"], 1),
               Beside("BusinessRuleTask", home, <<>>, [key |-> "good"], 0)} : home \in {"executable", "other"}}

\* A task is written as a whole by each command.
Commands == [type \in Types |-> CASE type = "IntermediateCatchEvent" -> 5
                                  [] type = "IntermediateThrowEvent" -> 4 [] OTHER -> 2]

\* Every element beside every companion, and some that are edited.
Edited == {e \in AnyElement : /\ e.home = "executable"
                              /\ Cardinality({a \in Attributes : e.attr[a] # "none"}) <= 1
                              /\ \A a \in Attributes : e.attr[a] \in {"none", "good"}}
SmallModels ==
  [element : AnyElement, companion : Companions] \cup [element : Edited, companion : {None}]

=============================================================================
