---------------------------- MODULE DraftSimulation ----------------------------
(***************************************************************************)
(* Walking through a saved draft: the page sends each step to the server,  *)
(* which keeps nothing, reads the draft and the decision it uses as they   *)
(* are now and lets the engine start or go on from the envelope that the   *)
(* page got with the step before.  Meanwhile the person at the page and    *)
(* others save.                                                            *)
(*                                                                         *)
(* A process is a line of steps, each of which ends in a wait or in the    *)
(* end of the process and evaluates the decision, if the process uses one. *)
(* Equal texts have equal hashes.  The variables that a step hands on are  *)
(* left out, and so are sources that the profile does not accept: each     *)
(* step with one is refused.                                               *)
(***************************************************************************)
EXTENDS Naturals, Sequences

CONSTANTS
  Texts,          \* BPMN sources
  Waits,          \* the number of waits of each source
  UsesDecision,   \* the sources with a business rule task
  MaxRevisions,   \* bound: revisions of the draft
  MaxDecisions,   \* bound: revisions of the decision
  None            \* null

VARIABLES
  revisions,      \* the revisions of the draft, the last one is the head
  decision,       \* the number of the decision's head revision; 0: not saved yet
  page,           \* artifact.revision in the page
  result,         \* result: the source, the wait it stands at
  journey,        \* journey: the steps that the page shows
  call            \* the step under way

vars == <<revisions, decision, page, result, journey, call>>

Envelope == [text : Texts, position : Nat \ {0}]

TypeOK ==
  /\ revisions \in Seq(Texts) /\ page \in DOMAIN revisions
  /\ decision \in 0..MaxDecisions
  /\ result \in Envelope \cup {None}
  /\ journey \in Seq([text : Texts, position : Nat \ {0}, decision : 0..MaxDecisions])
  /\ call \in [stage : {"none", "sent", "draft", "run"}, revision : Nat, envelope : Envelope \cup {None},
                text : Texts \cup {None}, decision : 0..MaxDecisions]

NoCall == [stage |-> "none", revision |-> 0, envelope |-> None, text |-> None, decision |-> 0]

Init ==
  /\ revisions \in {<<t>> : t \in Texts}
  /\ decision \in {0, 1}
  /\ page = 1
  /\ result = None
  /\ journey = <<>>
  /\ call = NoCall

HeadNumber == Len(revisions)

-----------------------------------------------------------------------------
(* Meanwhile.                                                               *)

\* Somebody else saves the draft.
SaveDraft(t) ==
  /\ HeadNumber < MaxRevisions
  /\ t # revisions[HeadNumber]
  /\ revisions' = Append(revisions, t)
  /\ UNCHANGED <<decision, page, result, journey, call>>

\* The person at the page saves, from the head only; the simulation stays
\* behind its dialog.
SaveHere(t) ==
  /\ page = HeadNumber
  /\ HeadNumber < MaxRevisions
  /\ t # revisions[HeadNumber]
  /\ revisions' = Append(revisions, t)
  /\ page' = HeadNumber + 1
  /\ UNCHANGED <<decision, result, journey, call>>

\* The page takes over what somebody else has saved; the dialog may be open.
Follow ==
  /\ page # HeadNumber
  /\ page' = HeadNumber
  /\ UNCHANGED <<revisions, decision, result, journey, call>>

SaveDecision ==
  /\ decision < MaxDecisions
  /\ decision' = decision + 1
  /\ UNCHANGED <<revisions, page, result, journey, call>>

-----------------------------------------------------------------------------
(* The page.                                                                *)

Finished(r) == r.position > Waits[r.text]

\* run: the first step without, every other one with the envelope of the last.
Run ==
  /\ call = NoCall
  /\ result # None => ~Finished(result)
  /\ call' = [NoCall EXCEPT !.stage = "sent", !.revision = page, !.envelope = result]
  /\ UNCHANGED <<revisions, decision, page, result, journey>>

Restart ==
  /\ call = NoCall
  /\ result # None
  /\ result' = None
  /\ journey' = <<>>
  /\ UNCHANGED <<revisions, decision, page, call>>

\* The dialog shows the error and keeps what it has.
Refused == call' = NoCall /\ UNCHANGED <<revisions, decision, page, result, journey>>

-----------------------------------------------------------------------------
(* The server.                                                              *)

\* Only the draft that the page names is simulated, and only at its head.
ReadDraft ==
  /\ call.stage = "sent"
  /\ \/ /\ call.revision = HeadNumber
        /\ call' = [call EXCEPT !.stage = "draft", !.text = revisions[HeadNumber]]
        /\ UNCHANGED <<revisions, decision, page, result, journey>>
     \/ /\ call.revision # HeadNumber        \* SIMULATION_REVISION_CHANGED
        /\ Refused

\* A query of its own, so that the decision may be younger than the draft.
ReadDecision ==
  /\ call.stage = "draft"
  /\ \/ /\ call.text \notin UsesDecision
        /\ call' = [call EXCEPT !.stage = "run"]
        /\ UNCHANGED <<revisions, decision, page, result, journey>>
     \/ /\ call.text \in UsesDecision
        /\ decision > 0
        /\ call' = [call EXCEPT !.stage = "run", !.decision = decision]
        /\ UNCHANGED <<revisions, decision, page, result, journey>>
     \/ /\ call.text \in UsesDecision
        /\ decision = 0                \* SIMULATION_DECISION_MISSING
        /\ Refused

\* Mutant: the envelope is resumed whatever it was made from.
CompatibleAnyway(envelope, text) == envelope.position <= Waits[text]

\* resume: the envelope is of this source, and the wait that the page answers
\* is one of those the engine recovers.
Compatible(envelope, text) == envelope.text = text /\ envelope.position <= Waits[text]

\* The step that leads to the wait at position.
StepOf(position) == [text |-> call.text, position |-> position, decision |-> call.decision]

\* The answer with the wait at which the engine stands, or behind the last one.
Answer(position, shown) ==
  /\ result' = [text |-> call.text, position |-> position]
  /\ journey' = Append(shown, StepOf(position))
  /\ call' = NoCall
  /\ UNCHANGED <<revisions, decision, page>>

\* The engine runs from the start event to the first wait.
Start ==
  /\ call.stage = "run"
  /\ call.envelope = None
  /\ Answer(1, <<>>)

\* It recovers the state in the envelope and runs to the next wait.
Resume ==
  /\ call.stage = "run"
  /\ call.envelope # None
  /\ \/ /\ Compatible(call.envelope, call.text)
        /\ Answer(call.envelope.position + 1, journey)
     \/ /\ ~Compatible(call.envelope, call.text)   \* INCOMPATIBLE_ENGINE_ENVELOPE
        /\ Refused

-----------------------------------------------------------------------------

Next ==
  \/ \E t \in Texts : SaveDraft(t) \/ SaveHere(t)
  \/ Follow
  \/ SaveDecision
  \/ Run
  \/ Restart
  \/ ReadDraft
  \/ ReadDecision
  \/ Start
  \/ Resume

Spec == Init /\ [][Next]_vars

-----------------------------------------------------------------------------

\* The path that the page shows is a path of one saved source from its start
\* to where it stands, whoever saves between the steps; the decisions along
\* it are all saved ones, and none is older than one before it.
JourneyIsOnePath ==
  /\ (journey = <<>>) = (result = None)
  /\ result # None => Len(journey) = result.position
  /\ \A i \in DOMAIN journey :
       /\ journey[i].text = result.text
       /\ journey[i].position = i
       /\ result.text \in UsesDecision <=> journey[i].decision > 0
       /\ \A k \in 1..i : journey[k].decision <= journey[i].decision

=============================================================================
