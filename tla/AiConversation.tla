----------------------------- MODULE AiConversation -----------------------------
(***************************************************************************)
(* The conversation of an AI experience: pages that run the assistant, the *)
(* two tools that wait for the user (ask_choices, request_approval), the   *)
(* answers on record, the review that is requested, and the transcript     *)
(* that pages save after a pause and restore when they are opened.         *)
(*                                                                         *)
(* Of a transcript only the questions are kept: which the assistant asked, *)
(* and what it was told.  One call is made at a time (the provider option  *)
(* parallel_tool_calls is false).                                          *)
(***************************************************************************)
EXTENDS Naturals, FiniteSets

CONSTANTS
  Pages,          \* tabs in which the experience may be open
  MaxQuestions,   \* bound: questions that the assistant asks
  Options,        \* the options of a question, the names of reviewers
  None

Questions == 1..MaxQuestions

\* What a transcript says of a question.  DROPPED: the call was taken out when
\* the transcript was restored.
Marks == [is : {"UNASKED", "OPEN", "DROPPED", "CANCELLED"}] \cup [is : {"TOLD"}, answer : Options]
Is(state) == [is |-> state]
Told(answer) == [is |-> "TOLD", answer |-> answer]
Transcripts == [Questions -> Marks]

\* A prompt in a page: shown, or with an answer that is on its way.
Prompts == [step : {"none", "shown"}] \cup [step : {"record", "review", "respond"}, answer : Options]
Step(step) == [step |-> step]
Sending(step, answer) == [step |-> step, answer |-> answer]

Closed == [open |-> FALSE]

VARIABLES
  kind,           \* of a question: ask_choices or request_approval
  transcript,     \* ai_experiences.transcript
  sent,           \* transcripts that are under way to the server
  responses,      \* ai_choice_responses
  events,         \* CHOICE_ANSWERED events: <<question, answer>>
  reviews,        \* reviews requested: <<question, reviewers>>
  page            \* messages, prompts, and whether the messages are due to be saved

vars == <<kind, transcript, sent, responses, events, reviews, page>>

TypeOK ==
  /\ kind \in [Questions -> {"CHOICE", "APPROVAL"}]
  /\ transcript \in Transcripts /\ sent \subseteq Transcripts
  /\ responses \in [Questions -> Options \cup {None}]
  /\ events \subseteq Questions \X Options
  /\ reviews \subseteq Questions \X Options
  /\ \A p \in Pages : page[p] = Closed \/
       page[p] \in [open : {TRUE}, messages : Transcripts, prompt : [Questions -> Prompts], due : BOOLEAN]

-----------------------------------------------------------------------------
OpenPages == {p \in Pages : page[p].open}
AllTranscripts == {transcript} \cup sent \cup {page[p].messages : p \in OpenPages}

\* findInterruptedHumanTool: the last call without a result.
Interrupted(t) ==
  LET waiting == {q \in Questions : t[q] = Is("OPEN")}
  IN IF waiting = {} THEN None ELSE CHOOSE q \in waiting : \A k \in waiting : k <= q

\* withoutInterruptedToolCall
Restored(t) == IF Interrupted(t) = None THEN t ELSE [t EXCEPT ![Interrupted(t)] = Is("DROPPED")]

Init ==
  /\ kind \in [Questions -> {"CHOICE", "APPROVAL"}]
  /\ transcript = [q \in Questions |-> Is("UNASKED")]
  /\ sent = {}
  /\ responses = [q \in Questions |-> None]
  /\ events = {}
  /\ reviews = {}
  /\ page = [p \in Pages |-> Closed]

Server == <<transcript, responses, events, reviews>>

\* The experience is loaded and restored; the interrupted question is shown
\* apart.  That the messages are set may count as a change of them.
OpenPage(p) ==
  /\ page[p] = Closed
  /\ \E due \in BOOLEAN :
       page' = [page EXCEPT ![p] =
         [open |-> TRUE, messages |-> Restored(transcript), due |-> due,
          prompt |-> [q \in Questions |-> Step(IF q = Interrupted(transcript) THEN "shown" ELSE "none")]]]
  /\ UNCHANGED <<kind, sent, Server>>

\* The page is left: the pause is not waited for.  A request that has begun is
\* carried out or not, see RecordChoice and RequestReview.
ClosePage(p) ==
  /\ page[p].open
  /\ page' = [page EXCEPT ![p] = Closed]
  /\ UNCHANGED <<kind, sent, Server>>

\* The assistant asks, with a call that has a new id; the user may have
\* written in the meantime and left another question unanswered.
Ask(p, q) ==
  /\ page[p].open
  /\ \A t \in AllTranscripts : t[q] = Is("UNASKED")
  /\ responses[q] = None
  /\ page' = [page EXCEPT ![p].messages[q] = Is("OPEN"), ![p].prompt[q] = Step("shown"), ![p].due = TRUE]
  /\ UNCHANGED <<kind, sent, Server>>

At(p, q, step) == page[p].open /\ page[p].prompt[q].step = step
Prompt(p, q, prompt) == page' = [page EXCEPT ![p].prompt[q] = prompt]

\* ChoicePrompt, ApprovalPrompt: submit, again after an error.
Submit(p, q, answer) ==
  /\ At(p, q, "shown")
  /\ Prompt(p, q, Sending("record", answer))
  /\ UNCHANGED <<kind, sent, Server>>

\* Mutant: the review is taken for requested once the choice is on record.
GoesOn(q) == "respond"

\* What follows when the answer is on record.
Then(q) == IF kind[q] = "APPROVAL" THEN "review" ELSE "respond"

\* The reply arrives, or an error is shown in its place.
Reply(p, q, step) == \/ Prompt(p, q, Sending(step, page[p].prompt[q].answer))
                     \/ Prompt(p, q, Step("shown"))

\* recordAiChoiceResponse: the first answer to a call is kept, each answer is
\* an event.
RecordChoice(p, q) ==
  /\ At(p, q, "record")
  /\ LET answer == page[p].prompt[q].answer
     IN /\ responses' = [responses EXCEPT ![q] = IF @ = None THEN answer ELSE @]
        /\ events' = events \cup {<<q, answer>>}
  /\ Reply(p, q, Then(q))
  /\ UNCHANGED <<kind, sent, transcript, reviews>>

\* requestArtifactReview, of the revision that the page shows.  A revision has
\* one review: a request that comes again fails, unless the draft has changed.
RequestReview(p, q) ==
  /\ At(p, q, "review")
  /\ reviews' = reviews \cup {<<q, page[p].prompt[q].answer>>}
  /\ Reply(p, q, "respond")
  /\ UNCHANGED <<kind, sent, transcript, responses, events>>

\* A request is refused or does not reach the server.
RequestFails(p, q) ==
  /\ At(p, q, "record") \/ At(p, q, "review")
  /\ Prompt(p, q, Step("shown"))
  /\ UNCHANGED <<kind, sent, Server>>

\* respond, or a message of the user (resumeInterruptedHumanTool).
Respond(p, q, mark) ==
  /\ page' = [page EXCEPT ![p].messages[q] = mark, ![p].prompt[q] = Step("none"), ![p].due = TRUE]
  /\ UNCHANGED <<kind, sent, Server>>

Tell(p, q) == At(p, q, "respond") /\ Respond(p, q, Told(page[p].prompt[q].answer))

\* "Not now" in the approval.
Cancel(p, q) == At(p, q, "shown") /\ kind[q] = "APPROVAL" /\ Respond(p, q, Is("CANCELLED"))

\* 650 ms after the last change the messages are sent.
SendTranscript(p) ==
  /\ page[p].open /\ page[p].due
  /\ page' = [page EXCEPT ![p].due = FALSE]
  /\ sent' = sent \cup {page[p].messages}
  /\ UNCHANGED <<kind, Server>>

\* updateAiExperienceTranscript stores what arrives, in whatever order.
Arrive(t) ==
  /\ t \in sent
  /\ transcript' = t
  /\ sent' = sent \ {t}
  /\ UNCHANGED <<kind, responses, events, reviews, page>>

\* An error of the save is ignored.
Lose(t) ==
  /\ t \in sent
  /\ sent' = sent \ {t}
  /\ UNCHANGED <<kind, page, Server>>

Next ==
  \/ \E p \in Pages :
       \/ OpenPage(p) \/ ClosePage(p) \/ SendTranscript(p)
       \/ \E q \in Questions :
            \/ Ask(p, q) \/ RecordChoice(p, q) \/ RequestReview(p, q) \/ RequestFails(p, q)
            \/ Tell(p, q) \/ Cancel(p, q)
            \/ \E answer \in Options : Submit(p, q, answer)
  \/ \E t \in sent : Arrive(t) \/ Lose(t)

Spec == Init /\ [][Next]_vars

-----------------------------------------------------------------------------
\* Nothing is told to the assistant that is not on record: an answer that it
\* goes on from has its event, and what it takes for a review was requested,
\* whichever page told it and whatever failed, was lost or broke off before.
ToldIsOnRecord ==
  \A t \in AllTranscripts : \A q \in Questions : t[q].is = "TOLD" =>
    /\ <<q, t[q].answer>> \in events
    /\ kind[q] = "APPROVAL" => <<q, t[q].answer>> \in reviews

=============================================================================
