-------------------------------- MODULE Studio --------------------------------
(***************************************************************************)
(* Editors of one artifact draft: autosave over optimistic revisions, the  *)
(* local recovery copy, presence heartbeats that tell an editor of a newer *)
(* revision, and the choices of the recovery dialog.                       *)
(*                                                                         *)
(* A source is the set of edits it contains.  A BPMN draft is edited in    *)
(* StudioWorkspace; a form or a decision in an editor that has autosave    *)
(* only.  Requests and answers are separate steps: an answer is applied to *)
(* the tab as it is when the answer arrives.  Anybody else who saves (a    *)
(* teammate's editor, the AI chat) is the action TeammateSaves.            *)
(***************************************************************************)
EXTENDS Naturals, Sequences, FiniteSets, SequencesExt

CONSTANTS
  Tabs,           \* editors that are modelled in full, one per browser profile
  Ours,           \* changes made in these editors, each of them once
  Theirs,         \* changes that others make
  Kinds,          \* the artifact types checked
  MaxRevisions,   \* bound: revisions of the artifact
  MaxCalls,       \* bound: requests that one user started and are under way
  MaxFaults,      \* bound: requests that fail
  Null

ASSUME KindsAssumption == Kinds \subseteq {"BPMN_PROCESS", "FORM", "DMN_DECISION"}
ASSUME BoundsAssumption == MaxRevisions \in Nat \ {0} /\ MaxCalls \in Nat \ {0} /\ MaxFaults \in Nat

VARIABLES
  kind,           \* artifacts.type
  revisions,      \* artifact_revisions: the source of each; the last one is the draft head
  tab,            \* state of each editor component
  calls,          \* requests under way, answered or not
  late,           \* of each tab, a presence answer that is slow: the head it names
  stored,         \* localStorage wanaflow:draft-recovery:<artifact>, of each browser
  made,           \* edits made by anybody
  faults

vars == <<kind, revisions, tab, calls, late, stored, made, faults>>

Edits == Ours \cup Theirs
Source == SUBSET Edits
\* The number of artifacts.draft_head_revision_id.
Latest == Len(revisions)
Revision == 1..MaxRevisions

\* RecoveryDraft: the copy and the revision it was made from.
Draft == [base : Revision, source : Source] \cup {Null}

\* base is artifact.revision, 0 before anything is loaded; shown the xml the
\* canvas was mounted with, canvas what it holds now; seen the revision the
\* last presence answer called current, 0 before the first.
Tab == [mode : {"closed", "saved", "dirty", "saving", "conflict", "error"}, base : 0..MaxRevisions,
        shown : Source, canvas : Source, draft : Draft, asking : BOOLEAN,
        seen : 0..MaxRevisions, syncing : BOOLEAN, up : BOOLEAN]

\* gone: the component that waits has been left; answer: the revision that
\* the server returned, 0 if none.
Call == [tab : Tabs, op : {"save", "sync", "accept", "keep", "share"}, base : Revision, source : Source,
         gone : BOOLEAN, reply : {"pending", "ok", "conflict", "failed"}, answer : 0..MaxRevisions]

TypeOK ==
  /\ kind \in Kinds
  /\ revisions \in Seq(Source) /\ Latest \in Revision
  /\ tab \in [Tabs -> Tab]
  /\ calls \subseteq Call
  /\ late \in [Tabs -> 0..MaxRevisions]
  /\ stored \in [Tabs -> Draft]
  /\ made \subseteq Edits
  /\ faults \in 0..MaxFaults

\* artifact = null
Closed == [mode |-> "closed", base |-> 0, shown |-> {}, canvas |-> {}, draft |-> Null,
           asking |-> FALSE, seen |-> 0, syncing |-> FALSE, up |-> TRUE]

\* An artifact is created with its first revision.
Init ==
  /\ kind \in Kinds
  /\ revisions = <<{}>>
  /\ tab = [t \in Tabs |-> Closed]
  /\ calls = {}
  /\ late = [t \in Tabs |-> 0]
  /\ stored = [t \in Tabs |-> Null]
  /\ made = {}
  /\ faults = 0

Rich == kind = "BPMN_PROCESS"
Mine(t) == {c \in calls : c.tab = t}
Loaded == [Closed EXCEPT !.mode = "saved", !.base = Latest, !.shown = revisions[Latest],
                         !.canvas = revisions[Latest]]
Copy(t) == [base |-> tab[t].base, source |-> tab[t].canvas]
Request(t, op, base, source) == [tab |-> t, op |-> op, base |-> base, source |-> source,
                                 gone |-> FALSE, reply |-> "pending", answer |-> 0]

-----------------------------------------------------------------------------
(* Rendering.                                                              *)

\* setArtifact and setRestoredSource(null): a canvas whose key or xml changes
\* is mounted anew, with what the revision holds.
Mounted(r, n) ==
  LET remount == n # r.base \/ revisions[n] # r.shown
  IN [r EXCEPT !.base = n, !.shown = revisions[n],
               !.canvas = IF remount THEN revisions[n] ELSE @]

\* Actions that also increase canvasNonce mount it in any case.
Remounted(r, n) == [Mounted(r, n) EXCEPT !.canvas = revisions[n]]

\* The effect over [artifact, collaborators, currentRevisionId, saveState]:
\* a tab that is behind loads the newer revision, or protects its work.
Behind(r) == Rich /\ r.seen \notin {0, r.base} /\ ~r.syncing /\ r.mode # "conflict"
Protect(r) == [r EXCEPT !.draft = [base |-> r.base, source |-> r.canvas], !.asking = TRUE, !.mode = "conflict"]

\* A render of tab t with state r, and the effect that follows it.  left are
\* the calls that remain, kept the copy in localStorage.
Render(t, r, left, kept) ==
  LET fetch == Behind(r) /\ r.mode = "saved"
      protect == Behind(r) /\ r.mode # "saved"
  IN /\ tab' = [tab EXCEPT ![t] = IF fetch THEN [r EXCEPT !.syncing = TRUE]
                                  ELSE IF protect THEN Protect(r) ELSE r]
     /\ calls' = IF fetch THEN left \cup {Request(t, "sync", r.base, {})} ELSE left
     /\ stored' = [stored EXCEPT ![t] = IF protect THEN Protect(r).draft ELSE kept]

-----------------------------------------------------------------------------
(* The server.                                                             *)

\* saveArtifactRevision: the artifact row is locked; the source of the head is
\* answered with the head, a base that is not the head with a conflict, and the
\* source of an earlier revision breaks the unique index over content_sha256.
Outcome(c) ==
  IF revisions[Latest] = c.source THEN "same"
  ELSE IF c.base # Latest THEN "conflict"
  ELSE IF c.source \in ToSet(revisions) THEN "failed"
  ELSE "created"

Reply(c, reply, answer) == (calls \ {c}) \cup {[c EXCEPT !.reply = reply, !.answer = answer]}

ServeSave(c) ==
  /\ c.reply = "pending" /\ c.op \in {"save", "share"}
  /\ CASE Outcome(c) = "created" ->
            /\ Latest < MaxRevisions
            /\ revisions' = Append(revisions, c.source)
            /\ calls' = Reply(c, "ok", Latest + 1)
       [] Outcome(c) = "same" -> calls' = Reply(c, "ok", Latest) /\ UNCHANGED revisions
       [] OTHER -> calls' = Reply(c, Outcome(c), 0) /\ UNCHANGED revisions
  /\ UNCHANGED <<kind, tab, late, stored, made, faults>>

\* getArtifact.
ServeLoad(c) ==
  /\ c.reply = "pending" /\ c.op \in {"sync", "accept", "keep"}
  /\ calls' = Reply(c, "ok", Latest)
  /\ UNCHANGED <<kind, revisions, tab, late, stored, made, faults>>

\* A request, or the answer to it, is lost.
Lose(c) ==
  /\ faults < MaxFaults /\ c.reply # "failed"
  /\ faults' = faults + 1
  /\ calls' = Reply(c, "failed", 0)
  /\ UNCHANGED <<kind, revisions, tab, late, stored, made>>

\* Any other client saves on top of the head.
TeammateSaves(e) ==
  /\ Latest < MaxRevisions /\ e \notin made
  /\ revisions' = Append(revisions, revisions[Latest] \cup {e})
  /\ made' = made \cup {e}
  /\ UNCHANGED <<kind, tab, calls, late, stored, faults>>

-----------------------------------------------------------------------------
(* Presence.                                                               *)

\* Mutant: an editor that was offline is not told that it is online again.
BeatStaysOffline(t) ==
  /\ tab[t].mode # "closed"
  /\ Render(t, [tab[t] EXCEPT !.seen = Latest], calls, stored[t])
  /\ UNCHANGED <<kind, revisions, late, made, faults>>

\* touchArtifactPresence lists the tab and answers with the current head.
\* The answer may be slow while later ones are not.
Beat(t) ==
  /\ tab[t].mode # "closed"
  /\ Render(t, [tab[t] EXCEPT !.seen = Latest, !.up = TRUE], calls, stored[t])
  /\ UNCHANGED <<kind, revisions, late, made, faults>>

SlowBeat(t) ==
  /\ tab[t].mode # "closed" /\ late[t] = 0
  /\ late' = [late EXCEPT ![t] = Latest]
  /\ UNCHANGED <<kind, revisions, tab, calls, stored, made, faults>>

LateAnswer(t) ==
  /\ late[t] # 0
  /\ late' = [late EXCEPT ![t] = 0]
  /\ IF tab[t].mode = "closed" THEN UNCHANGED <<tab, calls, stored>>
     ELSE Render(t, [tab[t] EXCEPT !.seen = late[t], !.up = TRUE], calls, stored[t])
  /\ UNCHANGED <<kind, revisions, made, faults>>

\* The heartbeat fails, or the browser says that it is offline.
Disconnect(t) ==
  /\ tab[t].mode # "closed" /\ tab[t].up /\ faults < MaxFaults
  /\ faults' = faults + 1
  /\ tab' = [tab EXCEPT ![t].up = FALSE]
  /\ UNCHANGED <<kind, revisions, calls, late, stored, made>>

-----------------------------------------------------------------------------
(* The editor.                                                             *)

\* The page of a BPMN draft loads the head; a copy in localStorage that
\* differs from it is offered.
OpenStudio(t) ==
  /\ Rich /\ tab[t].mode = "closed"
  /\ LET kept == stored[t]
         offer == kept # Null /\ kept.source # revisions[Latest]
     IN /\ tab' = [tab EXCEPT ![t] =
                     IF ~offer THEN Loaded
                     ELSE [Loaded EXCEPT !.draft = kept, !.asking = TRUE,
                                         !.mode = IF kept.base # Latest THEN "conflict" ELSE "saved"]]
        /\ stored' = [stored EXCEPT ![t] = IF offer THEN kept ELSE Null]
  /\ UNCHANGED <<kind, revisions, calls, late, made, faults>>

\* The pages of forms and decisions just load it.
OpenPlain(t) ==
  /\ ~Rich /\ tab[t].mode = "closed"
  /\ tab' = [tab EXCEPT ![t] = Loaded]
  /\ UNCHANGED <<kind, revisions, calls, late, stored, made, faults>>

\* The user goes to another page.  What save() and the dialog began goes on
\* without the component: it still writes localStorage.
Leave(t) ==
  /\ tab[t].mode # "closed"
  /\ tab' = [tab EXCEPT ![t] = Closed]
  /\ calls' = (calls \ Mine(t)) \cup {[c EXCEPT !.gone = TRUE] : c \in {d \in Mine(t) : d.op # "sync"}}
  /\ late' = [late EXCEPT ![t] = 0]
  /\ UNCHANGED <<kind, revisions, stored, made, faults>>

\* The browser is closed or dies.
Crash(t) ==
  /\ tab[t].mode # "closed"
  /\ tab' = [tab EXCEPT ![t] = Closed]
  /\ calls' = calls \ Mine(t)
  /\ late' = [late EXCEPT ![t] = 0]
  /\ UNCHANGED <<kind, revisions, stored, made, faults>>

\* commandStack.changed: a change while a save is under way does not alter
\* the save state.
AfterEdit(mode) == IF mode = "saving" THEN "saving" ELSE "dirty"

Edit(t, e) ==
  /\ tab[t].mode # "closed" /\ e \notin made
  /\ made' = made \cup {e}
  /\ Render(t, [tab[t] EXCEPT !.canvas = @ \cup {e}, !.mode = AfterEdit(@)], calls, stored[t])
  /\ UNCHANGED <<kind, revisions, late, faults>>

\* 260 ms after a change the work is copied to localStorage.
WriteRecovery(t) ==
  /\ Rich /\ tab[t].mode = "dirty"
  /\ <<tab[t].draft, stored[t]>> # <<Copy(t), Copy(t)>>
  /\ tab' = [tab EXCEPT ![t].draft = Copy(t)]
  /\ stored' = [stored EXCEPT ![t] = Copy(t)]
  /\ UNCHANGED <<kind, revisions, calls, late, made, faults>>

\* save(): the canvas is serialized and sent with the revision it is based on.
Save(t) ==
  /\ tab[t].mode \notin {"closed", "saving"}
  /\ Cardinality({c \in Mine(t) : c.op # "sync"}) < MaxCalls
  /\ Render(t, [tab[t] EXCEPT !.mode = "saving"],
            calls \cup {Request(t, "save", tab[t].base, tab[t].canvas)}, stored[t])
  /\ UNCHANGED <<kind, revisions, late, made, faults>>

\* 1.4 seconds after the last change, unless the connection is known to fail.
Autosave(t) == tab[t].mode = "dirty" /\ tab[t].up /\ Save(t)

\* The button, or Ctrl-S in any state.
SaveNow(t) == Save(t)

\* The recovery copy is dropped, in the component and in localStorage.
Recovered(r) == [r EXCEPT !.draft = Null, !.asking = FALSE]

\* The answer to c is applied: the component, if it is still there, becomes r,
\* and the copy in localStorage becomes kept.
Return(c, r, kept) ==
  /\ c.reply # "pending"
  /\ IF c.gone
     THEN /\ calls' = calls \ {c}
          /\ stored' = [stored EXCEPT ![c.tab] = kept]
          /\ UNCHANGED tab
     ELSE Render(c.tab, r, calls \ {c}, kept)

SaveReturns(c) ==
  LET r == tab[c.tab]
      copy == [base |-> c.base, source |-> c.source]
  IN /\ Rich /\ c.op = "save"
     /\ CASE c.reply = "ok" -> Return(c, [Recovered(Mounted(r, c.answer)) EXCEPT !.mode = "saved"], Null)
          [] c.reply = "conflict" -> Return(c, [r EXCEPT !.draft = copy, !.asking = TRUE, !.mode = "conflict"], copy)
          [] OTHER -> Return(c, [r EXCEPT !.mode = "error"], stored[c.tab])
     /\ UNCHANGED <<kind, revisions, late, made, faults>>

\* The editors of forms and decisions keep no copy.
PlainSaveReturns(c) ==
  LET r == tab[c.tab]
  IN /\ ~Rich /\ c.op = "save"
     /\ CASE c.reply = "ok" -> Return(c, [Mounted(r, c.answer) EXCEPT !.mode = "saved"], Null)
          [] c.reply = "conflict" -> Return(c, [r EXCEPT !.mode = "conflict"], Null)
          [] OTHER -> Return(c, [r EXCEPT !.mode = "error"], Null)
     /\ UNCHANGED <<kind, revisions, late, made, faults>>

\* Mutant: the flag that a load is under way is not cleared.
SyncReturnsStillSyncing(c) ==
  /\ c.op = "sync" /\ c.reply # "pending"
  /\ IF ~c.gone /\ c.reply = "ok" /\ c.answer # c.base
     THEN Return(c, Remounted(tab[c.tab], c.answer), stored[c.tab])
     ELSE calls' = calls \ {c} /\ UNCHANGED <<tab, stored>>
  /\ UNCHANGED <<kind, revisions, late, made, faults>>

\* The newer revision arrives; the save state is left as it is.  If nothing is
\* new, or the request failed, nothing is rendered and the effect does not run.
SyncReturns(c) ==
  LET t == c.tab
      r == [tab[t] EXCEPT !.syncing = FALSE]
  IN /\ c.op = "sync" /\ c.reply # "pending"
     /\ IF ~c.gone /\ c.reply = "ok" /\ c.answer # c.base
        THEN Return(c, Remounted(r, c.answer), stored[t])
        ELSE /\ tab' = IF c.gone THEN tab ELSE [tab EXCEPT ![t] = r]
             /\ calls' = calls \ {c}
             /\ UNCHANGED stored
     /\ UNCHANGED <<kind, revisions, late, made, faults>>

-----------------------------------------------------------------------------
(* The recovery dialog.                                                    *)

Offered(t) == Rich /\ tab[t].asking /\ tab[t].draft # Null
Divergent(t) == tab[t].draft.base # (IF tab[t].seen = 0 THEN tab[t].base ELSE tab[t].seen)

\* "Use shared draft" or "Discard local copy": the user gives the work up.
AcceptSharedDraft(t) ==
  /\ Offered(t) /\ Cardinality({c \in Mine(t) : c.op # "sync"}) < MaxCalls
  /\ calls' = calls \cup {Request(t, "accept", tab[t].base, {})}
  /\ UNCHANGED <<kind, revisions, tab, late, stored, made, faults>>

AcceptReturns(c) ==
  LET r == tab[c.tab]
  IN /\ c.op = "accept"
     /\ IF c.reply = "ok"
        THEN Return(c, [Recovered(Remounted(r, c.answer)) EXCEPT !.mode = "saved"], Null)
        ELSE Return(c, [r EXCEPT !.mode = "error"], stored[c.tab])
     /\ UNCHANGED <<kind, revisions, late, made, faults>>

\* "Restore my work": the canvas becomes the copy.
RestoreRecoveredDraft(t) ==
  /\ Offered(t) /\ ~Divergent(t)
  /\ LET source == tab[t].draft.source
     IN /\ Render(t, [tab[t] EXCEPT !.shown = source, !.canvas = source, !.asking = FALSE, !.mode = "dirty"],
                  calls, stored[t])
  /\ UNCHANGED <<kind, revisions, late, made, faults>>

\* "Keep my copy as latest": load the head, then save the copy on top of it.
KeepLocalCopy(t) ==
  /\ Offered(t) /\ Divergent(t) /\ tab[t].mode # "saving"
  /\ Cardinality({c \in Mine(t) : c.op # "sync"}) < MaxCalls
  /\ Render(t, [tab[t] EXCEPT !.mode = "saving"],
            calls \cup {Request(t, "keep", tab[t].base, tab[t].draft.source)}, stored[t])
  /\ UNCHANGED <<kind, revisions, late, made, faults>>

ShareCopy(c) ==
  /\ c.op = "keep" /\ c.reply = "ok"
  /\ calls' = (calls \ {c}) \cup {[Request(c.tab, "share", c.answer, c.source) EXCEPT !.gone = c.gone]}
  /\ UNCHANGED <<kind, revisions, tab, late, stored, made, faults>>

KeepReturns(c) ==
  LET r == tab[c.tab]
  IN /\ c.op = "share" \/ (c.op = "keep" /\ c.reply = "failed")
     /\ IF c.reply = "ok"
        THEN Return(c, [Recovered(Remounted(r, c.answer)) EXCEPT !.mode = "saved"], Null)
        ELSE Return(c, [r EXCEPT !.mode = IF c.reply = "conflict" THEN "conflict" ELSE "error"], stored[c.tab])
     /\ UNCHANGED <<kind, revisions, late, made, faults>>

-----------------------------------------------------------------------------
Answered(c) == SaveReturns(c) \/ PlainSaveReturns(c) \/ SyncReturns(c) \/ AcceptReturns(c) \/ ShareCopy(c) \/ KeepReturns(c)

Next ==
  \/ \E c \in calls : ServeSave(c) \/ ServeLoad(c) \/ Lose(c)
  \/ \E c \in calls : Answered(c)
  \/ \E e \in Theirs : TeammateSaves(e)
  \/ \E t \in Tabs : \/ Beat(t) \/ SlowBeat(t) \/ LateAnswer(t) \/ Disconnect(t)
                     \/ OpenStudio(t) \/ OpenPlain(t) \/ Leave(t) \/ Crash(t) \/ WriteRecovery(t) \/ Autosave(t) \/ SaveNow(t)
                     \/ AcceptSharedDraft(t) \/ RestoreRecoveredDraft(t) \/ KeepLocalCopy(t)
                     \/ \E e \in Ours : Edit(t, e)

\* Requests are answered, the browser delivers the answers, heartbeats are
\* sent every two seconds and the autosave timer of an idle tab fires.  The
\* user need do nothing.
Fairness ==
  \A t \in Tabs :
    /\ WF_vars(\E c \in calls : c.tab = t /\ (ServeSave(c) \/ ServeLoad(c)))
    /\ WF_vars(\E c \in calls : c.tab = t /\ Answered(c))
    /\ WF_vars(Beat(t))
    /\ WF_vars(LateAnswer(t))
    /\ WF_vars(Autosave(t))

Spec == Init /\ [][Next]_vars /\ Fairness

-----------------------------------------------------------------------------
\* An editor without unsaved work reaches the head after others saved.
EditorsCatchUp ==
  \A t \in Tabs : (Rich /\ tab[t].mode = "saved" /\ tab[t].base # Latest)
                   ~> (tab[t].base = Latest \/ tab[t].mode # "saved")

\* An editor with a change that waits for autosave, while no request is under
\* way and no copy is offered that the user could prefer.
Unsaved(t, e) ==
  tab[t].mode = "dirty" /\ e \in tab[t].canvas /\ ~tab[t].asking /\ \A c \in Mine(t) : c.gone

Shared(e) == \E n \in DOMAIN revisions : e \in revisions[n]

\* The editor says that saving failed or met another revision, and still has
\* the change, in the canvas or in the copy that its dialog offers.
ShownAsUnsaved(t, e) ==
  /\ tab[t].mode \in {"conflict", "error"}
  /\ e \in tab[t].canvas \/ (tab[t].draft # Null /\ e \in tab[t].draft.source)

\* While the user does nothing, unsaved work is sent in the end, also after
\* the connection was lost; or it is still there and the editor says that it is
\* not saved.  The second is where it may stay: autosave runs only in "dirty",
\* so after one failed save or a conflict nothing is sent until the user acts.
UnsavedWorkIsSentOrShown ==
  \A t \in Tabs, e \in Ours : Unsaved(t, e) ~> (Shared(e) \/ ShownAsUnsaved(t, e) \/ tab[t].mode = "closed")

\* "All changes saved": no step drops an edit from an editor that then says
\* so, unless the edit is in a revision or in a copy that is offered, or the
\* user chose the shared draft.
AllChangesSaved ==
  [][\A t \in Tabs : tab[t].mode # "closed" /\ tab'[t].mode = "saved" /\ ~(\E c \in calls : AcceptReturns(c))
        => \A e \in tab[t].canvas \ tab'[t].canvas : \E n \in DOMAIN revisions' : e \in revisions'[n]]_vars

=============================================================================
