-------------------------- MODULE InstanceLifecycle --------------------------
(***************************************************************************)
(* What the runtime promises about one process instance, without workers,  *)
(* leases, work rows or wait rows.  An instance moves from checkpoint to   *)
(* checkpoint; each move consumes exactly one accepted trigger; while a    *)
(* trigger is in flight nothing else may change the instance; a trigger    *)
(* that cannot produce a checkpoint is set aside and leaves the checkpoint *)
(* where it was; COMPLETED and CANCELLED are final.  RuntimeCore refines   *)
(* this specification.                                                     *)
(***************************************************************************)
EXTENDS Naturals

CONSTANTS
  Instances,       \* process instances
  LastRevision     \* revision of the checkpoint that completes the process

VARIABLES
  phase,           \* process_instances.status; "NONE" before the row exists
  checkpoint,      \* process_instances.revision
  inFlight         \* an accepted command awaits incorporation

vars == <<phase, checkpoint, inFlight>>

Init ==
  /\ phase = [i \in Instances |-> "NONE"]
  /\ checkpoint = [i \in Instances |-> 0]
  /\ inFlight = [i \in Instances |-> FALSE]

Begin(i) ==
  /\ phase[i] = "NONE"
  /\ phase' = [phase EXCEPT ![i] = "STARTING"]
  /\ inFlight' = [inFlight EXCEPT ![i] = TRUE]
  /\ UNCHANGED checkpoint

Accept(i) ==
  /\ phase[i] = "WAITING"
  /\ ~inFlight[i]
  /\ inFlight' = [inFlight EXCEPT ![i] = TRUE]
  /\ UNCHANGED <<phase, checkpoint>>

\* The accepted trigger becomes checkpoint N+1.
Advance(i) ==
  /\ inFlight[i]
  /\ checkpoint[i] < LastRevision
  /\ checkpoint' = [checkpoint EXCEPT ![i] = @ + 1]
  /\ phase' = [phase EXCEPT ![i] =
                 IF checkpoint[i] + 1 = LastRevision THEN "COMPLETED" ELSE "WAITING"]
  /\ inFlight' = [inFlight EXCEPT ![i] = FALSE]

\* The accepted trigger is set aside; checkpoint N stays the last one.
Quarantine(i) ==
  /\ inFlight[i]
  /\ phase' = [phase EXCEPT ![i] = "INCIDENT"]
  /\ inFlight' = [inFlight EXCEPT ![i] = FALSE]
  /\ UNCHANGED checkpoint

\* The job of checkpoint N ran out of delivery attempts.
Stall(i) ==
  /\ phase[i] = "WAITING"
  /\ ~inFlight[i]
  /\ phase' = [phase EXCEPT ![i] = "INCIDENT"]
  /\ UNCHANGED <<checkpoint, inFlight>>

\* An operator reopened the wait of checkpoint N.
Resume(i) ==
  /\ phase[i] = "INCIDENT"
  /\ checkpoint[i] > 0
  /\ phase' = [phase EXCEPT ![i] = "WAITING"]
  /\ UNCHANGED <<checkpoint, inFlight>>

Cancel(i) ==
  /\ phase[i] \in {"WAITING", "INCIDENT"}
  /\ ~inFlight[i]
  /\ checkpoint[i] > 0
  /\ phase' = [phase EXCEPT ![i] = "CANCELLED"]
  /\ UNCHANGED <<checkpoint, inFlight>>

Settle(i) == Advance(i) \/ Quarantine(i)

Next ==
  \E i \in Instances :
    \/ Begin(i)
    \/ Accept(i)
    \/ Settle(i)
    \/ Stall(i)
    \/ Resume(i)
    \/ Cancel(i)

SafeSpec == Init /\ [][Next]_vars

Spec == SafeSpec /\ \A i \in Instances : WF_vars(Settle(i))

=============================================================================
