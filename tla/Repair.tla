------------------------------- MODULE Repair -------------------------------
(***************************************************************************)
(* apply_repairs (core/repair.py): a plan made from a validation report is    *)
(* applied in a writable session of its own, under a recovery checkpoint and  *)
(* an audit file that is rewritten at each stage.                            *)
(*                                                                          *)
(* The plan is made under a lock that is released before the session opens:  *)
(* other sessions may change the image in between.  Any write of the audit,  *)
(* any step of the session and the progress callback may raise.  A process   *)
(* that is killed takes no further step: what holds in every state holds of   *)
(* what it leaves.                                                           *)
(***************************************************************************)
EXTENDS Naturals, Sequences

CONSTANT NoAudit \* no audit file

\* The repairs that may be automatic, in the order a plan lists them.
Actions == <<"clear_empty_file_extents", "normalise_directory_lengths",
             "pad_reserved_tail">>

Low == {Actions[i] : i \in DOMAIN Actions}

Audits ==
  [status : {"planned", "applying", "verified", "completed", "failed"},
   created : BOOLEAN, retained : BOOLEAN, applied : SUBSET Low]

ASSUME RepairAssumption == NoAudit \notin Audits

\* Findings by the action that answers them; "manual" stands for all that need a
\* decision or are fatal.
Findings == Low \cup {"manual"}

VARIABLES
  flaws,    \* what a validation of the image would find
  pending,  \* the manifest of a recovery checkpoint exists
  rpc,      \* repair: where it is
  plan,     \* repair: the actions of its plan
  next,     \* repair: the index in Actions it has come to
  session,  \* repair: "none", "open", "failed" or "closed"
  payload,  \* repair: the audit as it should be
  audit,    \* the audit file
  touched,  \* history: actions that have changed the image
  checked,  \* history: the image has been validated since the last change
  rres      \* repair: how it ended

imageState == <<flaws, pending>>
repairVars ==
  <<imageState, rpc, plan, next, session, payload, audit, touched, checked, rres>>

NewAudit == [status |-> "planned", created |-> FALSE, retained |-> FALSE, applied |-> {}]

RepairInit ==
  /\ flaws \in SUBSET Findings /\ pending \in BOOLEAN
  /\ rpc = "plan" /\ plan = {} /\ next = 1 /\ session = "none"
  /\ payload = NewAudit /\ audit = NoAudit
  /\ touched = {} /\ checked = FALSE /\ rres = "none"

RepairGoes(pc) == rpc' = pc

-----------------------------------------------------------------------------
\* application_supported: something to do, all of it low-risk, nothing fatal.
Supported(actions) == actions # {} /\ actions \subseteq Low

\* plan_repairs, after the typed confirmation: refused with nothing written.
PlanRepair ==
  /\ rpc = "plan"
  /\ \/ Supported(flaws) /\ plan' = flaws /\ RepairGoes("audit") /\ rres' = rres
     \/ plan' = {} /\ RepairGoes("done") /\ rres' = "refused"
  /\ UNCHANGED <<imageState, next, session, payload, audit, touched, checked>>

\* Without its audit no repair begins.  A refused one may leave the file: the write or
\* the progress callback raised after it was there.
FirstAudit ==
  /\ rpc = "audit"
  /\ \/ audit' = payload /\ RepairGoes("open") /\ rres' = rres
     \/ audit' \in {audit, payload} /\ RepairGoes("done") /\ rres' = "refused"
  /\ UNCHANGED <<imageState, plan, next, session, payload, touched, checked>>

\* ReadOnlyImage.open in repair mode: validated again, then the checkpoint, which a
\* pending one forbids.  When it fails late the checkpoint stays.
OpenForRepair ==
  /\ rpc = "open"
  /\ \/ /\ "manual" \notin flaws /\ ~pending
        /\ pending' = TRUE /\ session' = "open" /\ RepairGoes("applying")
     \/ /\ session' = session /\ RepairGoes("raised")
        /\ pending' \in {pending, pending \/ "manual" \notin flaws}
  /\ UNCHANGED <<flaws, plan, next, payload, audit, touched, checked, rres>>

\* atomic_write_private_text replaces the file and then syncs its directory: a write
\* that raises leaves the old file or the new one.
WritesAudit(new, pc) ==
  /\ payload' = new
  /\ \/ audit' = new /\ RepairGoes(pc)
     \/ audit' \in {audit, new} /\ RepairGoes("raised")

AuditApplying ==
  /\ rpc = "applying"
  /\ WritesAudit([payload EXCEPT !.status = "applying", !.created = TRUE], "action")
  /\ UNCHANGED <<imageState, plan, next, session, touched, checked, rres>>

-----------------------------------------------------------------------------
SkipAction ==
  /\ rpc = "action" /\ next \in DOMAIN Actions /\ Actions[next] \notin plan
  /\ next' = next + 1
  /\ UNCHANGED <<imageState, rpc, plan, session, payload, audit, touched, checked, rres>>

\* The padding needs its flaw; an entry is only still to be there, and entries that
\* another session made since the plan keep the flaw.  A mutation that fails is rolled
\* back, or the session has failed.
ApplyAction ==
  /\ rpc = "action" /\ next \in DOMAIN Actions /\ Actions[next] \in plan
  /\ \/ /\ \/ flaws' = flaws \ {Actions[next]}
           \/ flaws' = flaws
        /\ Actions[next] = "pad_reserved_tail" =>
             Actions[next] \in flaws \ flaws'
        /\ touched' = touched \cup {Actions[next]} /\ checked' = FALSE
        /\ RepairGoes("applied") /\ session' = session
     \/ /\ RepairGoes("raised") /\ UNCHANGED <<flaws, touched, checked, session>>
     \/ /\ RepairGoes("raised") /\ session' = "failed"
        /\ flaws' = flaws \cup {"manual"}
        /\ touched' = touched \cup {Actions[next]} /\ checked' = FALSE
  /\ UNCHANGED <<pending, plan, next, payload, audit, rres>>

\* What the file says after an action.
AuditTarget == [payload EXCEPT !.applied = @ \cup {Actions[next]}]

AuditApplied ==
  /\ rpc = "applied"
  /\ WritesAudit(AuditTarget, "action")
  /\ next' = next + 1
  /\ UNCHANGED <<imageState, plan, session, touched, checked, rres>>

MutantRepaired == "manual" \notin flaws

\* No fatal finding, and none of the plan's.
Repaired == "manual" \notin flaws /\ flaws \cap plan = {}

VerifyRepair ==
  /\ rpc = "action" /\ next \notin DOMAIN Actions
  /\ IF Repaired THEN RepairGoes("verified") /\ checked' = TRUE
     ELSE RepairGoes("raised") /\ checked' = checked
  /\ UNCHANGED <<imageState, plan, next, session, payload, audit, touched, rres>>

AuditVerified ==
  /\ rpc = "verified"
  /\ WritesAudit([payload EXCEPT !.status = "verified"], "close")
  /\ UNCHANGED <<imageState, plan, next, session, touched, checked, rres>>

\* image.close(): validated once more, closed, then the checkpoint is completed: the
\* manifest goes first, and the sync after it may raise.
CloseRepaired ==
  /\ rpc = "close" /\ session' = "closed"
  /\ \/ pending' = FALSE /\ RepairGoes("closed")
     \/ pending' \in BOOLEAN /\ RepairGoes("raised")
  /\ UNCHANGED <<flaws, plan, next, payload, audit, touched, checked, rres>>

AuditCompleted ==
  /\ rpc = "closed"
  /\ WritesAudit([payload EXCEPT !.status = "completed"], "complete")
  /\ UNCHANGED <<imageState, plan, next, session, touched, checked, rres>>

RepairDone ==
  /\ rpc = "complete" /\ RepairGoes("done") /\ rres' = "repaired"
  /\ UNCHANGED <<imageState, plan, next, session, payload, audit, touched, checked>>

\* The budget, the progress callback or the session raises between two stages.
Raises ==
  /\ rpc \in {"applying", "action", "verified", "close", "complete"}
  /\ RepairGoes("raised")
  /\ UNCHANGED <<imageState, plan, next, session, payload, audit, touched, checked, rres>>

MutantAfterError == pending /\ (session = "failed" \/ "manual" \in flaws)

\* close(clean=False) leaves the checkpoint as it is.
AfterError == pending

\* The handler closes the image unclean, unless it is closed already, and tries to
\* write the failure down.
HandleError ==
  /\ rpc = "raised" /\ RepairGoes("done")
  /\ session' = IF session = "none" THEN "none" ELSE "closed"
  /\ pending' = IF session \in {"open", "failed"} THEN AfterError ELSE pending
  /\ LET completed == payload.status = "completed"
     IN  /\ payload' = [payload EXCEPT !.status = "failed",
                                       !.retained = @ \/ (payload.created /\ ~completed)]
         /\ rres' = IF completed THEN "unmarked" ELSE "failed"
  /\ audit' \in {audit, payload'}
  /\ UNCHANGED <<flaws, plan, next, touched, checked>>

\* Another session, while the repair holds no opening: it may leave the image with
\* other flaws, or die and leave a checkpoint.
OtherWriter ==
  /\ rpc \in {"audit", "open"} /\ ~pending
  /\ flaws' \in SUBSET Findings /\ pending' \in BOOLEAN
  /\ UNCHANGED <<rpc, plan, next, session, payload, audit, touched, checked, rres>>

RepairNext ==
  \/ PlanRepair \/ FirstAudit \/ OpenForRepair \/ AuditApplying
  \/ SkipAction \/ ApplyAction \/ AuditApplied
  \/ VerifyRepair \/ AuditVerified \/ CloseRepaired \/ AuditCompleted \/ RepairDone
  \/ Raises \/ HandleError \/ OtherWriter

RepairSpec == RepairInit /\ [][RepairNext]_repairVars

-----------------------------------------------------------------------------
\* Type invariant of the repair.
RepairTypeOK ==
  /\ flaws \in SUBSET Findings /\ pending \in BOOLEAN
  /\ rpc \in {"plan", "audit", "open", "applying", "action", "applied", "verified",
              "close", "closed", "complete", "raised", "done"}
  /\ plan \in SUBSET Low /\ next \in 1 .. Len(Actions) + 1
  /\ session \in {"none", "open", "failed", "closed"}
  /\ payload \in Audits /\ audit \in Audits \cup {NoAudit}
  /\ touched \in SUBSET Low /\ checked \in BOOLEAN
  /\ rres \in {"none", "refused", "failed", "unmarked", "repaired"}

\* A repair that has changed the image without validating the result leaves the
\* checkpoint, wherever it stops (docs/damaged-images.md: "A failed operation retains
\* its checkpoint"), and changes only what a complete low-risk plan names.
UncheckedRepairIsRecoverable ==
  /\ touched # {} /\ ~checked => pending
  /\ touched \subseteq plan

\* Wherever a repair stops, and whether or not an audit write that raised took effect,
\* the audit file names every action that has changed the image but the last, says
\* verified or completed only of an image that was validated with none of the planned
\* findings, claims a retained checkpoint only where the checkpoint is or the image
\* needs none, and as a failure's last word on a changed image that nobody validated
\* says that the checkpoint was retained.  "Repair failed; the checkpoint was retained"
\* promises more: a close that raises in the sync after complete() has removed the
\* manifest leaves an audit that claims a checkpoint the validated image no longer has.
AuditKeepsUp ==
  /\ touched # {} => audit # NoAudit /\ audit.created
  /\ audit # NoAudit =>
       /\ \A i, j \in DOMAIN Actions :
            i < j /\ {Actions[i], Actions[j]} \subseteq touched => Actions[i] \in audit.applied
       /\ audit.status \in {"verified", "completed"} =>
            checked /\ flaws \cap (plan \cup {"manual"}) = {} /\ audit.applied = plan
       /\ audit.status = "completed" => ~pending
       /\ audit.retained => pending \/ checked
       /\ audit.status = "failed" /\ touched # {} /\ ~checked => audit.retained
=============================================================================
