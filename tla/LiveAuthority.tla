---------------------------- MODULE LiveAuthority ----------------------------
(***************************************************************************)
(* Who may open broker egress, and who may close it: production-scalp      *)
(* runner processes (runtime/scalp_live_loop.py with                       *)
(* runtime/scalp_runtime_control.py), release operators                    *)
(* (training/release_workflow.py) and the emergency stop                   *)
(* (runtime/execution_egress_control.py), all working on one runtime_state *)
(* row through the transactions of AuthorityRules.                         *)
(*                                                                         *)
(* A runner activates its authority in a sequence of separate              *)
(* transactions with reads in between, at startup and again in every       *)
(* cycle.  Nothing excludes a second runner process: every boot id is a    *)
(* process of its own here, and an old one may still run when a new one    *)
(* boots.  Any process may die between any two steps, and an exception may *)
(* send it to its failure path.                                            *)
(***************************************************************************)
EXTENDS AuthorityRules

CONSTANTS Kinds,            \* the kinds of disturbance that may happen
          MaxDisturbances   \* bound on their number

ASSUME DisturbanceAssumption ==
    /\ Kinds \subseteq {"operator", "evidence", "exception"}
    /\ MaxDisturbances \in Nat

VARIABLES rt,             \* the runtime_state row
          proc,           \* the runner processes, by boot id
          operator,       \* a release operator between its read and its patch
          evidence,       \* what verifying the signed evidence yields now
          disturbances,   \* operator commands, evidence changes, exceptions so far
          superseded      \* history: boots past startup when another recorded its own

vars == <<rt, proc, operator, evidence, disturbances, superseded>>

NoLive  == EmptyState.live
Snap    == [live : Live, admission : Evidence]
NoSnap  == [live |-> NoLive, admission |-> NoEvidence]
SnapOf(s) == [live |-> s.live, admission |-> s.admission]

ArmSteps        == {"arm_read", "arm_replace", "arm_reread", "arm_admit",
                    "arm_plane_read", "arm_plane", "arm_egress", "arm_scalp",
                    "arm_failed"}
ProtectiveSteps == {"prot_disable", "prot_read", "prot_admit",
                    "prot_plane_read", "prot_plane", "prot_egress",
                    "prot_failed"}
StartupSteps    == {"boot_disable", "boot_record", "verify", "activate",
                    "ready_read", "ready"}
LoopSteps       == {"idle", "head", "commit"}
FailureSteps    == {"fail_disable", "fail_record"}
Down            == {"off", "dead"}
Step            == ArmSteps \cup ProtectiveSteps \cup StartupSteps
                     \cup LoopSteps \cup FailureSteps \cup Down

Process == [pc       : Step,
            phase    : {"startup", "loop"},
            latch    : BOOLEAN,      \* entry_revoked_latch
            admitted : Evidence,     \* this cycle's verification
            snap     : Snap,         \* the state it last read
            revision : Revision]     \* the revision it armed the plane at

NewProcess == [pc |-> "off", phase |-> "startup", latch |-> FALSE,
               admitted |-> NoEvidence, snap |-> NoSnap, revision |-> 0]

Operator == [task : {"none", "start", "ramp"}, live : Live]
NoTask   == [task |-> "none", live |-> NoLive]

\* An egress document is the disabled one or bound to a boot and to a
\* revision the plane has reached.
TypeOK ==
    /\ rt \in RuntimeState
    /\ IF rt.egress.on
         THEN rt.egress.boot \in Boots /\ rt.egress.revision \in 1 .. rt.live.revision
         ELSE rt.egress = EgressOff
    /\ proc \in [Boots -> Process]
    /\ operator \in Operator
    /\ evidence \in Evidence
    /\ disturbances \in 0 .. MaxDisturbances
    /\ superseded \subseteq Boots

Init ==
    /\ rt = EmptyState
    /\ proc = [b \in Boots |-> NewProcess]
    /\ operator = NoTask
    /\ evidence \in Evidence
    /\ disturbances = 0
    /\ superseded = {}
-----------------------------------------------------------------------------
(* Runner processes                                                        *)

PastStartup(b) == proc[b].phase = "loop" \/ proc[b].pc = "dead"

\* Process b moves from step `from` with the row becoming s and its own
\* state p.
Move(b, from, s, p) ==
    /\ proc[b].pc = from
    /\ s.live.revision <= MaxRevision
    /\ rt' = s
    /\ proc' = [proc EXCEPT ![b] = p]
    /\ superseded' = IF from = "boot_record"
                        THEN superseded \cup {c \in Boots \ {b} : PastStartup(c)}
                        ELSE superseded
    /\ UNCHANGED <<operator, evidence, disturbances>>

At(p, step) == [p EXCEPT !.pc = step]

\* What follows an activation: at startup a refusal is an exception.
Succeeded(p) == At(p, IF p.phase = "startup" THEN "ready_read" ELSE "commit")
Refused(p)   == At(p, IF p.phase = "startup" THEN "fail_disable" ELSE "commit")

Spawn(b) ==
    Move(b, "off", rt, At(proc[b], "boot_disable"))

\* record_runtime_boot_state is two transactions.
BootDisable(b) ==
    Move(b, "boot_disable", DisableEgress(rt), At(proc[b], "boot_record"))

BootRecord(b) ==
    Move(b, "boot_record",
         [rt EXCEPT !.startup = b, !.status = "starting", !.lease = FALSE],
         At(proc[b], "verify"))

Verify(b) ==
    Move(b, "verify", rt,
         [proc[b] EXCEPT !.pc = "activate", !.admitted = evidence,
                         !.snap = SnapOf(rt)])

\* The plane must be in running posture for the activation, with the lease
\* still stale.
Activate(b) ==
    Move(b, "activate",
         [PatchDiag(rt, proc[b].snap.live, proc[b].admitted)
             EXCEPT !.startup = b, !.attested = b,
                    !.status = "running", !.lease = FALSE],
         At(proc[b], IF proc[b].admitted = NoEvidence
                       THEN "prot_disable" ELSE "arm_read"))

ReadyRead(b) ==
    Move(b, "ready_read", rt,
         [proc[b] EXCEPT !.pc = "ready", !.snap = SnapOf(rt)])

Ready(b) ==
    Move(b, "ready",
         [PatchDiag(rt, proc[b].snap.live, proc[b].snap.admission)
             EXCEPT !.startup = b, !.attested = b,
                    !.status = "running", !.lease = TRUE],
         [NewProcess EXCEPT !.pc = "idle", !.phase = "loop",
                            !.latch = (proc[b].admitted = NoEvidence)])
-----------------------------------------------------------------------------
(* ensure_production_scalp_authority                                       *)

\* Mutant: the revision of the authority is not compared.
AlreadyActiveAtAnyRevision(b) ==
    /\ rt.egress.on
    /\ \E r \in Revision : ScalpActive(rt, b, r, proc[b].admitted)

AlreadyActive(b) ==
    /\ rt.live.revision > 0
    /\ rt.egress.on
    /\ ScalpActive(rt, b, rt.live.revision, proc[b].admitted)

ArmRead(b) ==
    IF AlreadyActive(b)
      THEN Move(b, "arm_read", rt, Succeeded(proc[b]))
      ELSE Move(b, "arm_read", rt,
                [proc[b] EXCEPT
                   !.snap = SnapOf(rt),
                   !.pc = IF /\ rt.scalp.status = "active"
                             /\ rt.scalp.generation # proc[b].admitted
                            THEN "arm_replace" ELSE "arm_admit"])

ArmReplace(b) ==
    Move(b, "arm_replace", RevokeScalp(rt), At(proc[b], "arm_reread"))

ArmReread(b) ==
    Move(b, "arm_reread", rt,
         [proc[b] EXCEPT !.pc = "arm_admit", !.snap = SnapOf(rt)])

ArmAdmit(b) ==
    Move(b, "arm_admit",
         PatchDiag(rt, proc[b].snap.live, proc[b].admitted),
         At(proc[b], "arm_plane_read"))

ArmPlaneRead(b) ==
    Move(b, "arm_plane_read", rt,
         [proc[b] EXCEPT !.pc = "arm_plane", !.snap = SnapOf(rt)])

ArmPlane(b) ==
    IF CanPatchLive(rt, proc[b].snap.live, TRUE)
      THEN LET s == PatchLive(rt, Armed(rt.live, "full"))
           IN  Move(b, "arm_plane", s,
                    [proc[b] EXCEPT !.pc = "arm_egress",
                                    !.revision = s.live.revision])
      ELSE Move(b, "arm_plane", rt, At(proc[b], "arm_failed"))

ArmEgress(b) ==
    IF CanEnableEgress(rt, b)
      THEN Move(b, "arm_egress", EnableEgress(rt, b), At(proc[b], "arm_scalp"))
      ELSE Move(b, "arm_egress", rt, At(proc[b], "arm_failed"))

ArmScalp(b) ==
    LET r == proc[b].revision
        g == proc[b].admitted
    IN  IF CanActivateScalp(rt, b, r, g)
          THEN Move(b, "arm_scalp", ActivateScalp(rt, b, r, g),
                    Succeeded(proc[b]))
          ELSE Move(b, "arm_scalp", rt, At(proc[b], "arm_failed"))
    
ArmFailed(b) ==
    Move(b, "arm_failed", RevokeScalp(rt), Refused(proc[b]))
-----------------------------------------------------------------------------
(* ensure_production_scalp_protective_management_egress                    *)

ProtDisable(b) ==
    Move(b, "prot_disable", DisableEgress(rt), At(proc[b], "prot_read"))

\* Only a revoked earlier authority identifies the positions to manage.
ProtRead(b) ==
    IF rt.scalp.status = "revoked" /\ rt.broker
      THEN Move(b, "prot_read", rt,
                [proc[b] EXCEPT !.pc = "prot_admit", !.snap = SnapOf(rt)])
      ELSE Move(b, "prot_read", rt, Refused(proc[b]))

ProtAdmit(b) ==
    Move(b, "prot_admit",
         PatchDiag(rt, proc[b].snap.live, proc[b].admitted),
         At(proc[b], "prot_plane_read"))

ProtPlaneRead(b) ==
    Move(b, "prot_plane_read", rt,
         [proc[b] EXCEPT !.pc = "prot_plane", !.snap = SnapOf(rt)])

ProtPlane(b) ==
    IF CanPatchLive(rt, proc[b].snap.live, TRUE)
      THEN Move(b, "prot_plane", PatchLive(rt, Armed(rt.live, "exit")),
                At(proc[b], "prot_egress"))
      ELSE Move(b, "prot_plane", rt, At(proc[b], "prot_failed"))

ProtEgress(b) ==
    IF CanEnableEgress(rt, b)
      THEN Move(b, "prot_egress", EnableEgress(rt, b), Succeeded(proc[b]))
      ELSE Move(b, "prot_egress", rt, At(proc[b], "prot_failed"))

ProtFailed(b) ==
    Move(b, "prot_failed", DisableEgress(rt), Refused(proc[b]))
-----------------------------------------------------------------------------
(* execute_production_scalp_cycle                                          *)

\* Mutant: the cycle trusts its own verification and forgets the latch.
CycleBeginForgetsLatch(b) ==
    Move(b, "idle", rt,
         [proc[b] EXCEPT !.pc = IF evidence = NoEvidence THEN "head" ELSE "arm_read",
                         !.latch = @ \/ evidence = NoEvidence,
                         !.admitted = evidence])

\* The cycle verifies the evidence; once that failed, the latch keeps the
\* process from entering again until it is restarted.
CycleBegin(b) ==
    LET revoked == evidence = NoEvidence \/ proc[b].latch
    IN  Move(b, "idle", rt,
             [proc[b] EXCEPT !.pc = IF revoked THEN "head" ELSE "arm_read",
                             !.latch = revoked,
                             !.admitted = evidence])
    
\* _protective_management_egress_active: the revisions are not compared.
ProtectiveActive(s, b) ==
    /\ s.egress.on
    /\ s.egress.boot = b
    /\ s.egress.scope = "exit"
    /\ LiveActive(s.live)

CycleHead(b) ==
    IF ProtectiveActive(rt, b)
      THEN Move(b, "head", rt, At(proc[b], "commit"))
      ELSE IF proc[b].admitted = NoEvidence
             THEN Move(b, "head", rt, At(proc[b], "prot_disable"))
             ELSE Move(b, "head", RevokeScalp(rt), At(proc[b], "commit"))

CycleCommit(b) ==
    Move(b, "commit",
         [PatchDiag(rt, rt.live, proc[b].admitted)
             EXCEPT !.attested = b, !.status = "running", !.lease = TRUE],
         [NewProcess EXCEPT !.pc = "idle", !.phase = "loop",
                            !.latch = proc[b].latch])

\* record_runtime_boot_failure, two transactions again.
FailDisable(b) ==
    Move(b, "fail_disable", DisableEgress(rt), At(proc[b], "fail_record"))

FailRecord(b) ==
    Move(b, "fail_record",
         [rt EXCEPT !.startup = b, !.status = "failed", !.lease = FALSE],
         [NewProcess EXCEPT !.pc = "dead"])

RunnerStep(b) ==
    \/ BootDisable(b) \/ BootRecord(b) \/ Verify(b) \/ Activate(b)
    \/ ReadyRead(b) \/ Ready(b)
    \/ ArmRead(b) \/ ArmReplace(b) \/ ArmReread(b) \/ ArmAdmit(b)
    \/ ArmPlaneRead(b) \/ ArmPlane(b) \/ ArmEgress(b) \/ ArmScalp(b)
    \/ ArmFailed(b)
    \/ ProtDisable(b) \/ ProtRead(b) \/ ProtAdmit(b) \/ ProtPlaneRead(b)
    \/ ProtPlane(b) \/ ProtEgress(b) \/ ProtFailed(b)
    \/ CycleBegin(b) \/ CycleHead(b) \/ CycleCommit(b)
    \/ FailDisable(b) \/ FailRecord(b)

Disturb(kind) ==
    /\ kind \in Kinds
    /\ disturbances < MaxDisturbances
    /\ disturbances' = disturbances + 1

\* Where an exception is caught.  Disabling is not retried: a protective
\* activation whose disable raises is reported inactive and nothing else.
Handled(p) ==
    CASE p.pc \in {"arm_plane", "arm_egress", "arm_scalp"} -> At(p, "arm_failed")
      [] p.pc \in {"prot_admit", "prot_plane_read", "prot_plane", "prot_egress"}
            -> At(p, "prot_failed")
      [] p.pc \in {"prot_disable", "prot_failed"} -> Refused(p)
      [] OTHER -> At(p, "fail_disable")

\* Any call may raise once the boot is recorded; before that, and on the
\* failure path itself, an exception ends the process (Crash).
Raise(b) ==
    /\ proc[b].pc \notin Down \cup FailureSteps \cup {"boot_disable", "boot_record"}
    /\ Disturb("exception")
    /\ proc' = [proc EXCEPT ![b] = Handled(proc[b])]
    /\ UNCHANGED <<rt, operator, evidence, superseded>>

Crash(b) ==
    /\ proc[b].pc \notin Down
    /\ proc' = [proc EXCEPT ![b] = [NewProcess EXCEPT !.pc = "dead"]]
    /\ UNCHANGED <<rt, operator, evidence, disturbances, superseded>>
-----------------------------------------------------------------------------
(* Operators and environment                                               *)

Command(s) ==
    /\ Disturb("operator")
    /\ s.live.revision <= MaxRevision
    /\ rt' = s
    /\ UNCHANGED <<proc, evidence, superseded>>

\* disable_and_verify, the emergency stop.
StopAll == Command(DisableEgress(rt)) /\ UNCHANGED operator

\* Safety-dominant mutations: no snapshot is compared.
RuntimeKill ==
    /\ Command(PatchLive(rt, [rt.live EXCEPT !.runtime = FALSE]))
    /\ UNCHANGED operator

QueueKill ==
    /\ Command(PatchLive(rt, [rt.live EXCEPT !.runtime = FALSE, !.killed = TRUE]))
    /\ UNCHANGED operator

\* Reject, roll back, or shadow-accept a canary.
RetireCanary ==
    /\ Command(PatchLive(rt, [rt.live EXCEPT !.enabled = FALSE, !.runtime = FALSE,
                                               !.killed = FALSE]))
    /\ UNCHANGED operator

\* Starting or ramping a canary reads the plane in one transaction and
\* patches it in a later one.
OperatorRead ==
    /\ operator = NoTask
    /\ "operator" \in Kinds
    /\ disturbances < MaxDisturbances
    /\ \E task \in {"start", "ramp"} : operator' = [task |-> task, live |-> rt.live]
    /\ UNCHANGED <<rt, proc, evidence, disturbances, superseded>>

OperatorPatch ==
    /\ operator # NoTask
    /\ operator' = NoTask
    /\ IF CanPatchLive(rt, operator.live, operator.task = "start")
         THEN Command(PatchLive(rt,
                IF operator.task = "start"
                  THEN Armed(rt.live, "canary")
                  ELSE [rt.live EXCEPT !.runtime = TRUE, !.killed = FALSE,
                                       !.scope = "canary"]))
         ELSE UNCHANGED <<rt, proc, evidence, disturbances, superseded>>

EvidenceChanges ==
    /\ Disturb("evidence")
    /\ evidence' \in Evidence \ {evidence}
    /\ UNCHANGED <<rt, proc, operator, superseded>>

\* More than 30 s without a committed cycle.
LeaseLapses ==
    /\ rt.lease
    /\ rt' = [rt EXCEPT !.lease = FALSE]
    /\ UNCHANGED <<proc, operator, evidence, disturbances, superseded>>

\* A heartbeat attests the broker account, or fails to.
BrokerChanges ==
    /\ rt' = [rt EXCEPT !.broker = ~@]
    /\ UNCHANGED <<proc, operator, evidence, disturbances, superseded>>

Next ==
    \/ \E b \in Boots : Spawn(b) \/ RunnerStep(b) \/ Raise(b) \/ Crash(b)
    \/ StopAll \/ RuntimeKill \/ QueueKill \/ RetireCanary
    \/ OperatorRead \/ OperatorPatch
    \/ EvidenceChanges \/ LeaseLapses \/ BrokerChanges

Spec == Init /\ [][Next]_vars

\* A live runner process keeps executing its loop.
FairSpec == Spec /\ \A b \in Boots : WF_vars(RunnerStep(b))
-----------------------------------------------------------------------------
(* Properties                                                              *)

\* Broker egress is never open for a process that was past its startup, or
\* dead, when another boot recorded its own: an old process that still cycles,
\* re-arms the plane and renews the lease cannot reopen it
\* (docs/agents/ops-entrypoints.md: there is no "old-process bypass").
NoOldProcessBypass == EgressOpen(rt) => rt.egress.boot \notin superseded

\* An entry is approved at a revision and rechecked at delivery by comparing
\* that number alone: as long as the revision stands, neither the plane nor
\* the admission it was approved under has changed, whichever of the runners'
\* and operators' transactions wrote in between.
RevisionPinsPlane ==
    [][rt'.live.revision = rt.live.revision =>
         rt'.live = rt.live /\ rt'.admission = rt.admission]_vars

\* Once a process has seen invalid evidence, no entry authority of its boot is
\* usable after the steps that react to it, even if the evidence becomes valid
\* again or the attempt to disable egress raised (entry_revoked_latch).
LatchedNeverEnters ==
    \A b \in Boots :
        EntryOpen(rt) /\ rt.scalp.boot = b /\ proc[b].latch =>
            proc[b].pc \in {"head", "prot_disable", "commit", "fail_disable"}

\* A kill of the live plane is cleared only by an actor that had read it: no
\* patch prepared before the kill, by a runner or an operator, revives the
\* plane ("an older enable/ramp operation can never resurrect it",
\* patch_orchestration_live_state).
NoStaleRevival ==
    [][LiveDisabled(rt.live) /\ ~LiveDisabled(rt'.live) =>
         \/ operator.live = rt.live /\ operator # operator'
         \/ \E b \in Boots : proc[b].snap.live = rt.live /\ proc[b] # proc'[b]]_vars

\* The row keeps the promise the command queue relies on: a revision is never
\* reused, and an egress that stays open keeps its revision and scope.
Authority == INSTANCE ExecutionAuthority WITH
    auth <- [open       |-> EgressOpen(rt),
             protective |-> EgressOpen(rt) /\ ProtectiveOnly(rt),
             revision   |-> rt.live.revision]

ImplementsAuthority == Authority!AuthoritySpec

\* Nothing disturbs process b in its loop, short of the bound on revisions.
Undisturbed(b) ==
    /\ proc[b].phase = "loop"
    /\ proc[b].pc \notin FailureSteps \cup Down
    /\ \A c \in Boots \ {b} : proc[c].pc \in Down
    /\ rt.startup = b
    /\ rt.broker
    /\ rt.live.revision < MaxRevision

\* A running, undisturbed runner with valid evidence gets entries open again
\* and again, whatever kills, ramps and failed activations came before.
EntriesRecover ==
    \A b \in Boots :
        <>[](Undisturbed(b) /\ ~proc[b].latch /\ evidence # NoEvidence)
            => []<>EntryOpen(rt)

\* docs/agents/runtime-loop.md: "only a fresh strategy-specific startup
\* activation may re-enable killed authority".
ReenabledAtStartupOnly ==
    [][LiveDisabled(rt.live) /\ ~LiveDisabled(rt'.live) =>
         \/ operator.task = "start" /\ operator # operator'
         \/ \E b \in Boots : proc[b].phase = "startup" /\ proc[b] # proc'[b]]_vars

\* docs/agents/bridge-and-api-handshakes.md: "exact-owner protective commands
\* remain deliverable even when new-entry signed-validation authority has been
\* revoked": while a latched, undisturbed runner finds its protective egress
\* active and the plane has the exit scope, the store keeps it open.
ProtectiveStaysDeliverable ==
    \A b \in Boots :
        <>[](/\ Undisturbed(b)
             /\ proc[b].latch
             /\ ProtectiveActive(rt, b)
             /\ rt.live.scope = "exit") => []<>EgressOpen(rt)
=============================================================================
