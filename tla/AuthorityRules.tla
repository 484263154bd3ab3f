--------------------------- MODULE AuthorityRules ---------------------------
(***************************************************************************)
(* The transactions of runtime/postgres_store.py that read and write the   *)
(* authority documents of the single runtime_state row, as functions from  *)
(* one row to the next.  Each of them holds the row lock from its SELECT   *)
(* ... FOR UPDATE to its commit, so each is one atomic step.               *)
(*                                                                         *)
(* The documents:                                                          *)
(*   live    runtime_diag.orchestration_live, the live plane; `enabled`    *)
(*           stands for enabled = true and mode = "live" together          *)
(*   egress  execution_egress_enabled and execution_egress_authority       *)
(*   scalp   production_scalp_authority, the entry authority               *)
(*   admission  runtime_diag.live_command_admission: the generation that   *)
(*           is admitted, or NoEvidence when entries are blocked           *)
(*   startup, attested, status  boot id of runtime_startup, boot id of     *)
(*           runtime_attestation, runtime_status                           *)
(*   lease   runtime_last_cycle_ts is at most 30 s old                     *)
(*   broker  account identity and contracts are attested by the bridge     *)
(***************************************************************************)
EXTENDS Naturals

CONSTANTS Boots,        \* boot ids a runner process may draw (uuid4)
          Generations,  \* generations of signed release evidence
          NoBoot,       \* the empty boot id
          NoEvidence,   \* the evidence does not verify
          MaxRevision   \* bound on authority_revision (unbounded in the code)

ASSUME RulesAssumption ==
    /\ NoBoot \notin Boots
    /\ NoEvidence \notin Generations
    /\ MaxRevision \in Nat

Evidence == Generations \cup {NoEvidence}
BootId   == Boots \cup {NoBoot}
Revision == 0 .. MaxRevision

\* Pair, sleeve and intent scope together: nothing, the exit-only protective
\* scope, the runner's configured scope, the scope of a canary package.
Scope == {"none", "exit", "full", "canary"}

Live   == [enabled : BOOLEAN, runtime : BOOLEAN, killed : BOOLEAN,
           scope : Scope, revision : Revision]
Egress == [on : BOOLEAN, boot : BootId, revision : Revision, scope : Scope]
Scalp  == [status : {"absent", "active", "revoked"}, boot : BootId,
           revision : Revision, generation : Evidence]

RuntimeState ==
    [live : Live, egress : Egress, scalp : Scalp, admission : Evidence,
     startup : BootId, attested : BootId,
     status : {"absent", "starting", "running", "failed"},
     lease : BOOLEAN, broker : BOOLEAN]

EgressOff == [on |-> FALSE, boot |-> NoBoot, revision |-> 0, scope |-> "none"]

\* The row of a database nobody has traded on.
EmptyState ==
    [live |-> [enabled |-> FALSE, runtime |-> FALSE, killed |-> FALSE,
               scope |-> "none", revision |-> 0],
     egress |-> EgressOff,
     scalp |-> [status |-> "absent", boot |-> NoBoot, revision |-> 0,
                generation |-> NoEvidence],
     admission |-> NoEvidence, startup |-> NoBoot, attested |-> NoBoot,
     status |-> "absent", lease |-> FALSE, broker |-> TRUE]
-----------------------------------------------------------------------------
LiveActive(l)   == l.enabled /\ l.runtime /\ ~l.killed
LiveDisabled(l) == ~l.runtime \/ l.killed

\* Mutant: the store does not compare the plane with what egress was bound to.
EgressOpenAtAnyRevision(s) ==
    /\ s.egress.on
    /\ s.startup  = s.egress.boot
    /\ s.attested = s.egress.boot
    /\ s.status = "running"
    /\ s.lease
    /\ LiveActive(s.live)

\* Mutant: the attested boot is compared, the recorded startup is not.
EgressOpenWithoutStartup(s) ==
    /\ s.egress.on
    /\ s.attested = s.egress.boot
    /\ s.status = "running"
    /\ s.lease
    /\ LiveActive(s.live)
    /\ s.live.revision = s.egress.revision
    /\ s.live.scope    = s.egress.scope

\* _execution_egress_authorization_failure_from_state returns "".
EgressOpen(s) ==
    /\ s.egress.on
    /\ s.egress.boot # NoBoot
    /\ s.startup  = s.egress.boot
    /\ s.attested = s.egress.boot
    /\ s.status = "running"
    /\ s.lease
    /\ LiveActive(s.live)
    /\ s.live.revision = s.egress.revision
    /\ s.live.scope    = s.egress.scope

ProtectiveOnly(s) == s.egress.scope = "exit"

\* authority_error returns "" for this boot, revision and generation.
ScalpActive(s, b, r, g) ==
    s.scalp = [status |-> "active", boot |-> b, revision |-> r, generation |-> g]

\* A new production-scalp entry may cross the broker edge at this moment.
EntryOpen(s) ==
    /\ EgressOpen(s)
    /\ ~ProtectiveOnly(s)
    /\ s.admission # NoEvidence
    /\ s.broker
    /\ s.scalp.status   = "active"
    /\ s.scalp.boot     = s.startup
    /\ s.scalp.revision = s.live.revision
-----------------------------------------------------------------------------
Revoked(scalp) == IF scalp.status = "absent"
                    THEN scalp
                    ELSE [scalp EXCEPT !.status = "revoked"]

\* Mutant: the switch is cleared, the binding is left behind.
DisableEgressKeepsBinding(s) ==
    [s EXCEPT !.egress.on = FALSE,
              !.scalp  = Revoked(@),
              !.live   = [@ EXCEPT !.runtime  = FALSE,
                                   !.killed   = TRUE,
                                   !.revision = @ + 1]]

DisableEgress(s) ==
    [s EXCEPT !.egress = EgressOff,
              !.scalp  = Revoked(@),
              !.live   = [s.live EXCEPT !.runtime  = FALSE,
                                        !.killed   = TRUE,
                                        !.revision = s.live.revision + 1]]

CanEnableEgress(s, b) ==
    /\ LiveActive(s.live)
    /\ s.live.revision > 0
    /\ s.startup = b
    /\ s.status = "running"
    /\ s.live.scope # "none"

EnableEgress(s, b) ==
    [s EXCEPT !.egress = [on |-> TRUE, boot |-> b,
                          revision |-> s.live.revision,
                          scope    |-> s.live.scope]]

RevokeScalp(s) == [s EXCEPT !.scalp = Revoked(@)]

\* The activation branch of compare_and_set_production_scalp_authority; the
\* current live revision is not among what it compares.
CanActivateScalp(s, b, r, g) ==
    /\ s.scalp.status = "active" => s.scalp.generation = g
    /\ s.egress.on
    /\ s.egress.boot     = b
    /\ s.egress.revision = r
    /\ s.startup = b
    /\ s.status  = "running"
    /\ LiveActive(s.live)
    /\ s.live.scope = "full"
    /\ s.admission # NoEvidence
    /\ s.broker

ActivateScalp(s, b, r, g) ==
    [s EXCEPT !.scalp = [status |-> "active", boot |-> b, revision |-> r,
                         generation |-> g]]

(***************************************************************************)
(* _commit_state_patch, for a patch that carries runtime_diag: `known` is  *)
(* the live plane the caller read, `evidence` the admission it writes.     *)
(* The authority fields survive if egress is enabled or the caller's       *)
(* knowledge is out of date, and are what the caller read otherwise.       *)
(***************************************************************************)
\* Mutant: the caller's expectation is not compared with the row.
PreservedWhileEgressOn(s, known) ==
    IF s.egress.on THEN s.live ELSE known

PreservedLive(s, known) ==
    IF s.egress.on \/ known # s.live THEN s.live ELSE known

\* Mutant: a changed admission does not advance the revision.
PatchDiagKeepsRevision(s, known, evidence) ==
    [s EXCEPT !.admission = evidence,
              !.live = [PreservedLive(s, known) EXCEPT !.revision = s.live.revision]]

PatchDiag(s, known, evidence) ==
    LET live    == PreservedLive(s, known)
        changed == \/ [live EXCEPT !.revision = 0] # [s.live EXCEPT !.revision = 0]
                   \/ evidence # s.admission
    IN  [s EXCEPT !.admission = evidence,
                  !.live = [live EXCEPT !.revision =
                                s.live.revision + IF changed THEN 1 ELSE 0]]

\* patch_orchestration_live_state: every mutation advances the revision.
PatchLive(s, l) ==
    [s EXCEPT !.live = [l EXCEPT !.revision = s.live.revision + 1]]

\* Its optimistic guard; safety-dominant mutations skip it.
CanPatchLive(s, known, reenable) ==
    /\ known = s.live
    /\ LiveDisabled(s.live) => reenable

Armed(l, scope) == [l EXCEPT !.enabled = TRUE, !.runtime = TRUE,
                             !.killed = FALSE, !.scope = scope]
=============================================================================
