------------------------- MODULE LiveAuthorityProofs -------------------------
(***************************************************************************)
(* The authority documents for any number of runner processes, generations *)
(* of evidence, disturbances and revisions.                                *)
(***************************************************************************)
EXTENDS LiveAuthority, TLAPS

\* The egress document is the disabled one or bound to a boot and to a
\* revision the plane has reached.
EgressBound(s) ==
    IF s.egress.on
      THEN s.egress.boot \in Boots /\ s.egress.revision \in 1 .. s.live.revision
      ELSE s.egress = EgressOff

\* What any transaction may do to the row, as far as revisions and egress are
\* concerned: the revision never falls and pins plane and admission, and
\* egress is kept, disabled, or bound to the plane as it is.
Transaction(s, t) ==
    /\ t.live.revision >= s.live.revision
    /\ t.live.revision = s.live.revision => t.live = s.live /\ t.admission = s.admission
    /\ \/ t.egress = s.egress
       \/ t.egress = EgressOff
       \/ /\ t.live = s.live
          /\ t.egress.on
          /\ t.egress.boot \in Boots
          /\ t.egress.revision = s.live.revision
          /\ t.egress.scope = s.live.scope
          /\ s.live.revision > 0

\* An active entry authority of boot b.
ScalpOf(s, b) == s.scalp.status = "active" /\ s.scalp.boot = b

\* Entries of boot b stay closed, whatever other processes write: its authority
\* is gone or outdated, or the admission is, which cannot come back without a
\* new revision, or its egress is not open for entries.
EntryClosed(s, b) ==
    \/ ~ScalpOf(s, b)
    \/ s.scalp.revision < s.live.revision
    \/ s.admission = NoEvidence
    \/ ~(s.egress.on /\ s.egress.boot = b /\ s.egress.scope # "exit")

\* A transaction that gives boot b nothing it did not have.
NothingFor(s, t, b) ==
    /\ s.scalp.boot # b => t.scalp.boot # b
    /\ ~ScalpOf(s, b) => ~ScalpOf(t, b)
    /\ EntryClosed(s, b) => EntryClosed(t, b)

\* The plane with another revision.
LEMMA LiveAtRevision ==
    ASSUME NEW l \in Live, NEW r \in Revision
    PROVE  /\ [l EXCEPT !.revision = r] \in Live
           /\ [l EXCEPT !.revision = r].revision = r
           /\ [l EXCEPT !.revision = r].scope = l.scope
           /\ [l EXCEPT !.revision = r].enabled = l.enabled
           /\ [l EXCEPT !.revision = r].runtime = l.runtime
           /\ [l EXCEPT !.revision = r].killed = l.killed
  BY DEF Live

\* A revoked scalp authority keeps its process and revision.
LEMMA RevokedShape ==
    ASSUME NEW a \in Scalp
    PROVE  /\ Revoked(a) \in Scalp
           /\ Revoked(a).status # "active"
           /\ Revoked(a).boot = a.boot
           /\ Revoked(a).revision = a.revision
  BY DEF Revoked, Scalp

\* What the transactions leave alone.
SameBoot(s, t) ==
    t.startup = s.startup /\ t.attested = s.attested /\ t.status = s.status

\* A scalp authority never names a revision that the plane has not reached.
GoodRow(s) ==
    /\ s \in RuntimeState
    /\ EgressBound(s)
    /\ s.scalp.revision <= s.live.revision

\* What disabling egress leaves of the row.
LEMMA DisableEgressShape ==
    ASSUME NEW s, GoodRow(s), DisableEgress(s).live.revision <= MaxRevision
    PROVE  LET t == DisableEgress(s)
           IN  /\ GoodRow(t)
               /\ t.egress = EgressOff
               /\ t.scalp = Revoked(s.scalp)
               /\ t.live.revision = s.live.revision + 1
               /\ LiveDisabled(t.live)
               /\ t.admission = s.admission
               /\ SameBoot(s, t)
               /\ Transaction(s, t)
               /\ \A b \in Boots : NothingFor(s, t, b)
  <1> DEFINE t == DisableEgress(s)
  <1> DEFINE l == [s.live EXCEPT !.runtime = FALSE, !.killed = TRUE,
                                !.revision = s.live.revision + 1]
  <1>0. s \in RuntimeState
    BY DEF GoodRow
  <1>1. /\ s.live \in Live /\ s.scalp \in Scalp /\ s.live.revision \in Nat
    BY <1>0, RulesAssumption DEF RuntimeState, Live, Revision
  <1>2. /\ t.live = l /\ t.egress = EgressOff /\ t.scalp = Revoked(s.scalp)
        /\ t.admission = s.admission
        /\ SameBoot(s, t)
    BY <1>0 DEF DisableEgress, RuntimeState, SameBoot
  <1>3. l.revision = s.live.revision + 1 /\ l.runtime = FALSE
    BY <1>1 DEF Live
  <1> HIDE DEF l
  <1>5. l.revision \in Revision
    BY <1>1, <1>2, <1>3, RulesAssumption DEF Revision
  <1>6. l \in Live
    BY <1>1, <1>3, <1>5 DEF l, Live
  <1>7. EgressOff \in Egress /\ Revoked(s.scalp) \in Scalp
    BY <1>1, RevokedShape, RulesAssumption DEF EgressOff, Egress, BootId, Revision, Scope
  <1>8. t \in RuntimeState
    BY <1>0, <1>6, <1>7 DEF DisableEgress, RuntimeState, l
  <1>9. EgressBound(t)
    BY <1>2 DEF EgressBound, EgressOff
  <1>10. Transaction(s, t)
    BY <1>1, <1>2, <1>3 DEF Transaction
  <1>11. t.scalp.revision <= t.live.revision /\ \A b \in Boots : NothingFor(s, t, b)
    BY <1>1, <1>2, <1>3, RevokedShape
       DEF GoodRow, NothingFor, ScalpOf, EntryClosed, Scalp, Revision
  <1>12. QED
    BY <1>2, <1>3, <1>8, <1>9, <1>10, <1>11 DEF LiveDisabled, GoodRow

\* A change of the plane alone.
LEMMA PatchLiveShape ==
    ASSUME NEW s, GoodRow(s), NEW l \in Live, PatchLive(s, l).live.revision <= MaxRevision
    PROVE  LET t == PatchLive(s, l)
           IN  /\ GoodRow(t)
               /\ t.live.revision = s.live.revision + 1
               /\ t.live.scope = l.scope
               /\ LiveDisabled(t.live) = LiveDisabled(l)
               /\ t.egress = s.egress /\ t.scalp = s.scalp /\ t.admission = s.admission
               /\ SameBoot(s, t)
               /\ Transaction(s, t)
               /\ \A b \in Boots : NothingFor(s, t, b)
  <1> DEFINE t == PatchLive(s, l)
  <1> DEFINE m == [l EXCEPT !.revision = s.live.revision + 1]
  <1>0. s \in RuntimeState /\ EgressBound(s)
    BY DEF GoodRow
  <1>1. s.live \in Live /\ s.live.revision \in Nat /\ s.egress \in Egress
    BY <1>0, RulesAssumption DEF RuntimeState, Live, Revision
  <1>2. /\ t.live = m /\ t.egress = s.egress /\ t.scalp = s.scalp
        /\ t.admission = s.admission
        /\ SameBoot(s, t)
    BY <1>0 DEF PatchLive, RuntimeState, SameBoot
  <1>3. m.revision = s.live.revision + 1 /\ m.scope = l.scope
    BY DEF Live
  <1>4. s.live.revision + 1 \in Revision
    BY <1>1, <1>2, <1>3, RulesAssumption DEF Revision
  <1>5. m \in Live /\ m.runtime = l.runtime /\ m.killed = l.killed
    BY <1>4, LiveAtRevision
  <1>6. t \in RuntimeState
    BY <1>0, <1>5 DEF PatchLive, RuntimeState
  <1> HIDE DEF m
  <1>7. EgressBound(t)
    BY <1>0, <1>1, <1>2, <1>3 DEF EgressBound, Egress, Revision
  <1>8. Transaction(s, t)
    BY <1>1, <1>2, <1>3 DEF Transaction
  <1>a. s.scalp \in Scalp /\ s.scalp.revision \in Nat
    BY <1>0 DEF RuntimeState, Scalp, Revision
  <1>9. t.scalp.revision <= t.live.revision /\ \A b \in Boots : NothingFor(s, t, b)
    BY <1>1, <1>2, <1>3, <1>a DEF GoodRow, NothingFor, ScalpOf, EntryClosed
  <1>10. QED
    BY <1>2, <1>3, <1>5, <1>6, <1>7, <1>8, <1>9 DEF LiveDisabled, GoodRow

\* The planes that runners and operators write.
LEMMA PlanesWritten ==
    ASSUME NEW l \in Live
    PROVE  /\ \A scope \in Scope : /\ Armed(l, scope) \in Live
                                  /\ Armed(l, scope).scope = scope
           /\ [l EXCEPT !.runtime = FALSE] \in Live
           /\ LiveDisabled([l EXCEPT !.runtime = FALSE])
           /\ [l EXCEPT !.runtime = FALSE, !.killed = TRUE] \in Live
           /\ LiveDisabled([l EXCEPT !.runtime = FALSE, !.killed = TRUE])
           /\ [l EXCEPT !.enabled = FALSE, !.runtime = FALSE, !.killed = FALSE] \in Live
           /\ LiveDisabled([l EXCEPT !.enabled = FALSE, !.runtime = FALSE, !.killed = FALSE])
           /\ [l EXCEPT !.runtime = TRUE, !.killed = FALSE, !.scope = "canary"] \in Live
  <1>1. \A scope \in Scope : Armed(l, scope) \in Live /\ Armed(l, scope).scope = scope
    BY DEF Armed, Live
  <1>2. /\ [l EXCEPT !.runtime = FALSE] \in Live
        /\ LiveDisabled([l EXCEPT !.runtime = FALSE])
    BY DEF LiveDisabled, Live
  <1>3. /\ [l EXCEPT !.runtime = FALSE, !.killed = TRUE] \in Live
        /\ LiveDisabled([l EXCEPT !.runtime = FALSE, !.killed = TRUE])
    BY DEF LiveDisabled, Live
  <1>4. /\ [l EXCEPT !.enabled = FALSE, !.runtime = FALSE, !.killed = FALSE] \in Live
        /\ LiveDisabled([l EXCEPT !.enabled = FALSE, !.runtime = FALSE, !.killed = FALSE])
    BY DEF LiveDisabled, Live
  <1>5. [l EXCEPT !.runtime = TRUE, !.killed = FALSE, !.scope = "canary"] \in Live
    BY DEF Live, Scope
  <1>6. QED
    BY <1>1, <1>2, <1>3, <1>4, <1>5

\* The caller's knowledge of the plane never matters: either it is what the
\* row says, or the row's plane survives.
LEMMA PreservedIsCurrent ==
    ASSUME NEW s, NEW known
    PROVE  PreservedLive(s, known) = s.live
  BY DEF PreservedLive

\* A patch that carries runtime_diag changes the admission and, with it, the
\* revision; the plane it keeps.
LEMMA PatchDiagShape ==
    ASSUME NEW s, GoodRow(s), NEW known, NEW e \in Evidence,
           PatchDiag(s, known, e).live.revision <= MaxRevision
    PROVE  LET t == PatchDiag(s, known, e)
           IN  /\ GoodRow(t)
               /\ t.live.revision = s.live.revision + (IF e # s.admission THEN 1 ELSE 0)
               /\ t.live.scope = s.live.scope
               /\ LiveDisabled(t.live) = LiveDisabled(s.live)
               /\ t.admission = e
               /\ t.egress = s.egress /\ t.scalp = s.scalp
               /\ SameBoot(s, t)
               /\ Transaction(s, t)
               /\ \A b \in Boots : NothingFor(s, t, b)
  <1> DEFINE t == PatchDiag(s, known, e)
  <1> DEFINE r == s.live.revision + (IF e # s.admission THEN 1 ELSE 0)
  <1> DEFINE m == [s.live EXCEPT !.revision = r]
  <1>0. s \in RuntimeState /\ EgressBound(s)
    BY DEF GoodRow
  <1>1. s.live \in Live /\ s.live.revision \in Nat /\ s.egress \in Egress
    BY <1>0, RulesAssumption DEF RuntimeState, Live, Revision
  <1>2. t = [s EXCEPT !.admission = e, !.live = m]
    BY PreservedIsCurrent DEF PatchDiag
  <1>3. /\ t.live = m /\ t.egress = s.egress /\ t.scalp = s.scalp
        /\ t.admission = e
        /\ SameBoot(s, t)
    BY <1>0, <1>2 DEF RuntimeState, SameBoot
  <1>4. m.revision = r
    BY <1>1 DEF Live
  <1>5. r \in Nat /\ r >= s.live.revision /\ (r = s.live.revision => e = s.admission)
    BY <1>1
  <1>6. r \in Revision
    BY <1>3, <1>4, <1>5, RulesAssumption DEF Revision
  <1> HIDE DEF r
  <1>7. /\ m \in Live /\ m.scope = s.live.scope
        /\ m.runtime = s.live.runtime /\ m.killed = s.live.killed
    BY <1>1, <1>6, LiveAtRevision
  <1>8. t \in RuntimeState
    BY <1>0, <1>2, <1>7 DEF RuntimeState
  <1>9. r = s.live.revision => m = s.live
    BY <1>1 DEF Live
  <1> HIDE DEF m
  <1>10. EgressBound(t)
    BY <1>0, <1>1, <1>3, <1>4, <1>5 DEF EgressBound, Egress, Revision
  <1>11. Transaction(s, t)
    BY <1>1, <1>3, <1>4, <1>5, <1>9 DEF Transaction
  <1>a. s.scalp \in Scalp /\ s.scalp.revision \in Nat
    BY <1>0 DEF RuntimeState, Scalp, Revision
  <1>12. t.scalp.revision <= t.live.revision /\ \A b \in Boots : NothingFor(s, t, b)
    BY <1>1, <1>3, <1>4, <1>5, <1>a DEF GoodRow, NothingFor, ScalpOf, EntryClosed
  <1>13. QED
    BY <1>3, <1>4, <1>7, <1>8, <1>10, <1>11, <1>12 DEF LiveDisabled, GoodRow, r

\* What revoking the scalp authority leaves of the row.
LEMMA RevokeScalpShape ==
    ASSUME NEW s, GoodRow(s)
    PROVE  LET t == RevokeScalp(s)
           IN  /\ GoodRow(t)
               /\ t.live = s.live /\ t.egress = s.egress /\ t.admission = s.admission
               /\ t.scalp = Revoked(s.scalp)
               /\ SameBoot(s, t)
               /\ Transaction(s, t)
               /\ \A b \in Boots : NothingFor(s, t, b) /\ ~ScalpOf(t, b)
  <1> DEFINE t == RevokeScalp(s)
  <1>0. s \in RuntimeState /\ EgressBound(s) /\ s.scalp \in Scalp
    BY DEF GoodRow, RuntimeState
  <1>1. /\ t.live = s.live /\ t.egress = s.egress /\ t.admission = s.admission
        /\ t.scalp = Revoked(s.scalp)
        /\ SameBoot(s, t)
    BY <1>0 DEF RevokeScalp, RuntimeState, SameBoot
  <1>2. t \in RuntimeState
    BY <1>0, RevokedShape DEF RevokeScalp, RuntimeState
  <1>3. s.live.revision \in Nat
    BY <1>0 DEF RuntimeState, Live, Revision
  <1>4. GoodRow(t)
    BY <1>0, <1>1, <1>2, RevokedShape DEF GoodRow, EgressBound
  <1>5. Transaction(s, t)
    BY <1>1, <1>3 DEF Transaction
  <1>6. \A b \in Boots : NothingFor(s, t, b) /\ ~ScalpOf(t, b)
    BY <1>0, <1>1, RevokedShape DEF NothingFor, ScalpOf, EntryClosed
  <1>7. QED
    BY <1>1, <1>4, <1>5, <1>6

\* What enabling egress leaves of the row.
LEMMA EnableEgressShape ==
    ASSUME NEW s, GoodRow(s), NEW b \in Boots, CanEnableEgress(s, b)
    PROVE  LET t == EnableEgress(s, b)
           IN  /\ GoodRow(t)
               /\ t.live = s.live /\ t.scalp = s.scalp /\ t.admission = s.admission
               /\ SameBoot(s, t)
               /\ Transaction(s, t)
               /\ \A c \in Boots \ {b} : NothingFor(s, t, c)
               /\ ~ScalpOf(s, b) => ~ScalpOf(t, b)
  <1> DEFINE t == EnableEgress(s, b)
  <1> DEFINE e == [on |-> TRUE, boot |-> b, revision |-> s.live.revision,
                   scope |-> s.live.scope]
  <1>0. s \in RuntimeState /\ EgressBound(s) /\ s.live \in Live
    BY DEF GoodRow, RuntimeState
  <1>1. /\ s.live.revision \in Revision /\ s.live.revision \in Nat
        /\ s.live.scope \in Scope /\ s.live.revision > 0
    BY <1>0 DEF Live, Revision, CanEnableEgress
  <1>2. e \in Egress /\ e.on /\ e.boot = b /\ e.revision = s.live.revision
          /\ e.scope = s.live.scope
    BY <1>1 DEF Egress, BootId
  <1> HIDE DEF e
  <1>3. t = [s EXCEPT !.egress = e]
    BY DEF EnableEgress, e
  <1>4. /\ t.live = s.live /\ t.scalp = s.scalp /\ t.admission = s.admission
        /\ t.egress = e
        /\ SameBoot(s, t)
    BY <1>0, <1>3 DEF RuntimeState, SameBoot
  <1>5. t \in RuntimeState
    BY <1>0, <1>2, <1>3 DEF RuntimeState
  <1>6. GoodRow(t)
    BY <1>1, <1>2, <1>4, <1>5 DEF GoodRow, EgressBound
  <1>7. Transaction(s, t)
    BY <1>1, <1>2, <1>4 DEF Transaction
  <1>8. /\ \A c \in Boots \ {b} : NothingFor(s, t, c)
        /\ ~ScalpOf(s, b) => ~ScalpOf(t, b)
    BY <1>2, <1>4 DEF NothingFor, ScalpOf, EntryClosed
  <1>9. QED
    BY <1>4, <1>6, <1>7, <1>8

\* What activating the scalp authority leaves of the row.
LEMMA ActivateScalpShape ==
    ASSUME NEW s, GoodRow(s), NEW b \in Boots, NEW r, NEW g \in Evidence,
           CanActivateScalp(s, b, r, g)
    PROVE  LET t == ActivateScalp(s, b, r, g)
           IN  /\ GoodRow(t)
               /\ t.live = s.live /\ t.egress = s.egress /\ t.admission = s.admission
               /\ SameBoot(s, t)
               /\ Transaction(s, t)
               /\ \A c \in Boots \ {b} : NothingFor(s, t, c)
  <1> DEFINE t == ActivateScalp(s, b, r, g)
  <1> DEFINE a == [status |-> "active", boot |-> b, revision |-> r, generation |-> g]
  <1>0. s \in RuntimeState /\ EgressBound(s) /\ s.live \in Live /\ s.egress \in Egress
    BY DEF GoodRow, RuntimeState
  <1>1. s.egress.on /\ r = s.egress.revision
    BY DEF CanActivateScalp
  <1>2. s.live.revision \in Nat /\ r \in Revision /\ r <= s.live.revision
    BY <1>0, <1>1 DEF EgressBound, Live, Egress, Revision
  <1>3. a \in Scalp /\ a.boot = b /\ a.revision = r
    BY <1>2 DEF Scalp, BootId
  <1> HIDE DEF a
  <1>4. t = [s EXCEPT !.scalp = a]
    BY DEF ActivateScalp, a
  <1>5. /\ t.live = s.live /\ t.egress = s.egress /\ t.admission = s.admission
        /\ t.scalp = a
        /\ SameBoot(s, t)
    BY <1>0, <1>4 DEF RuntimeState, SameBoot
  <1>6. t \in RuntimeState
    BY <1>0, <1>3, <1>4 DEF RuntimeState
  <1>7. GoodRow(t)
    BY <1>0, <1>2, <1>3, <1>5, <1>6 DEF GoodRow, EgressBound
  <1>8. Transaction(s, t)
    BY <1>2, <1>5 DEF Transaction
  <1>9. \A c \in Boots \ {b} : NothingFor(s, t, c)
    BY <1>3, <1>5 DEF NothingFor, ScalpOf, EntryClosed
  <1>10. QED
    BY <1>5, <1>7, <1>8, <1>9

\* The stamps of boot, lease and broker touch nothing else.
LEMMA StampShape ==
    ASSUME NEW s, GoodRow(s), NEW t, t \in RuntimeState,
           t.live = s.live, t.egress = s.egress, t.scalp = s.scalp,
           t.admission = s.admission
    PROVE  /\ GoodRow(t)
           /\ Transaction(s, t)
           /\ \A b \in Boots : NothingFor(s, t, b)
  <1>1. s.live.revision \in Nat
    BY DEF GoodRow, RuntimeState, Live, Revision
  <1>2. QED
    BY <1>1 DEF GoodRow, EgressBound, Transaction, NothingFor, ScalpOf, EntryClosed

-----------------------------------------------------------------------------
(* The inductive invariant                                                 *)

\* Where a process is tells what it holds.  The scalp authority of a boot is
\* written by its own activation alone, so a process that has not activated,
\* or has just revoked, finds none of its own; and a latched process that
\* waits for its next cycle has its entries closed.
ProcessInvariant(s, b, p) ==
    /\ p.pc \in ArmSteps => ~p.latch /\ p.admitted # NoEvidence
    /\ p.pc \in ProtectiveSteps => p.admitted = NoEvidence
    /\ p.pc \in LoopSteps => p.phase = "loop"
    /\ p.pc \in StartupSteps \cup Down => p.phase = "startup"
    /\ p.phase = "startup" => ~p.latch
    /\ /\ p.phase = "startup"
       /\ p.pc \notin {"ready_read", "ready", "dead"} \cup FailureSteps
       => s.scalp.boot # b
    /\ p.pc \in {"ready_read", "ready"} /\ p.admitted = NoEvidence => s.scalp.boot # b
    /\ p.pc \in (ProtectiveSteps \ {"prot_disable"}) \cup {"fail_record"} => ~ScalpOf(s, b)
    /\ p.latch /\ p.pc = "idle" => EntryClosed(s, b)
    /\ p.latch /\ p.pc = "commit" => EntryClosed(s, b) \/ p.admitted = NoEvidence

\* A superseded boot is past its startup for good.  It can put its name on the
\* row again only by recording its failure, and then no cycle of its own
\* follows that would attest it.
SupersededInvariant ==
    /\ \A c \in superseded : PastStartup(c)
    /\ rt.startup \in superseded =>
          /\ proc[rt.startup].pc = "dead"
          /\ rt.status = "failed" \/ rt.attested # rt.startup

\* Everything but the history.
RowInvariant ==
    /\ GoodRow(rt)
    /\ proc \in [Boots -> Process]
    /\ operator \in Operator
    /\ evidence \in Evidence
    /\ disturbances \in 0 .. MaxDisturbances
    /\ \A b \in Boots : ProcessInvariant(rt, b, proc[b])

AuthorityInvariant == RowInvariant /\ superseded \subseteq Boots /\ SupersededInvariant
-----------------------------------------------------------------------------
(* Processes                                                               *)

\* A process at another program counter.
LEMMA AtShape ==
    ASSUME NEW p \in Process, NEW step \in Step
    PROVE  /\ At(p, step) \in Process
           /\ At(p, step).pc = step
           /\ At(p, step).phase = p.phase
           /\ At(p, step).latch = p.latch
           /\ At(p, step).admitted = p.admitted
  BY DEF At, Process

\* What a process remembers of a row.
LEMMA SnapShape ==
    ASSUME NEW s, s \in RuntimeState
    PROVE  SnapOf(s) \in Snap
  BY DEF SnapOf, Snap, RuntimeState

\* A process at the start of its loop, and a dead one.
LEMMA FreshShape ==
    ASSUME NEW latch \in BOOLEAN
    PROVE  /\ LET q == [NewProcess EXCEPT !.pc = "idle", !.phase = "loop",
                                           !.latch = latch]
              IN  /\ q \in Process
                  /\ q.pc = "idle" /\ q.phase = "loop" /\ q.latch = latch
           /\ LET q == [NewProcess EXCEPT !.pc = "dead"]
              IN  /\ q \in Process
                  /\ q.pc = "dead" /\ q.phase = "startup" /\ q.latch = FALSE
  <1>1. NewProcess \in Process
    BY RulesAssumption DEF NewProcess, Process, NoSnap, Snap, NoLive, EmptyState,
       Live, Scope, Revision, Evidence, Step, Down
  <1>2. "idle" \in Step /\ "dead" \in Step
    BY DEF Step, Down, LoopSteps
  <1>3. QED
    BY <1>1, <1>2 DEF Process, NewProcess

\* What other processes write leaves a process consistent with the row.
LEMMA InvariantStable ==
    ASSUME NEW s, NEW t, NEW b \in Boots, NEW p,
           ProcessInvariant(s, b, p), NothingFor(s, t, b)
    PROVE  ProcessInvariant(t, b, p)
  BY DEF ProcessInvariant, NothingFor

\* Process b makes a step, and leaves the row and itself as the invariant wants.
Moved(b) ==
    /\ GoodRow(rt')
    /\ Transaction(rt, rt')
    /\ \A c \in Boots \ {b} : NothingFor(rt, rt', c)
    /\ proc'[b] \in Process
    /\ proc' = [proc EXCEPT ![b] = proc'[b]]
    /\ ProcessInvariant(rt', b, proc'[b])
    /\ proc[b].phase = "loop" => proc'[b].phase = "loop" \/ proc'[b].pc = "dead"
    /\ UNCHANGED <<operator, evidence>>
    /\ disturbances' \in 0 .. MaxDisturbances

\* A process that moved as it may keeps the invariant.
LEMMA MovedIsInvariant ==
    ASSUME RowInvariant, NEW b \in Boots, Moved(b)
    PROVE  RowInvariant'
  <1>1. proc' \in [Boots -> Process]
    BY DEF RowInvariant, Moved
  <1>2. ASSUME NEW c \in Boots
        PROVE  ProcessInvariant(rt', c, proc'[c])
    <2>1. CASE c = b
      BY <2>1 DEF Moved
    <2>2. CASE c # b
      <3>1. proc'[c] = proc[c]
        BY <2>2 DEF RowInvariant, Moved
      <3>2. ProcessInvariant(rt, c, proc[c]) /\ NothingFor(rt, rt', c)
        BY <2>2 DEF RowInvariant, Moved
      <3>3. QED
        BY <3>1, <3>2, InvariantStable
    <2>3. QED
      BY <2>1, <2>2
  <1>3. QED
    BY <1>1, <1>2 DEF RowInvariant, Moved

\* The common case: Move with a row and a process that fit.
LEMMA MoveFits ==
    ASSUME RowInvariant, NEW b \in Boots, NEW from, NEW s, NEW p,
           Move(b, from, s, p),
           GoodRow(s), Transaction(rt, s),
           \A c \in Boots \ {b} : NothingFor(rt, s, c),
           p \in Process, ProcessInvariant(s, b, p),
           proc[b].phase = "loop" => p.phase = "loop" \/ p.pc = "dead"
    PROVE  Moved(b)
  <1>1. rt' = s /\ proc' = [proc EXCEPT ![b] = p]
    BY DEF Move
  <1>2. proc'[b] = p
    BY <1>1 DEF RowInvariant
  <1>3. UNCHANGED <<operator, evidence, disturbances>>
    BY DEF Move
  <1>4. QED
    BY <1>1, <1>2, <1>3 DEF Moved, RowInvariant

\* A step that writes nothing.
LEMMA StillFits ==
    ASSUME RowInvariant
    PROVE  GoodRow(rt) /\ Transaction(rt, rt) /\ \A c \in Boots : NothingFor(rt, rt, c)
  BY StampShape DEF RowInvariant, GoodRow

\* The facts about the moving process that every case uses.
LEMMA Mover ==
    ASSUME RowInvariant, NEW b \in Boots
    PROVE  /\ rt \in RuntimeState /\ GoodRow(rt)
           /\ proc[b] \in Process
           /\ proc[b].phase \in {"startup", "loop"}
           /\ proc[b].latch \in BOOLEAN
           /\ proc[b].admitted \in Evidence
           /\ proc[b].snap \in Snap
           /\ ProcessInvariant(rt, b, proc[b])
           /\ evidence \in Evidence
  BY DEF RowInvariant, GoodRow, Process

\* The calls of startup are such moves,
LEMMA StartupMoves ==
    ASSUME RowInvariant, NEW b \in Boots,
           \/ Spawn(b) \/ BootDisable(b) \/ BootRecord(b) \/ Verify(b)
           \/ Activate(b) \/ ReadyRead(b) \/ Ready(b)
    PROVE  Moved(b)
  <1> DEFINE p == proc[b]
  <1>0. /\ rt \in RuntimeState /\ GoodRow(rt)
        /\ p \in Process /\ p.phase \in {"startup", "loop"}
        /\ p.latch \in BOOLEAN /\ p.admitted \in Evidence /\ p.snap \in Snap
        /\ ProcessInvariant(rt, b, p) /\ evidence \in Evidence
    BY Mover
  <1>s. \A step \in StartupSteps \cup {"prot_disable", "arm_read"} : step \in Step
    BY DEF Step, StartupSteps, ArmSteps, ProtectiveSteps
  <1>r. GoodRow(rt) /\ Transaction(rt, rt) /\ \A c \in Boots : NothingFor(rt, rt, c)
    BY StillFits
  <1> HIDE DEF p
  <1>1. CASE Spawn(b)
    <2> DEFINE q == At(p, "boot_disable")
    <2>1. Move(b, "off", rt, q) /\ p.pc = "off"
      BY <1>1 DEF Spawn, Move, p
    <2>2. /\ q \in Process /\ q.pc = "boot_disable" /\ q.phase = p.phase
          /\ q.latch = p.latch /\ q.admitted = p.admitted
      BY <1>0, <1>s, AtShape DEF StartupSteps
    <2> HIDE DEF q
    <2>3. ProcessInvariant(rt, b, q)
      BY <1>0, <2>1, <2>2 DEF ProcessInvariant, ArmSteps, ProtectiveSteps, StartupSteps,
         LoopSteps, FailureSteps, Down
    <2>4. QED
      BY <1>r, <2>1, <2>2, <2>3, MoveFits DEF p
  <1>2. CASE BootDisable(b)
    <2> DEFINE q == At(p, "boot_record")
    <2> DEFINE s == DisableEgress(rt)
    <2>1. Move(b, "boot_disable", s, q) /\ p.pc = "boot_disable" /\ s.live.revision <= MaxRevision
      BY <1>2 DEF BootDisable, Move, p
    <2>2. /\ q \in Process /\ q.pc = "boot_record" /\ q.phase = p.phase
          /\ q.latch = p.latch /\ q.admitted = p.admitted
      BY <1>0, <1>s, AtShape DEF StartupSteps
    <2>3. GoodRow(s) /\ Transaction(rt, s) /\ \A c \in Boots : NothingFor(rt, s, c)
      BY <1>0, <2>1, DisableEgressShape
    <2> HIDE DEF q, s
    <2>4. ProcessInvariant(s, b, q)
      BY <1>0, <2>1, <2>2, <2>3 DEF ProcessInvariant, NothingFor, ArmSteps,
         ProtectiveSteps, StartupSteps, LoopSteps, FailureSteps, Down
    <2>5. QED
      BY <2>1, <2>2, <2>3, <2>4, MoveFits DEF p
  <1>3. CASE BootRecord(b)
    <2> DEFINE q == At(p, "verify")
    <2> DEFINE s == [rt EXCEPT !.startup = b, !.status = "starting", !.lease = FALSE]
    <2>1. Move(b, "boot_record", s, q) /\ p.pc = "boot_record"
      BY <1>3 DEF BootRecord, Move, p
    <2>2. /\ q \in Process /\ q.pc = "verify" /\ q.phase = p.phase
          /\ q.latch = p.latch /\ q.admitted = p.admitted
      BY <1>0, <1>s, AtShape DEF StartupSteps
    <2>3. /\ s \in RuntimeState /\ s.live = rt.live /\ s.egress = rt.egress
          /\ s.scalp = rt.scalp /\ s.admission = rt.admission
      BY <1>0 DEF RuntimeState, BootId
    <2> HIDE DEF q, s
    <2>4. GoodRow(s) /\ Transaction(rt, s) /\ \A c \in Boots : NothingFor(rt, s, c)
      BY <1>0, <2>3, StampShape
    <2>5. ProcessInvariant(s, b, q)
      BY <1>0, <2>1, <2>2, <2>4 DEF ProcessInvariant, NothingFor, ArmSteps,
         ProtectiveSteps, StartupSteps, LoopSteps, FailureSteps, Down
    <2>6. QED
      BY <2>1, <2>2, <2>4, <2>5, MoveFits DEF p
  <1>4. CASE Verify(b)
    <2> DEFINE q == [p EXCEPT !.pc = "activate", !.admitted = evidence,
                              !.snap = SnapOf(rt)]
    <2>1. Move(b, "verify", rt, q) /\ p.pc = "verify"
      BY <1>4 DEF Verify, Move, p
    <2>2. q \in Process /\ q.pc = "activate" /\ q.phase = p.phase /\ q.latch = p.latch
      BY <1>0, <1>s, SnapShape DEF StartupSteps, Process
    <2> HIDE DEF q
    <2>3. ProcessInvariant(rt, b, q)
      BY <1>0, <2>1, <2>2 DEF ProcessInvariant, ArmSteps, ProtectiveSteps, StartupSteps,
         LoopSteps, FailureSteps, Down
    <2>4. QED
      BY <1>r, <2>1, <2>2, <2>3, MoveFits DEF p
  <1>5. CASE Activate(b)
    <2> DEFINE step == IF p.admitted = NoEvidence THEN "prot_disable" ELSE "arm_read"
    <2> DEFINE q == At(p, step)
    <2> DEFINE d == PatchDiag(rt, p.snap.live, p.admitted)
    <2> DEFINE s == [d EXCEPT !.startup = b, !.attested = b,
                              !.status = "running", !.lease = FALSE]
    <2>1. Move(b, "activate", s, q) /\ p.pc = "activate" /\ s.live.revision <= MaxRevision
      BY <1>5 DEF Activate, Move, p
    <2>2. /\ q \in Process /\ q.pc = step /\ q.phase = p.phase
          /\ q.latch = p.latch /\ q.admitted = p.admitted
      BY <1>0, <1>s, AtShape
    <2>a. s.live = d.live
      BY <1>0 DEF PatchDiag, RuntimeState
    <2>b. GoodRow(d) /\ Transaction(rt, d) /\ \A c \in Boots : NothingFor(rt, d, c)
      BY <1>0, <2>1, <2>a, PatchDiagShape
    <2> HIDE DEF q, d
    <2>c. /\ s \in RuntimeState /\ s.live = d.live /\ s.egress = d.egress
          /\ s.scalp = d.scalp /\ s.admission = d.admission
      BY <2>b DEF GoodRow, RuntimeState, BootId
    <2> HIDE DEF s
    <2>3. GoodRow(s) /\ Transaction(rt, s) /\ \A c \in Boots : NothingFor(rt, s, c)
      BY <2>b, <2>c, StampShape DEF Transaction, NothingFor, ScalpOf, EntryClosed
    <2>4. ProcessInvariant(s, b, q)
      BY <1>0, <2>1, <2>2, <2>3 DEF ProcessInvariant, NothingFor, ArmSteps,
         ProtectiveSteps, StartupSteps, LoopSteps, FailureSteps, Down
    <2>5. QED
      BY <2>1, <2>2, <2>3, <2>4, MoveFits DEF p
  <1>6. CASE ReadyRead(b)
    <2> DEFINE q == [p EXCEPT !.pc = "ready", !.snap = SnapOf(rt)]
    <2>1. Move(b, "ready_read", rt, q) /\ p.pc = "ready_read"
      BY <1>6 DEF ReadyRead, Move, p
    <2>2. /\ q \in Process /\ q.pc = "ready" /\ q.phase = p.phase
          /\ q.latch = p.latch /\ q.admitted = p.admitted
      BY <1>0, <1>s, SnapShape DEF StartupSteps, Process
    <2> HIDE DEF q
    <2>3. ProcessInvariant(rt, b, q)
      BY <1>0, <2>1, <2>2 DEF ProcessInvariant, ArmSteps, ProtectiveSteps, StartupSteps,
         LoopSteps, FailureSteps, Down
    <2>4. QED
      BY <1>r, <2>1, <2>2, <2>3, MoveFits DEF p
  <1>7. CASE Ready(b)
    <2> DEFINE q == [NewProcess EXCEPT !.pc = "idle", !.phase = "loop",
                                       !.latch = (p.admitted = NoEvidence)]
    <2> DEFINE d == PatchDiag(rt, p.snap.live, p.snap.admission)
    <2> DEFINE s == [d EXCEPT !.startup = b, !.attested = b,
                              !.status = "running", !.lease = TRUE]
    <2>1. Move(b, "ready", s, q) /\ p.pc = "ready" /\ s.live.revision <= MaxRevision
      BY <1>7 DEF Ready, Move, p
    <2>2. /\ q \in Process /\ q.pc = "idle" /\ q.phase = "loop"
          /\ q.latch = (p.admitted = NoEvidence)
      BY FreshShape
    <2>a. s.live = d.live /\ p.snap.admission \in Evidence
      BY <1>0 DEF PatchDiag, RuntimeState, Snap
    <2>b. GoodRow(d) /\ Transaction(rt, d) /\ \A c \in Boots : NothingFor(rt, d, c)
      BY <1>0, <2>1, <2>a, PatchDiagShape
    <2> HIDE DEF q, d
    <2>c. /\ s \in RuntimeState /\ s.live = d.live /\ s.egress = d.egress
          /\ s.scalp = d.scalp /\ s.admission = d.admission
      BY <2>b DEF GoodRow, RuntimeState, BootId
    <2> HIDE DEF s
    <2>3. GoodRow(s) /\ Transaction(rt, s) /\ \A c \in Boots : NothingFor(rt, s, c)
      BY <2>b, <2>c, StampShape DEF Transaction, NothingFor, ScalpOf, EntryClosed
    <2>d. q.latch => EntryClosed(s, b)
      BY <1>0, <2>1, <2>2, <2>3 DEF ProcessInvariant, NothingFor, EntryClosed, ScalpOf
    <2>4. ProcessInvariant(s, b, q)
      BY <2>2, <2>d DEF ProcessInvariant, ArmSteps,
         ProtectiveSteps, StartupSteps, LoopSteps, FailureSteps, Down
    <2>5. QED
      BY <2>1, <2>2, <2>3, <2>4, MoveFits DEF p
  <1>8. QED
    BY <1>1, <1>2, <1>3, <1>4, <1>5, <1>6, <1>7

\* and the calls that arm,
LEMMA ArmMoves ==
    ASSUME RowInvariant, NEW b \in Boots,
           \/ ArmRead(b) \/ ArmReplace(b) \/ ArmReread(b) \/ ArmAdmit(b)
           \/ ArmPlaneRead(b) \/ ArmFailed(b)
    PROVE  Moved(b)
  <1> DEFINE p == proc[b]
  <1>0. /\ rt \in RuntimeState /\ GoodRow(rt)
        /\ p \in Process /\ p.phase \in {"startup", "loop"}
        /\ p.latch \in BOOLEAN /\ p.admitted \in Evidence /\ p.snap \in Snap
        /\ ProcessInvariant(rt, b, p) /\ evidence \in Evidence
    BY Mover
  <1>s. \A step \in ArmSteps \cup {"ready_read", "commit", "fail_disable"} : step \in Step
    BY DEF Step, StartupSteps, ArmSteps, ProtectiveSteps, LoopSteps, FailureSteps
  <1>r. GoodRow(rt) /\ Transaction(rt, rt) /\ \A c \in Boots : NothingFor(rt, rt, c)
    BY StillFits
  <1>t. /\ Succeeded(p) = At(p, IF p.phase = "startup" THEN "ready_read" ELSE "commit")
        /\ Refused(p) = At(p, IF p.phase = "startup" THEN "fail_disable" ELSE "commit")
    BY DEF Succeeded, Refused
  <1> HIDE DEF p
  <1>1. CASE ArmRead(b) /\ AlreadyActive(b)
    <2> DEFINE step == IF p.phase = "startup" THEN "ready_read" ELSE "commit"
    <2> DEFINE q == At(p, step)
    <2>1. Move(b, "arm_read", rt, q) /\ p.pc = "arm_read"
      BY <1>1, <1>t DEF ArmRead, Move, p
    <2>2. /\ q \in Process /\ q.pc = step /\ q.phase = p.phase
          /\ q.latch = p.latch /\ q.admitted = p.admitted
      BY <1>0, <1>s, AtShape
    <2> HIDE DEF q
    <2>4. ProcessInvariant(rt, b, q)
      BY <1>0, <2>1, <2>2 DEF ProcessInvariant, ArmSteps,
         ProtectiveSteps, StartupSteps, LoopSteps, FailureSteps, Down
    <2>5. QED
      BY <1>r, <2>1, <2>2, <2>4, MoveFits DEF p
  <1>2. CASE ArmRead(b) /\ ~AlreadyActive(b)
    <2> DEFINE step == IF rt.scalp.status = "active" /\ rt.scalp.generation # p.admitted
                         THEN "arm_replace" ELSE "arm_admit"
    <2> DEFINE q == [p EXCEPT !.snap = SnapOf(rt), !.pc = step]
    <2>1. Move(b, "arm_read", rt, q) /\ p.pc = "arm_read"
      BY <1>2 DEF ArmRead, Move, p
    <2>a. step \in {"arm_replace", "arm_admit"} /\ step \in Step
      BY <1>s DEF ArmSteps
    <2> HIDE DEF step
    <2>2. /\ q \in Process /\ q.pc = step /\ q.phase = p.phase
          /\ q.latch = p.latch /\ q.admitted = p.admitted
      BY <1>0, <2>a, SnapShape DEF Process
    <2> HIDE DEF q
    <2>4. ProcessInvariant(rt, b, q)
      BY <1>0, <2>1, <2>2, <2>a DEF ProcessInvariant, ArmSteps,
         ProtectiveSteps, StartupSteps, LoopSteps, FailureSteps, Down
    <2>5. QED
      BY <1>r, <2>1, <2>2, <2>4, MoveFits DEF p
  <1>3. CASE ArmReplace(b)
    <2> DEFINE q == At(p, "arm_reread")
    <2> DEFINE s == RevokeScalp(rt)
    <2>1. Move(b, "arm_replace", s, q) /\ p.pc = "arm_replace" /\ s.live.revision <= MaxRevision
      BY <1>3 DEF ArmReplace, Move, p
    <2>2. /\ q \in Process /\ q.pc = "arm_reread" /\ q.phase = p.phase
          /\ q.latch = p.latch /\ q.admitted = p.admitted
      BY <1>0, <1>s, AtShape DEF ArmSteps
    <2>3. GoodRow(s) /\ Transaction(rt, s) /\ \A c \in Boots : NothingFor(rt, s, c)
      BY <1>0, <2>1, RevokeScalpShape
    <2> HIDE DEF q, s
    <2>4. ProcessInvariant(s, b, q)
      BY <1>0, <2>1, <2>2, <2>3 DEF ProcessInvariant, NothingFor, ArmSteps,
         ProtectiveSteps, StartupSteps, LoopSteps, FailureSteps, Down
    <2>5. QED
      BY <2>3, <2>1, <2>2, <2>4, MoveFits DEF p
  <1>4. CASE ArmReread(b)
    <2> DEFINE q == [p EXCEPT !.pc = "arm_admit", !.snap = SnapOf(rt)]
    <2>1. Move(b, "arm_reread", rt, q) /\ p.pc = "arm_reread"
      BY <1>4 DEF ArmReread, Move, p
    <2>2. /\ q \in Process /\ q.pc = "arm_admit" /\ q.phase = p.phase
          /\ q.latch = p.latch /\ q.admitted = p.admitted
      BY <1>0, <1>s, SnapShape DEF ArmSteps, Process
    <2> HIDE DEF q
    <2>4. ProcessInvariant(rt, b, q)
      BY <1>0, <2>1, <2>2 DEF ProcessInvariant, NothingFor, ArmSteps,
         ProtectiveSteps, StartupSteps, LoopSteps, FailureSteps, Down
    <2>5. QED
      BY <1>r, <2>1, <2>2, <2>4, MoveFits DEF p
  <1>5. CASE ArmAdmit(b)
    <2> DEFINE q == At(p, "arm_plane_read")
    <2> DEFINE s == PatchDiag(rt, p.snap.live, p.admitted)
    <2>1. Move(b, "arm_admit", s, q) /\ p.pc = "arm_admit" /\ s.live.revision <= MaxRevision
      BY <1>5 DEF ArmAdmit, Move, p
    <2>2. /\ q \in Process /\ q.pc = "arm_plane_read" /\ q.phase = p.phase
          /\ q.latch = p.latch /\ q.admitted = p.admitted
      BY <1>0, <1>s, AtShape DEF ArmSteps
    <2>3. GoodRow(s) /\ Transaction(rt, s) /\ \A c \in Boots : NothingFor(rt, s, c)
      BY <1>0, <2>1, PatchDiagShape
    <2> HIDE DEF q, s
    <2>4. ProcessInvariant(s, b, q)
      BY <1>0, <2>1, <2>2, <2>3 DEF ProcessInvariant, NothingFor, ArmSteps,
         ProtectiveSteps, StartupSteps, LoopSteps, FailureSteps, Down
    <2>5. QED
      BY <2>3, <2>1, <2>2, <2>4, MoveFits DEF p
  <1>6. CASE ArmPlaneRead(b)
    <2> DEFINE q == [p EXCEPT !.pc = "arm_plane", !.snap = SnapOf(rt)]
    <2>1. Move(b, "arm_plane_read", rt, q) /\ p.pc = "arm_plane_read"
      BY <1>6 DEF ArmPlaneRead, Move, p
    <2>2. /\ q \in Process /\ q.pc = "arm_plane" /\ q.phase = p.phase
          /\ q.latch = p.latch /\ q.admitted = p.admitted
      BY <1>0, <1>s, SnapShape DEF ArmSteps, Process
    <2> HIDE DEF q
    <2>4. ProcessInvariant(rt, b, q)
      BY <1>0, <2>1, <2>2 DEF ProcessInvariant, NothingFor, ArmSteps,
         ProtectiveSteps, StartupSteps, LoopSteps, FailureSteps, Down
    <2>5. QED
      BY <1>r, <2>1, <2>2, <2>4, MoveFits DEF p
  <1>7. CASE ArmFailed(b)
    <2> DEFINE step == IF p.phase = "startup" THEN "fail_disable" ELSE "commit"
    <2> DEFINE q == At(p, step)
    <2> DEFINE s == RevokeScalp(rt)
    <2>1. Move(b, "arm_failed", s, q) /\ p.pc = "arm_failed"
      BY <1>7, <1>t DEF ArmFailed, Move, p
    <2>2. /\ q \in Process /\ q.pc = step /\ q.phase = p.phase
          /\ q.latch = p.latch /\ q.admitted = p.admitted
      BY <1>0, <1>s, AtShape
    <2>3. GoodRow(s) /\ Transaction(rt, s) /\ \A c \in Boots : NothingFor(rt, s, c)
      BY <1>0, RevokeScalpShape
    <2> HIDE DEF q, s
    <2>4. ProcessInvariant(s, b, q)
      BY <1>0, <2>1, <2>2, <2>3 DEF ProcessInvariant, NothingFor, ArmSteps,
         ProtectiveSteps, StartupSteps, LoopSteps, FailureSteps, Down
    <2>5. QED
      BY <2>1, <2>2, <2>3, <2>4, MoveFits DEF p
  <1>8. QED
    BY <1>1, <1>2, <1>3, <1>4, <1>5, <1>6, <1>7

\* the three that write included,
LEMMA ArmWrites ==
    ASSUME RowInvariant, NEW b \in Boots,
           ArmPlane(b) \/ ArmEgress(b) \/ ArmScalp(b)
    PROVE  Moved(b)
  <1> DEFINE p == proc[b]
  <1>0. /\ rt \in RuntimeState /\ GoodRow(rt)
        /\ p \in Process /\ p.phase \in {"startup", "loop"}
        /\ p.latch \in BOOLEAN /\ p.admitted \in Evidence /\ p.snap \in Snap
        /\ ProcessInvariant(rt, b, p) /\ evidence \in Evidence
    BY Mover
  <1>s. \A step \in ArmSteps \cup {"ready_read", "commit", "fail_disable"} : step \in Step
    BY DEF Step, StartupSteps, ArmSteps, ProtectiveSteps, LoopSteps, FailureSteps
  <1>r. GoodRow(rt) /\ Transaction(rt, rt) /\ \A c \in Boots : NothingFor(rt, rt, c)
    BY StillFits
  <1>t. /\ Succeeded(p) = At(p, IF p.phase = "startup" THEN "ready_read" ELSE "commit")
        /\ Refused(p) = At(p, IF p.phase = "startup" THEN "fail_disable" ELSE "commit")
    BY DEF Succeeded, Refused
  <1> HIDE DEF p
  <1>1. CASE ArmPlane(b) /\ CanPatchLive(rt, p.snap.live, TRUE)
    <2> DEFINE l == Armed(rt.live, "full")
    <2> DEFINE s == PatchLive(rt, l)
    <2> DEFINE q == [p EXCEPT !.pc = "arm_egress", !.revision = s.live.revision]
    <2>1. Move(b, "arm_plane", s, q) /\ p.pc = "arm_plane" /\ s.live.revision <= MaxRevision
      BY <1>1 DEF ArmPlane, Move, p
    <2>a. l \in Live
      BY <1>0, PlanesWritten DEF RuntimeState, Scope
    <2> HIDE DEF l
    <2>3. GoodRow(s) /\ Transaction(rt, s) /\ \A c \in Boots : NothingFor(rt, s, c)
      BY <1>0, <2>1, <2>a, PatchLiveShape
    <2>b. s.live.revision \in Revision
      BY <2>3 DEF GoodRow, RuntimeState, Live
    <2> HIDE DEF s
    <2>2. /\ q \in Process /\ q.pc = "arm_egress" /\ q.phase = p.phase
          /\ q.latch = p.latch /\ q.admitted = p.admitted
      BY <1>0, <1>s, <2>b DEF ArmSteps, Process
    <2> HIDE DEF q
    <2>4. ProcessInvariant(s, b, q)
      BY <1>0, <2>1, <2>2, <2>3 DEF ProcessInvariant, NothingFor, ArmSteps,
         ProtectiveSteps, StartupSteps, LoopSteps, FailureSteps, Down
    <2>5. QED
      BY <2>1, <2>2, <2>3, <2>4, MoveFits DEF p
  <1>2. CASE ArmPlane(b) /\ ~CanPatchLive(rt, p.snap.live, TRUE)
    <2> DEFINE q == At(p, "arm_failed")
    <2>1. Move(b, "arm_plane", rt, q) /\ p.pc = "arm_plane"
      BY <1>2 DEF ArmPlane, Move, p
    <2>2. /\ q \in Process /\ q.pc = "arm_failed" /\ q.phase = p.phase
          /\ q.latch = p.latch /\ q.admitted = p.admitted
      BY <1>0, <1>s, AtShape DEF ArmSteps
    <2> HIDE DEF q
    <2>4. ProcessInvariant(rt, b, q)
      BY <1>0, <2>1, <2>2 DEF ProcessInvariant, NothingFor, ArmSteps,
         ProtectiveSteps, StartupSteps, LoopSteps, FailureSteps, Down
    <2>5. QED
      BY <1>r, <2>1, <2>2, <2>4, MoveFits DEF p
  <1>3. CASE ArmEgress(b) /\ CanEnableEgress(rt, b)
    <2> DEFINE q == At(p, "arm_scalp")
    <2> DEFINE s == EnableEgress(rt, b)
    <2>1. Move(b, "arm_egress", s, q) /\ p.pc = "arm_egress" /\ s.live.revision <= MaxRevision
      BY <1>3 DEF ArmEgress, Move, p
    <2>2. /\ q \in Process /\ q.pc = "arm_scalp" /\ q.phase = p.phase
          /\ q.latch = p.latch /\ q.admitted = p.admitted
      BY <1>0, <1>s, AtShape DEF ArmSteps
    <2>3. /\ GoodRow(s) /\ Transaction(rt, s) /\ s.scalp = rt.scalp
          /\ \A c \in Boots \ {b} : NothingFor(rt, s, c)
      BY <1>0, <1>3, <2>1, EnableEgressShape
    <2> HIDE DEF q, s
    <2>4. ProcessInvariant(s, b, q)
      BY <1>0, <2>1, <2>2, <2>3 DEF ProcessInvariant, NothingFor, ArmSteps,
         ProtectiveSteps, StartupSteps, LoopSteps, FailureSteps, Down
    <2>5. QED
      BY <2>3, <2>1, <2>2, <2>4, MoveFits DEF p
  <1>4. CASE ArmEgress(b) /\ ~CanEnableEgress(rt, b)
    <2> DEFINE q == At(p, "arm_failed")
    <2>1. Move(b, "arm_egress", rt, q) /\ p.pc = "arm_egress"
      BY <1>4 DEF ArmEgress, Move, p
    <2>2. /\ q \in Process /\ q.pc = "arm_failed" /\ q.phase = p.phase
          /\ q.latch = p.latch /\ q.admitted = p.admitted
      BY <1>0, <1>s, AtShape DEF ArmSteps
    <2> HIDE DEF q
    <2>4. ProcessInvariant(rt, b, q)
      BY <1>0, <2>1, <2>2 DEF ProcessInvariant, NothingFor, ArmSteps,
         ProtectiveSteps, StartupSteps, LoopSteps, FailureSteps, Down
    <2>5. QED
      BY <1>r, <2>1, <2>2, <2>4, MoveFits DEF p
  <1>5. CASE ArmScalp(b) /\ CanActivateScalp(rt, b, p.revision, p.admitted)
    <2> DEFINE step == IF p.phase = "startup" THEN "ready_read" ELSE "commit"
    <2> DEFINE q == At(p, step)
    <2> DEFINE s == ActivateScalp(rt, b, p.revision, p.admitted)
    <2>1. Move(b, "arm_scalp", s, q) /\ p.pc = "arm_scalp" /\ s.live.revision <= MaxRevision
      BY <1>5, <1>t DEF ArmScalp, Move, p
    <2>2. /\ q \in Process /\ q.pc = step /\ q.phase = p.phase
          /\ q.latch = p.latch /\ q.admitted = p.admitted
      BY <1>0, <1>s, AtShape
    <2>3. /\ GoodRow(s) /\ Transaction(rt, s) /\ \A c \in Boots \ {b} : NothingFor(rt, s, c)
      BY <1>0, <1>5, <2>1, ActivateScalpShape
    <2> HIDE DEF q, s
    <2>4. ProcessInvariant(s, b, q)
      BY <1>0, <2>1, <2>2, <2>3 DEF ProcessInvariant, NothingFor, ArmSteps,
         ProtectiveSteps, StartupSteps, LoopSteps, FailureSteps, Down
    <2>5. QED
      BY <2>3, <2>1, <2>2, <2>4, MoveFits DEF p
  <1>6. CASE ArmScalp(b) /\ ~CanActivateScalp(rt, b, p.revision, p.admitted)
    <2> DEFINE q == At(p, "arm_failed")
    <2>1. Move(b, "arm_scalp", rt, q) /\ p.pc = "arm_scalp"
      BY <1>6 DEF ArmScalp, Move, p
    <2>2. /\ q \in Process /\ q.pc = "arm_failed" /\ q.phase = p.phase
          /\ q.latch = p.latch /\ q.admitted = p.admitted
      BY <1>0, <1>s, AtShape DEF ArmSteps
    <2> HIDE DEF q
    <2>4. ProcessInvariant(rt, b, q)
      BY <1>0, <2>1, <2>2 DEF ProcessInvariant, NothingFor, ArmSteps,
         ProtectiveSteps, StartupSteps, LoopSteps, FailureSteps, Down
    <2>5. QED
      BY <1>r, <2>1, <2>2, <2>4, MoveFits DEF p
  <1>7. QED
    BY <1>1, <1>2, <1>3, <1>4, <1>5, <1>6

\* and those of protective activation,
LEMMA ProtectiveMoves ==
    ASSUME RowInvariant, NEW b \in Boots,
           \/ ProtDisable(b) \/ ProtRead(b) \/ ProtAdmit(b) \/ ProtPlaneRead(b)
           \/ ProtPlane(b) \/ ProtEgress(b) \/ ProtFailed(b)
    PROVE  Moved(b)
  <1> DEFINE p == proc[b]
  <1>0. /\ rt \in RuntimeState /\ GoodRow(rt)
        /\ p \in Process /\ p.phase \in {"startup", "loop"}
        /\ p.latch \in BOOLEAN /\ p.admitted \in Evidence /\ p.snap \in Snap
        /\ ProcessInvariant(rt, b, p) /\ evidence \in Evidence
    BY Mover
  <1>s. \A step \in ProtectiveSteps \cup {"ready_read", "commit", "fail_disable"} : step \in Step
    BY DEF Step, StartupSteps, ArmSteps, ProtectiveSteps, LoopSteps, FailureSteps
  <1>r. GoodRow(rt) /\ Transaction(rt, rt) /\ \A c \in Boots : NothingFor(rt, rt, c)
    BY StillFits
  <1>v. rt.scalp \in Scalp
    BY <1>0 DEF RuntimeState
  <1>t. /\ Succeeded(p) = At(p, IF p.phase = "startup" THEN "ready_read" ELSE "commit")
        /\ Refused(p) = At(p, IF p.phase = "startup" THEN "fail_disable" ELSE "commit")
    BY DEF Succeeded, Refused
  <1> HIDE DEF p
  <1>1. CASE ProtDisable(b)
    <2> DEFINE q == At(p, "prot_read")
    <2> DEFINE s == DisableEgress(rt)
    <2>1. Move(b, "prot_disable", s, q) /\ p.pc = "prot_disable" /\ s.live.revision <= MaxRevision
      BY <1>1 DEF ProtDisable, Move, p
    <2>2. /\ q \in Process /\ q.pc = "prot_read" /\ q.phase = p.phase
          /\ q.latch = p.latch /\ q.admitted = p.admitted
      BY <1>0, <1>s, AtShape DEF ProtectiveSteps
    <2>3. /\ GoodRow(s) /\ Transaction(rt, s) /\ \A c \in Boots : NothingFor(rt, s, c)
          /\ ~ScalpOf(s, b)
      BY <1>0, <1>1, <2>1, <1>v, DisableEgressShape, RevokedShape DEF ScalpOf
    <2> HIDE DEF q, s
    <2>4. ProcessInvariant(s, b, q)
      BY <1>0, <2>1, <2>2, <2>3 DEF ProcessInvariant, NothingFor, ArmSteps,
         ProtectiveSteps, StartupSteps, LoopSteps, FailureSteps, Down
    <2>5. QED
      BY <2>3, <2>1, <2>2, <2>4, MoveFits DEF p
  <1>2. CASE ProtRead(b) /\ rt.scalp.status = "revoked" /\ rt.broker
    <2> DEFINE q == [p EXCEPT !.pc = "prot_admit", !.snap = SnapOf(rt)]
    <2>1. Move(b, "prot_read", rt, q) /\ p.pc = "prot_read"
      BY <1>2 DEF ProtRead, Move, p
    <2>2. /\ q \in Process /\ q.pc = "prot_admit" /\ q.phase = p.phase
          /\ q.latch = p.latch /\ q.admitted = p.admitted
      BY <1>0, <1>s, SnapShape DEF ProtectiveSteps, Process
    <2> HIDE DEF q
    <2>4. ProcessInvariant(rt, b, q)
      BY <1>0, <2>1, <2>2 DEF ProcessInvariant, NothingFor, ArmSteps,
         ProtectiveSteps, StartupSteps, LoopSteps, FailureSteps, Down
    <2>5. QED
      BY <1>r, <2>1, <2>2, <2>4, MoveFits DEF p
  <1>3. CASE ProtRead(b) /\ ~(rt.scalp.status = "revoked" /\ rt.broker)
    <2> DEFINE step == IF p.phase = "startup" THEN "fail_disable" ELSE "commit"
    <2> DEFINE q == At(p, step)
    <2>1. Move(b, "prot_read", rt, q) /\ p.pc = "prot_read"
      BY <1>3, <1>t DEF ProtRead, Move, p
    <2>2. /\ q \in Process /\ q.pc = step /\ q.phase = p.phase
          /\ q.latch = p.latch /\ q.admitted = p.admitted
      BY <1>0, <1>s, AtShape
    <2> HIDE DEF q
    <2>4. ProcessInvariant(rt, b, q)
      BY <1>0, <2>1, <2>2 DEF ProcessInvariant, NothingFor, ArmSteps,
         ProtectiveSteps, StartupSteps, LoopSteps, FailureSteps, Down
    <2>5. QED
      BY <1>r, <2>1, <2>2, <2>4, MoveFits DEF p
  <1>4. CASE ProtAdmit(b)
    <2> DEFINE q == At(p, "prot_plane_read")
    <2> DEFINE s == PatchDiag(rt, p.snap.live, p.admitted)
    <2>1. Move(b, "prot_admit", s, q) /\ p.pc = "prot_admit" /\ s.live.revision <= MaxRevision
      BY <1>4 DEF ProtAdmit, Move, p
    <2>2. /\ q \in Process /\ q.pc = "prot_plane_read" /\ q.phase = p.phase
          /\ q.latch = p.latch /\ q.admitted = p.admitted
      BY <1>0, <1>s, AtShape DEF ProtectiveSteps
    <2>3. /\ GoodRow(s) /\ Transaction(rt, s) /\ \A c \in Boots : NothingFor(rt, s, c)
      BY <1>0, <1>4, <2>1, PatchDiagShape
    <2> HIDE DEF q, s
    <2>4. ProcessInvariant(s, b, q)
      BY <1>0, <2>1, <2>2, <2>3 DEF ProcessInvariant, NothingFor, ArmSteps,
         ProtectiveSteps, StartupSteps, LoopSteps, FailureSteps, Down
    <2>5. QED
      BY <2>3, <2>1, <2>2, <2>4, MoveFits DEF p
  <1>5. CASE ProtPlaneRead(b)
    <2> DEFINE q == [p EXCEPT !.pc = "prot_plane", !.snap = SnapOf(rt)]
    <2>1. Move(b, "prot_plane_read", rt, q) /\ p.pc = "prot_plane_read"
      BY <1>5 DEF ProtPlaneRead, Move, p
    <2>2. /\ q \in Process /\ q.pc = "prot_plane" /\ q.phase = p.phase
          /\ q.latch = p.latch /\ q.admitted = p.admitted
      BY <1>0, <1>s, SnapShape DEF ProtectiveSteps, Process
    <2> HIDE DEF q
    <2>4. ProcessInvariant(rt, b, q)
      BY <1>0, <2>1, <2>2 DEF ProcessInvariant, NothingFor, ArmSteps,
         ProtectiveSteps, StartupSteps, LoopSteps, FailureSteps, Down
    <2>5. QED
      BY <1>r, <2>1, <2>2, <2>4, MoveFits DEF p
  <1>6. CASE ProtPlane(b) /\ CanPatchLive(rt, p.snap.live, TRUE)
    <2> DEFINE l == Armed(rt.live, "exit")
    <2> DEFINE s == PatchLive(rt, l)
    <2> DEFINE q == At(p, "prot_egress")
    <2>1. Move(b, "prot_plane", s, q) /\ p.pc = "prot_plane" /\ s.live.revision <= MaxRevision
      BY <1>6 DEF ProtPlane, Move, p
    <2>a. l \in Live
      BY <1>0, PlanesWritten DEF RuntimeState, Scope
    <2> HIDE DEF l
    <2>3. GoodRow(s) /\ Transaction(rt, s) /\ \A c \in Boots : NothingFor(rt, s, c)
      BY <1>0, <2>1, <2>a, PatchLiveShape
    <2>2. /\ q \in Process /\ q.pc = "prot_egress" /\ q.phase = p.phase
          /\ q.latch = p.latch /\ q.admitted = p.admitted
      BY <1>0, <1>s, AtShape DEF ProtectiveSteps
    <2> HIDE DEF q, s
    <2>4. ProcessInvariant(s, b, q)
      BY <1>0, <2>1, <2>2, <2>3 DEF ProcessInvariant, NothingFor, ArmSteps,
         ProtectiveSteps, StartupSteps, LoopSteps, FailureSteps, Down
    <2>5. QED
      BY <2>1, <2>2, <2>3, <2>4, MoveFits DEF p
  <1>7. CASE ProtPlane(b) /\ ~CanPatchLive(rt, p.snap.live, TRUE)
    <2> DEFINE q == At(p, "prot_failed")
    <2>1. Move(b, "prot_plane", rt, q) /\ p.pc = "prot_plane"
      BY <1>7 DEF ProtPlane, Move, p
    <2>2. /\ q \in Process /\ q.pc = "prot_failed" /\ q.phase = p.phase
          /\ q.latch = p.latch /\ q.admitted = p.admitted
      BY <1>0, <1>s, AtShape DEF ProtectiveSteps
    <2> HIDE DEF q
    <2>4. ProcessInvariant(rt, b, q)
      BY <1>0, <2>1, <2>2 DEF ProcessInvariant, NothingFor, ArmSteps,
         ProtectiveSteps, StartupSteps, LoopSteps, FailureSteps, Down
    <2>5. QED
      BY <1>r, <2>1, <2>2, <2>4, MoveFits DEF p
  <1>8. CASE ProtEgress(b) /\ CanEnableEgress(rt, b)
    <2> DEFINE step == IF p.phase = "startup" THEN "ready_read" ELSE "commit"
    <2> DEFINE q == At(p, step)
    <2> DEFINE s == EnableEgress(rt, b)
    <2>1. Move(b, "prot_egress", s, q) /\ p.pc = "prot_egress" /\ s.live.revision <= MaxRevision
      BY <1>8, <1>t DEF ProtEgress, Move, p
    <2>2. /\ q \in Process /\ q.pc = step /\ q.phase = p.phase
          /\ q.latch = p.latch /\ q.admitted = p.admitted
      BY <1>0, <1>s, AtShape
    <2>3. /\ GoodRow(s) /\ Transaction(rt, s) /\ s.scalp = rt.scalp
          /\ \A c \in Boots \ {b} : NothingFor(rt, s, c)
      BY <1>0, <1>8, <2>1, EnableEgressShape
    <2> HIDE DEF q, s
    <2>4. ProcessInvariant(s, b, q)
      BY <1>0, <2>1, <2>2, <2>3 DEF ProcessInvariant, NothingFor, ScalpOf, EntryClosed, ArmSteps,
         ProtectiveSteps, StartupSteps, LoopSteps, FailureSteps, Down
    <2>5. QED
      BY <2>3, <2>1, <2>2, <2>4, MoveFits DEF p
  <1>9. CASE ProtEgress(b) /\ ~CanEnableEgress(rt, b)
    <2> DEFINE q == At(p, "prot_failed")
    <2>1. Move(b, "prot_egress", rt, q) /\ p.pc = "prot_egress"
      BY <1>9 DEF ProtEgress, Move, p
    <2>2. /\ q \in Process /\ q.pc = "prot_failed" /\ q.phase = p.phase
          /\ q.latch = p.latch /\ q.admitted = p.admitted
      BY <1>0, <1>s, AtShape DEF ProtectiveSteps
    <2> HIDE DEF q
    <2>4. ProcessInvariant(rt, b, q)
      BY <1>0, <2>1, <2>2 DEF ProcessInvariant, NothingFor, ArmSteps,
         ProtectiveSteps, StartupSteps, LoopSteps, FailureSteps, Down
    <2>5. QED
      BY <1>r, <2>1, <2>2, <2>4, MoveFits DEF p
  <1>10. CASE ProtFailed(b)
    <2> DEFINE step == IF p.phase = "startup" THEN "fail_disable" ELSE "commit"
    <2> DEFINE q == At(p, step)
    <2> DEFINE s == DisableEgress(rt)
    <2>1. Move(b, "prot_failed", s, q) /\ p.pc = "prot_failed" /\ s.live.revision <= MaxRevision
      BY <1>10, <1>t DEF ProtFailed, Move, p
    <2>2. /\ q \in Process /\ q.pc = step /\ q.phase = p.phase
          /\ q.latch = p.latch /\ q.admitted = p.admitted
      BY <1>0, <1>s, AtShape
    <2>3. /\ GoodRow(s) /\ Transaction(rt, s) /\ \A c \in Boots : NothingFor(rt, s, c)
      BY <1>0, <1>10, <2>1, DisableEgressShape
    <2> HIDE DEF q, s
    <2>4. ProcessInvariant(s, b, q)
      BY <1>0, <2>1, <2>2, <2>3 DEF ProcessInvariant, NothingFor, ArmSteps,
         ProtectiveSteps, StartupSteps, LoopSteps, FailureSteps, Down
    <2>5. QED
      BY <2>3, <2>1, <2>2, <2>4, MoveFits DEF p
  <1>11. QED
    BY <1>1, <1>2, <1>3, <1>4, <1>5, <1>6, <1>7, <1>8, <1>9, <1>10

\* and those of the loop,
LEMMA LoopMoves ==
    ASSUME RowInvariant, NEW b \in Boots,
           CycleBegin(b) \/ CycleHead(b) \/ CycleCommit(b) \/ FailDisable(b) \/ FailRecord(b)
    PROVE  Moved(b)
  <1> DEFINE p == proc[b]
  <1>0. /\ rt \in RuntimeState /\ GoodRow(rt)
        /\ p \in Process /\ p.phase \in {"startup", "loop"}
        /\ p.latch \in BOOLEAN /\ p.admitted \in Evidence /\ p.snap \in Snap
        /\ ProcessInvariant(rt, b, p) /\ evidence \in Evidence
    BY Mover
  <1>s. \A step \in {"head", "arm_read", "commit", "prot_disable", "fail_record"} : step \in Step
    BY DEF Step, StartupSteps, ArmSteps, ProtectiveSteps, LoopSteps, FailureSteps
  <1>r. GoodRow(rt) /\ Transaction(rt, rt) /\ \A c \in Boots : NothingFor(rt, rt, c)
    BY StillFits
  <1>v. rt.scalp \in Scalp
    BY <1>0 DEF RuntimeState
  <1> HIDE DEF p
  <1>1. CASE CycleBegin(b)
    <2> DEFINE revoked == evidence = NoEvidence \/ p.latch
    <2> DEFINE step == IF revoked THEN "head" ELSE "arm_read"
    <2> DEFINE q == [p EXCEPT !.pc = step, !.latch = revoked, !.admitted = evidence]
    <2>1. Move(b, "idle", rt, q) /\ p.pc = "idle"
      BY <1>1 DEF CycleBegin, Move, p
    <2>a. step \in Step /\ revoked \in BOOLEAN
      BY <1>s
    <2>b. /\ revoked => step = "head"
          /\ ~revoked => step = "arm_read" /\ evidence # NoEvidence
      OBVIOUS
    <2> HIDE DEF step, revoked
    <2>2. /\ q \in Process /\ q.pc = step /\ q.phase = p.phase
          /\ q.latch = revoked /\ q.admitted = evidence
      BY <1>0, <2>a DEF Process
    <2> HIDE DEF q
    <2>c. p.phase = "loop" /\ q.phase = "loop"
      BY <1>0, <2>1, <2>2 DEF ProcessInvariant, LoopSteps
    <2>4. ProcessInvariant(rt, b, q)
      <3>1. CASE revoked
        BY <2>2, <2>b, <2>c, <3>1 DEF ProcessInvariant, ArmSteps,
           ProtectiveSteps, StartupSteps, LoopSteps, FailureSteps, Down
      <3>2. CASE ~revoked
        <4>1. ~q.latch /\ q.pc = "arm_read" /\ q.admitted # NoEvidence
          BY <2>2, <2>b, <3>2
        <4>2. QED
          BY <2>c, <4>1 DEF ProcessInvariant, ArmSteps,
             ProtectiveSteps, StartupSteps, LoopSteps, FailureSteps, Down
      <3>3. QED
        BY <3>1, <3>2
    <2>5. QED
      BY <1>r, <2>1, <2>2, <2>4, MoveFits DEF p
  <1>2. CASE CycleHead(b) /\ ProtectiveActive(rt, b)
    <2> DEFINE q == At(p, "commit")
    <2>1. Move(b, "head", rt, q) /\ p.pc = "head"
      BY <1>2 DEF CycleHead, Move, p
    <2>2. /\ q \in Process /\ q.pc = "commit" /\ q.phase = p.phase
          /\ q.latch = p.latch /\ q.admitted = p.admitted
      BY <1>0, <1>s, AtShape
    <2> HIDE DEF q
    <2>4. ProcessInvariant(rt, b, q)
      BY <1>0, <2>1, <2>2, <1>2 DEF ProcessInvariant, NothingFor, ProtectiveActive, EntryClosed, ArmSteps,
         ProtectiveSteps, StartupSteps, LoopSteps, FailureSteps, Down
    <2>5. QED
      BY <1>r, <2>1, <2>2, <2>4, MoveFits DEF p
  <1>3. CASE CycleHead(b) /\ ~ProtectiveActive(rt, b) /\ p.admitted = NoEvidence
    <2> DEFINE q == At(p, "prot_disable")
    <2>1. Move(b, "head", rt, q) /\ p.pc = "head"
      BY <1>3 DEF CycleHead, Move, p
    <2>2. /\ q \in Process /\ q.pc = "prot_disable" /\ q.phase = p.phase
          /\ q.latch = p.latch /\ q.admitted = p.admitted
      BY <1>0, <1>s, AtShape
    <2> HIDE DEF q
    <2>4. ProcessInvariant(rt, b, q)
      BY <1>0, <1>3, <2>1, <2>2 DEF ProcessInvariant, NothingFor, ArmSteps,
         ProtectiveSteps, StartupSteps, LoopSteps, FailureSteps, Down
    <2>5. QED
      BY <1>r, <2>1, <2>2, <2>4, MoveFits DEF p
  <1>4. CASE CycleHead(b) /\ ~ProtectiveActive(rt, b) /\ p.admitted # NoEvidence
    <2> DEFINE q == At(p, "commit")
    <2> DEFINE s == RevokeScalp(rt)
    <2>1. Move(b, "head", s, q) /\ p.pc = "head" /\ s.live.revision <= MaxRevision
      BY <1>4 DEF CycleHead, Move, p
    <2>2. /\ q \in Process /\ q.pc = "commit" /\ q.phase = p.phase
          /\ q.latch = p.latch /\ q.admitted = p.admitted
      BY <1>0, <1>s, AtShape
    <2>3. /\ GoodRow(s) /\ Transaction(rt, s) /\ \A c \in Boots : NothingFor(rt, s, c)
          /\ ~ScalpOf(s, b)
      BY <1>0, <1>4, <2>1, RevokeScalpShape
    <2> HIDE DEF q, s
    <2>4. ProcessInvariant(s, b, q)
      BY <1>0, <2>1, <2>2, <2>3 DEF ProcessInvariant, NothingFor, EntryClosed, ArmSteps,
         ProtectiveSteps, StartupSteps, LoopSteps, FailureSteps, Down
    <2>5. QED
      BY <2>3, <2>1, <2>2, <2>4, MoveFits DEF p
  <1>5. CASE CycleCommit(b)
    <2> DEFINE q == [NewProcess EXCEPT !.pc = "idle", !.phase = "loop", !.latch = p.latch]
    <2> DEFINE d == PatchDiag(rt, rt.live, p.admitted)
    <2> DEFINE s == [d EXCEPT !.attested = b, !.status = "running", !.lease = TRUE]
    <2>1. Move(b, "commit", s, q) /\ p.pc = "commit" /\ s.live.revision <= MaxRevision
      BY <1>5 DEF CycleCommit, Move, p
    <2>2. /\ q \in Process /\ q.pc = "idle" /\ q.phase = "loop" /\ q.latch = p.latch
      BY <1>0, FreshShape
    <2>a. s.live = d.live
      BY <1>0 DEF PatchDiag, RuntimeState
    <2>b. /\ GoodRow(d) /\ Transaction(rt, d) /\ \A c \in Boots : NothingFor(rt, d, c)
          /\ d.admission = p.admitted
      BY <1>0, <2>1, <2>a, PatchDiagShape
    <2> HIDE DEF q, d
    <2>c. /\ s \in RuntimeState /\ s.live = d.live /\ s.egress = d.egress
          /\ s.scalp = d.scalp /\ s.admission = d.admission
      BY <2>b DEF GoodRow, RuntimeState, BootId
    <2> HIDE DEF s
    <2>3. GoodRow(s) /\ Transaction(rt, s) /\ \A c \in Boots : NothingFor(rt, s, c)
      BY <2>b, <2>c, StampShape DEF Transaction, NothingFor, ScalpOf, EntryClosed
    <2>d. q.latch => EntryClosed(s, b)
      BY <1>0, <2>1, <2>2, <2>3, <2>b, <2>c DEF ProcessInvariant, NothingFor, EntryClosed
    <2>4. ProcessInvariant(s, b, q)
      BY <2>2, <2>d DEF ProcessInvariant, ArmSteps,
         ProtectiveSteps, StartupSteps, LoopSteps, FailureSteps, Down
    <2>5. QED
      BY <2>1, <2>2, <2>3, <2>4, MoveFits DEF p
  <1>6. CASE FailDisable(b)
    <2> DEFINE q == At(p, "fail_record")
    <2> DEFINE s == DisableEgress(rt)
    <2>1. Move(b, "fail_disable", s, q) /\ p.pc = "fail_disable" /\ s.live.revision <= MaxRevision
      BY <1>6 DEF FailDisable, Move, p
    <2>2. /\ q \in Process /\ q.pc = "fail_record" /\ q.phase = p.phase
          /\ q.latch = p.latch /\ q.admitted = p.admitted
      BY <1>0, <1>s, AtShape
    <2>3. /\ GoodRow(s) /\ Transaction(rt, s) /\ \A c \in Boots : NothingFor(rt, s, c)
          /\ ~ScalpOf(s, b)
      BY <1>0, <1>6, <2>1, <1>v, DisableEgressShape, RevokedShape DEF ScalpOf
    <2> HIDE DEF q, s
    <2>4. ProcessInvariant(s, b, q)
      BY <1>0, <2>1, <2>2, <2>3 DEF ProcessInvariant, NothingFor, ArmSteps,
         ProtectiveSteps, StartupSteps, LoopSteps, FailureSteps, Down
    <2>5. QED
      BY <2>3, <2>1, <2>2, <2>4, MoveFits DEF p
  <1>7. CASE FailRecord(b)
    <2> DEFINE q == [NewProcess EXCEPT !.pc = "dead"]
    <2> DEFINE s == [rt EXCEPT !.startup = b, !.status = "failed", !.lease = FALSE]
    <2>1. Move(b, "fail_record", s, q)
      BY <1>7 DEF FailRecord
    <2>2. /\ q \in Process /\ q.pc = "dead" /\ q.phase = "startup" /\ q.latch = FALSE
      BY FreshShape
    <2>3. /\ s \in RuntimeState /\ s.live = rt.live /\ s.egress = rt.egress
          /\ s.scalp = rt.scalp /\ s.admission = rt.admission
      BY <1>0 DEF RuntimeState, BootId
    <2> HIDE DEF q, s
    <2>4. GoodRow(s) /\ Transaction(rt, s) /\ \A c \in Boots : NothingFor(rt, s, c)
      BY <1>0, <2>3, StampShape
    <2>5. ProcessInvariant(s, b, q)
      BY <2>2 DEF ProcessInvariant, ArmSteps,
         ProtectiveSteps, StartupSteps, LoopSteps, FailureSteps, Down
    <2>6. QED
      BY <2>1, <2>2, <2>4, <2>5, MoveFits DEF p
  <1>8. QED
    BY <1>1, <1>2, <1>3, <1>4, <1>5, <1>6, <1>7

\* Where a raised exception leads, field by field.
LEMMA HandledShape ==
    ASSUME NEW s, NEW b \in Boots, NEW p \in Process, ProcessInvariant(s, b, p),
           p.pc \notin Down \cup FailureSteps \cup {"boot_disable", "boot_record"}
    PROVE  /\ Handled(p) \in Process
           /\ Handled(p).phase = p.phase
           /\ ProcessInvariant(s, b, Handled(p))
  <1>0. p.pc \in Step /\ p.phase \in {"startup", "loop"} /\ p.latch \in BOOLEAN
    BY DEF Process
  <1>s. \A step \in {"arm_failed", "prot_failed", "fail_disable", "commit"} : step \in Step
    BY DEF Step, ArmSteps, ProtectiveSteps, FailureSteps, LoopSteps
  <1>1. CASE p.pc \in {"arm_plane", "arm_egress", "arm_scalp"}
    <2> DEFINE q == At(p, "arm_failed")
    <2>1. Handled(p) = q
      BY <1>1 DEF Handled
    <2>2. /\ q \in Process /\ q.pc = "arm_failed" /\ q.phase = p.phase
          /\ q.latch = p.latch /\ q.admitted = p.admitted
      BY <1>s, AtShape
    <2> HIDE DEF q
    <2>3. ProcessInvariant(s, b, q)
      BY <1>0, <1>1, <2>2 DEF ProcessInvariant, ArmSteps,
         ProtectiveSteps, StartupSteps, LoopSteps, FailureSteps, Down
    <2>4. QED
      BY <2>1, <2>2, <2>3
  <1>2. CASE p.pc \in {"prot_admit", "prot_plane_read", "prot_plane", "prot_egress"}
    <2> DEFINE q == At(p, "prot_failed")
    <2>1. Handled(p) = q
      BY <1>2 DEF Handled
    <2>2. /\ q \in Process /\ q.pc = "prot_failed" /\ q.phase = p.phase
          /\ q.latch = p.latch /\ q.admitted = p.admitted
      BY <1>s, AtShape
    <2> HIDE DEF q
    <2>3. ProcessInvariant(s, b, q)
      BY <1>0, <1>2, <2>2 DEF ProcessInvariant, ArmSteps,
         ProtectiveSteps, StartupSteps, LoopSteps, FailureSteps, Down
    <2>4. QED
      BY <2>1, <2>2, <2>3
  <1>3. CASE p.pc \in {"prot_disable", "prot_failed"}
    <2> DEFINE step == IF p.phase = "startup" THEN "fail_disable" ELSE "commit"
    <2> DEFINE q == At(p, step)
    <2>1. Handled(p) = q
      BY <1>3 DEF Handled, Refused
    <2>2. /\ q \in Process /\ q.pc = step /\ q.phase = p.phase
          /\ q.latch = p.latch /\ q.admitted = p.admitted
      BY <1>s, AtShape
    <2> HIDE DEF q
    <2>3. ProcessInvariant(s, b, q)
      BY <1>0, <1>3, <2>2 DEF ProcessInvariant, ArmSteps,
         ProtectiveSteps, StartupSteps, LoopSteps, FailureSteps, Down
    <2>4. QED
      BY <2>1, <2>2, <2>3
  <1>4. CASE p.pc \notin {"arm_plane", "arm_egress", "arm_scalp", "prot_admit",
                          "prot_plane_read", "prot_plane", "prot_egress",
                          "prot_disable", "prot_failed"}
    <2> DEFINE q == At(p, "fail_disable")
    <2>1. Handled(p) = q
      BY <1>4 DEF Handled
    <2>2. /\ q \in Process /\ q.pc = "fail_disable" /\ q.phase = p.phase
          /\ q.latch = p.latch /\ q.admitted = p.admitted
      BY <1>s, AtShape
    <2> HIDE DEF q
    <2>3. ProcessInvariant(s, b, q)
      BY <1>0, <2>2 DEF ProcessInvariant, ArmSteps,
         ProtectiveSteps, StartupSteps, LoopSteps, FailureSteps, Down
    <2>4. QED
      BY <2>1, <2>2, <2>3
  <1>5. QED
    BY <1>1, <1>2, <1>3, <1>4

\* and an exception or a death.
LEMMA FaultMoves ==
    ASSUME RowInvariant, NEW b \in Boots, Raise(b) \/ Crash(b)
    PROVE  Moved(b)
  <1>0. /\ proc[b] \in Process /\ ProcessInvariant(rt, b, proc[b])
        /\ proc \in [Boots -> Process]
    BY DEF RowInvariant
  <1>r. GoodRow(rt) /\ Transaction(rt, rt) /\ \A c \in Boots : NothingFor(rt, rt, c)
    BY StillFits
  <1>1. CASE Raise(b)
    <2> DEFINE q == Handled(proc[b])
    <2>1. q \in Process /\ q.phase = proc[b].phase /\ ProcessInvariant(rt, b, q)
      BY <1>0, <1>1, HandledShape DEF Raise
    <2> HIDE DEF q
    <2>2. proc' = [proc EXCEPT ![b] = q] /\ rt' = rt /\ UNCHANGED <<operator, evidence>>
      BY <1>1 DEF Raise, q
    <2>3. proc'[b] = q
      BY <1>0, <2>2
    <2>4. disturbances' \in 0 .. MaxDisturbances
      BY <1>1, DisturbanceAssumption DEF Raise, Disturb, RowInvariant
    <2>5. QED
      BY <1>r, <2>1, <2>2, <2>3, <2>4 DEF Moved
  <1>2. CASE Crash(b)
    <2> DEFINE q == [NewProcess EXCEPT !.pc = "dead"]
    <2>1. q \in Process /\ q.pc = "dead" /\ q.phase = "startup" /\ q.latch = FALSE
      BY FreshShape
    <2>2. proc' = [proc EXCEPT ![b] = q] /\ rt' = rt
          /\ UNCHANGED <<operator, evidence, disturbances>>
      BY <1>2 DEF Crash
    <2> HIDE DEF q
    <2>3. proc'[b] = q
      BY <1>0, <2>2
    <2>4. ProcessInvariant(rt, b, q)
      BY <2>1 DEF ProcessInvariant, ArmSteps,
         ProtectiveSteps, StartupSteps, LoopSteps, FailureSteps, Down
    <2>5. disturbances' \in 0 .. MaxDisturbances
      BY <2>2 DEF RowInvariant
    <2>6. QED
      BY <1>r, <2>1, <2>2, <2>3, <2>4, <2>5 DEF Moved
  <1>3. QED
    BY <1>1, <1>2

\* Operators, evidence, lease and broker: no process moves.
Outside == StopAll \/ RuntimeKill \/ QueueKill \/ RetireCanary \/ OperatorRead
             \/ OperatorPatch \/ EvidenceChanges \/ LeaseLapses \/ BrokerChanges

\* An operator's transaction of the right shape keeps the invariant.
LEMMA CommandFits ==
    ASSUME RowInvariant, NEW s, Command(s), GoodRow(s), Transaction(rt, s),
           \A b \in Boots : NothingFor(rt, s, b), SameBoot(rt, s), operator' \in Operator
    PROVE  RowInvariant' /\ Transaction(rt, rt') /\ SameBoot(rt, rt')
  <1>1. rt' = s /\ UNCHANGED <<proc, evidence>>
    BY DEF Command
  <1>2. disturbances' \in 0 .. MaxDisturbances
    BY DisturbanceAssumption DEF Command, Disturb, RowInvariant
  <1>3. \A b \in Boots : ProcessInvariant(s, b, proc[b])
    BY InvariantStable DEF RowInvariant
  <1>4. QED
    BY <1>1, <1>2, <1>3 DEF RowInvariant

\* Operators, evidence and lease keep it.
LEMMA OutsideKeeps ==
    ASSUME RowInvariant, Outside
    PROVE  /\ RowInvariant' /\ Transaction(rt, rt') /\ SameBoot(rt, rt')
           /\ UNCHANGED <<proc, superseded>>
  <1>0. /\ rt \in RuntimeState /\ GoodRow(rt) /\ rt.live \in Live
        /\ operator \in Operator /\ operator.live \in Live
    BY DEF RowInvariant, GoodRow, RuntimeState, Operator
  <1>r. GoodRow(rt) /\ Transaction(rt, rt) /\ \A c \in Boots : NothingFor(rt, rt, c)
    BY StillFits
  <1>n. NoTask \in Operator
    BY RulesAssumption DEF NoTask, Operator, NoLive, EmptyState, Live, Scope, Revision
  <1>1. CASE StopAll
    <2>1. Command(DisableEgress(rt)) /\ operator' = operator
            /\ DisableEgress(rt).live.revision <= MaxRevision
      BY <1>1 DEF StopAll, Command
    <2>2. QED
      BY <1>0, <2>1, DisableEgressShape, CommandFits DEF Command
  <1>2. CASE RuntimeKill
    <2> DEFINE l == [rt.live EXCEPT !.runtime = FALSE]
    <2>1. Command(PatchLive(rt, l)) /\ operator' = operator
            /\ PatchLive(rt, l).live.revision <= MaxRevision
      BY <1>2 DEF RuntimeKill, Command
    <2>2. l \in Live
      BY <1>0, PlanesWritten
    <2> HIDE DEF l
    <2>3. QED
      BY <1>0, <2>1, <2>2, PatchLiveShape, CommandFits DEF Command
  <1>3. CASE QueueKill
    <2> DEFINE l == [rt.live EXCEPT !.runtime = FALSE, !.killed = TRUE]
    <2>1. Command(PatchLive(rt, l)) /\ operator' = operator
            /\ PatchLive(rt, l).live.revision <= MaxRevision
      BY <1>3 DEF QueueKill, Command
    <2>2. l \in Live
      BY <1>0, PlanesWritten
    <2> HIDE DEF l
    <2>3. QED
      BY <1>0, <2>1, <2>2, PatchLiveShape, CommandFits DEF Command
  <1>4. CASE RetireCanary
    <2> DEFINE l == [rt.live EXCEPT !.enabled = FALSE, !.runtime = FALSE, !.killed = FALSE]
    <2>1. Command(PatchLive(rt, l)) /\ operator' = operator
            /\ PatchLive(rt, l).live.revision <= MaxRevision
      BY <1>4 DEF RetireCanary, Command
    <2>2. l \in Live
      BY <1>0, PlanesWritten
    <2> HIDE DEF l
    <2>3. QED
      BY <1>0, <2>1, <2>2, PatchLiveShape, CommandFits DEF Command
  <1>5. CASE OperatorRead
    <2>1. /\ UNCHANGED <<rt, proc, evidence, disturbances, superseded>>
          /\ operator' \in Operator
      BY <1>0, <1>5 DEF OperatorRead, Operator
    <2>2. QED
      BY <1>r, <2>1 DEF RowInvariant, SameBoot
  <1>6. CASE OperatorPatch /\ CanPatchLive(rt, operator.live, operator.task = "start")
    <2> DEFINE l == IF operator.task = "start"
                      THEN Armed(rt.live, "canary")
                      ELSE [rt.live EXCEPT !.runtime = TRUE, !.killed = FALSE,
                                           !.scope = "canary"]
    <2>1. Command(PatchLive(rt, l)) /\ operator' = NoTask
            /\ PatchLive(rt, l).live.revision <= MaxRevision
      BY <1>6 DEF OperatorPatch, Command
    <2>2. l \in Live
      BY <1>0, PlanesWritten DEF Scope
    <2> HIDE DEF l
    <2>3. QED
      BY <1>0, <1>n, <2>1, <2>2, PatchLiveShape, CommandFits DEF Command
  <1>7. CASE OperatorPatch /\ ~CanPatchLive(rt, operator.live, operator.task = "start")
    <2>1. /\ UNCHANGED <<rt, proc, evidence, disturbances, superseded>>
          /\ operator' = NoTask
      BY <1>7 DEF OperatorPatch
    <2>2. QED
      BY <1>r, <1>n, <2>1 DEF RowInvariant, SameBoot
  <1>8. CASE EvidenceChanges
    <2>1. disturbances' \in 0 .. MaxDisturbances
      BY <1>8, DisturbanceAssumption DEF EvidenceChanges, Disturb, RowInvariant
    <2>2. UNCHANGED <<rt, proc, operator, superseded>> /\ evidence' \in Evidence
      BY <1>8 DEF EvidenceChanges
    <2>3. QED
      BY <1>r, <2>1, <2>2 DEF RowInvariant, SameBoot
  <1>9. CASE LeaseLapses \/ BrokerChanges
    <2>1. /\ rt' \in RuntimeState /\ rt'.live = rt.live /\ rt'.egress = rt.egress
          /\ rt'.scalp = rt.scalp /\ rt'.admission = rt.admission
          /\ SameBoot(rt, rt')
      BY <1>0, <1>9 DEF LeaseLapses, BrokerChanges, RuntimeState, SameBoot
    <2>2. GoodRow(rt') /\ Transaction(rt, rt') /\ \A b \in Boots : NothingFor(rt, rt', b)
      BY <1>0, <2>1, StampShape
    <2>3. UNCHANGED <<proc, operator, evidence, disturbances, superseded>>
      BY <1>9 DEF LeaseLapses, BrokerChanges
    <2>4. \A b \in Boots : ProcessInvariant(rt', b, proc[b])
      BY <2>2, InvariantStable DEF RowInvariant
    <2>5. QED
      BY <2>1, <2>2, <2>3, <2>4 DEF RowInvariant
  <1>10. QED
    BY <1>1, <1>2, <1>3, <1>4, <1>5, <1>6, <1>7, <1>8, <1>9 DEF Outside
-----------------------------------------------------------------------------
(* Who signs the row, and who revives the plane                            *)

\* A transaction that signs nothing and revives nothing.
StaysDown(s, t) == LiveDisabled(s.live) => LiveDisabled(t.live)

\* Transactions that do not bring a killed plane back.
LEMMA QuietRows ==
    ASSUME NEW s, s \in RuntimeState
    PROVE  /\ SameBoot(s, s) /\ StaysDown(s, s)
           /\ SameBoot(s, DisableEgress(s)) /\ StaysDown(s, DisableEgress(s))
           /\ SameBoot(s, RevokeScalp(s)) /\ StaysDown(s, RevokeScalp(s))
           /\ \A k, e : /\ SameBoot(s, PatchDiag(s, k, e))
                        /\ StaysDown(s, PatchDiag(s, k, e))
           /\ \A l : SameBoot(s, PatchLive(s, l))
           /\ \A b : SameBoot(s, EnableEgress(s, b)) /\ StaysDown(s, EnableEgress(s, b))
           /\ \A b, r, g : /\ SameBoot(s, ActivateScalp(s, b, r, g))
                           /\ StaysDown(s, ActivateScalp(s, b, r, g))
  <1>1. s.live \in Live
    BY DEF RuntimeState
  <1>2. /\ SameBoot(s, s) /\ StaysDown(s, s)
        /\ SameBoot(s, RevokeScalp(s)) /\ StaysDown(s, RevokeScalp(s))
        /\ \A l : SameBoot(s, PatchLive(s, l))
        /\ \A b : SameBoot(s, EnableEgress(s, b)) /\ StaysDown(s, EnableEgress(s, b))
        /\ \A b, r, g : /\ SameBoot(s, ActivateScalp(s, b, r, g))
                        /\ StaysDown(s, ActivateScalp(s, b, r, g))
    BY DEF RuntimeState, SameBoot, StaysDown, RevokeScalp, PatchLive, EnableEgress,
       ActivateScalp
  <1>3. SameBoot(s, DisableEgress(s)) /\ StaysDown(s, DisableEgress(s))
    <2> DEFINE l == [s.live EXCEPT !.runtime = FALSE, !.killed = TRUE,
                                  !.revision = s.live.revision + 1]
    <2>1. l.runtime = FALSE
      BY <1>1 DEF Live
    <2>2. SameBoot(s, DisableEgress(s)) /\ DisableEgress(s).live = l
      BY DEF RuntimeState, SameBoot, DisableEgress
    <2>3. QED
      BY <2>1, <2>2 DEF StaysDown, LiveDisabled
  <1>4. ASSUME NEW k, NEW e
        PROVE  SameBoot(s, PatchDiag(s, k, e)) /\ StaysDown(s, PatchDiag(s, k, e))
    <2> DEFINE r == s.live.revision + IF e # s.admission THEN 1 ELSE 0
    <2> DEFINE m == [s.live EXCEPT !.revision = r]
    <2>1. PatchDiag(s, k, e) = [s EXCEPT !.admission = e, !.live = m]
      BY PreservedIsCurrent DEF PatchDiag
    <2> HIDE DEF r
    <2>2. m.runtime = s.live.runtime /\ m.killed = s.live.killed
      BY <1>1 DEF Live
    <2> HIDE DEF m
    <2>3. QED
      BY <2>1, <2>2 DEF RuntimeState, SameBoot, StaysDown, LiveDisabled
  <1>5. QED
    BY <1>2, <1>3, <1>4

\* The steps that sign: a boot record, an activation, a first and a later
\* cycle, a failure record.
Signs(b) == BootRecord(b) \/ Activate(b) \/ Ready(b) \/ CycleCommit(b) \/ FailRecord(b)

\* Only a live process that signs changes what the row says of a boot.
LEMMA Signatures ==
    ASSUME RowInvariant, NEW b \in Boots,
           Spawn(b) \/ RunnerStep(b) \/ Raise(b) \/ Crash(b)
    PROVE  /\ proc[b].pc # "dead"
           /\ Signs(b) \/ (SameBoot(rt, rt') /\ superseded' = superseded)
  <1>0. rt \in RuntimeState
    BY DEF RowInvariant, GoodRow
  <1>q. /\ SameBoot(rt, rt)
        /\ SameBoot(rt, DisableEgress(rt))
        /\ SameBoot(rt, RevokeScalp(rt))
        /\ \A k, e : SameBoot(rt, PatchDiag(rt, k, e))
        /\ \A l : SameBoot(rt, PatchLive(rt, l))
        /\ \A c : SameBoot(rt, EnableEgress(rt, c))
        /\ \A c, r, g : SameBoot(rt, ActivateScalp(rt, c, r, g))
    BY <1>0, QuietRows
  <1>1. CASE Spawn(b) \/ BootDisable(b) \/ Verify(b) \/ ReadyRead(b) \/ FailDisable(b)
    BY <1>1, <1>q DEF Spawn, BootDisable, Verify, ReadyRead, FailDisable, Move
  <1>2. CASE ArmRead(b) \/ ArmReplace(b) \/ ArmReread(b) \/ ArmAdmit(b)
               \/ ArmPlaneRead(b) \/ ArmFailed(b)
    BY <1>2, <1>q DEF ArmRead, ArmReplace, ArmReread, ArmAdmit, ArmPlaneRead, ArmFailed,
       Move
  <1>3. CASE ArmPlane(b) \/ ArmEgress(b) \/ ArmScalp(b)
    <2>1. CASE ArmPlane(b)
      BY <2>1, <1>q DEF ArmPlane, Move
    <2>2. CASE ArmEgress(b)
      BY <2>2, <1>q DEF ArmEgress, Move
    <2>3. CASE ArmScalp(b)
      BY <2>3, <1>q DEF ArmScalp, Move
    <2>4. QED
      BY <1>3, <2>1, <2>2, <2>3
  <1>4. CASE ProtDisable(b) \/ ProtRead(b) \/ ProtAdmit(b) \/ ProtPlaneRead(b)
               \/ ProtFailed(b)
    BY <1>4, <1>q DEF ProtDisable, ProtRead, ProtAdmit, ProtPlaneRead, ProtFailed, Move
  <1>9. CASE ProtPlane(b) \/ ProtEgress(b)
    <2>1. CASE ProtPlane(b)
      BY <2>1, <1>q DEF ProtPlane, Move
    <2>2. CASE ProtEgress(b)
      BY <2>2, <1>q DEF ProtEgress, Move
    <2>3. QED
      BY <1>9, <2>1, <2>2
  <1>5. CASE CycleBegin(b) \/ CycleHead(b)
    BY <1>5, <1>q DEF CycleBegin, CycleHead, Move
  <1>6. CASE Raise(b) \/ Crash(b)
    BY <1>6, <1>q DEF Raise, Crash, Down
  <1>7. CASE Signs(b)
    BY <1>7 DEF Signs, BootRecord, Activate, Ready, CycleCommit, FailRecord, Move
  <1>8. QED
    BY <1>1, <1>2, <1>3, <1>4, <1>5, <1>6, <1>7, <1>9 DEF RunnerStep, Signs

\* Every step of Next, in the two shapes the proofs below use.
LEMMA EveryStep ==
    ASSUME RowInvariant, Next
    PROVE  \/ Outside
           \/ \E b \in Boots : /\ Spawn(b) \/ RunnerStep(b) \/ Raise(b) \/ Crash(b)
                               /\ Moved(b)
  <1>1. ASSUME NEW b \in Boots, Spawn(b) \/ RunnerStep(b) \/ Raise(b) \/ Crash(b)
        PROVE  Moved(b)
    BY <1>1, StartupMoves, ArmMoves, ArmWrites, ProtectiveMoves, LoopMoves, FaultMoves
       DEF RunnerStep
  <1>2. QED
    BY <1>1 DEF Next, Outside

\* Every step keeps the invariant of the row and is a transaction on it.
LEMMA RowStep ==
    ASSUME RowInvariant, [Next]_vars
    PROVE  RowInvariant' /\ Transaction(rt, rt')
  <1>1. CASE Next
    BY <1>1, EveryStep, MovedIsInvariant, OutsideKeeps DEF Moved
  <1>2. CASE UNCHANGED vars
    <2>1. UNCHANGED <<rt, proc, operator, evidence, disturbances>>
      BY <1>2 DEF vars
    <2>2. RowInvariant'
      BY <2>1 DEF RowInvariant
    <2>3. QED
      BY <2>1, <2>2, StillFits
  <1>3. QED
    BY <1>1, <1>2

\* The invariant holds of a new database.
LEMMA InitRow == Init => RowInvariant
  <1> SUFFICES ASSUME Init PROVE RowInvariant
    OBVIOUS
  <1>1. 0 \in 0 .. MaxRevision /\ 0 \in 0 .. MaxDisturbances
    BY RulesAssumption, DisturbanceAssumption
  <1>2. /\ EmptyState.live \in Live /\ EgressOff \in Egress
        /\ EmptyState.scalp \in Scalp
    BY <1>1 DEF EmptyState, Live, EgressOff, Egress, Scalp, Scope, Revision, BootId, Evidence
  <1>3. EmptyState \in RuntimeState
    BY <1>2 DEF EmptyState, RuntimeState, BootId, Evidence
  <1>4. GoodRow(rt)
    BY <1>3 DEF Init, GoodRow, EgressBound, EmptyState, EgressOff
  <1>5. NewProcess \in Process
    BY <1>1, <1>2 DEF NewProcess, Process, NoSnap, Snap, NoLive, Revision, Evidence, Step, Down
  <1>6. operator \in Operator /\ evidence \in Evidence /\ disturbances \in 0 .. MaxDisturbances
    BY <1>1, <1>2 DEF Init, NoTask, NoLive, Operator
  <1>7. \A b \in Boots : ProcessInvariant(rt, b, NewProcess)
    BY RulesAssumption DEF Init, EmptyState, ProcessInvariant, NewProcess, ArmSteps,
       ProtectiveSteps, StartupSteps, LoopSteps, FailureSteps, Down
  <1>8. QED
    BY <1>4, <1>5, <1>6, <1>7 DEF Init, RowInvariant

\* The history: a signature of a superseded boot is a record of its failure.
LEMMA SupersededStep ==
    ASSUME AuthorityInvariant, [Next]_vars
    PROVE  superseded' \subseteq Boots /\ SupersededInvariant'
  <1>0. /\ RowInvariant /\ superseded \subseteq Boots /\ SupersededInvariant
        /\ proc \in [Boots -> Process] /\ rt \in RuntimeState
    BY DEF AuthorityInvariant, RowInvariant, GoodRow
  <1>1. CASE UNCHANGED vars
    BY <1>0, <1>1 DEF vars, SupersededInvariant, PastStartup
  <1>2. CASE Outside
    <2>1. SameBoot(rt, rt') /\ UNCHANGED <<proc, superseded>>
      BY <1>0, <1>2, OutsideKeeps
    <2>2. QED
      BY <1>0, <2>1 DEF SameBoot, SupersededInvariant, PastStartup
  <1>3. ASSUME NEW b \in Boots,
               Spawn(b) \/ RunnerStep(b) \/ Raise(b) \/ Crash(b),
               Moved(b)
        PROVE  superseded' \subseteq Boots /\ SupersededInvariant'
    <2>1. /\ proc[b].pc # "dead"
          /\ Signs(b) \/ (SameBoot(rt, rt') /\ superseded' = superseded)
      BY <1>0, <1>3, Signatures
    <2>2. \A c \in Boots \ {b} : proc'[c] = proc[c]
      BY <1>0, <1>3 DEF Moved
    <2>3. \A c \in Boots : PastStartup(c) => PastStartup(c)'
      BY <1>3, <2>1, <2>2 DEF Moved, PastStartup
    <2>4. \A c \in superseded : c # b \/ proc[b].phase = "loop"
      BY <1>0, <2>1 DEF SupersededInvariant, PastStartup
    <2>5. CASE SameBoot(rt, rt') /\ superseded' = superseded
      BY <1>0, <2>1, <2>2, <2>3, <2>5 DEF SameBoot, SupersededInvariant
    <2>6. CASE BootRecord(b)
      <3>1. /\ proc[b].pc = "boot_record" /\ rt'.startup = b
            /\ superseded' = superseded \cup {c \in Boots \ {b} : PastStartup(c)}
        BY <1>0, <2>6 DEF BootRecord, Move, RuntimeState
      <3>2. proc[b].phase = "startup"
        BY <1>0, <3>1 DEF RowInvariant, ProcessInvariant, StartupSteps
      <3>3. b \notin superseded'
        BY <2>4, <3>1, <3>2
      <3>4. \A c \in superseded' : PastStartup(c)'
        BY <1>0, <2>3, <3>1 DEF SupersededInvariant
      <3>5. QED
        BY <1>0, <3>1, <3>3, <3>4 DEF SupersededInvariant
    <2>7. CASE Activate(b) \/ Ready(b)
      <3>1. /\ proc[b].pc \in {"activate", "ready"} /\ superseded' = superseded
            /\ rt'.startup = b
        BY <1>0, <2>7 DEF Activate, Ready, Move, PatchDiag, RuntimeState
      <3>2. proc[b].phase = "startup"
        BY <1>0, <3>1 DEF RowInvariant, ProcessInvariant, StartupSteps
      <3>3. b \notin superseded
        BY <2>4, <3>2
      <3>4. QED
        BY <1>0, <2>3, <3>1, <3>3 DEF SupersededInvariant
    <2>8. CASE CycleCommit(b)
      <3>1. superseded' = superseded /\ rt'.startup = rt.startup /\ rt'.attested = b
        BY <1>0, <2>8 DEF CycleCommit, Move, PatchDiag, RuntimeState
      <3>2. rt.startup \in superseded => rt.startup # b /\ proc'[rt.startup].pc = "dead"
        BY <1>0, <2>1, <2>2 DEF SupersededInvariant
      <3>3. QED
        BY <1>0, <2>3, <3>1, <3>2 DEF SupersededInvariant
    <2>9. CASE FailRecord(b)
      <3>1. /\ superseded' = superseded /\ rt'.startup = b /\ rt'.status = "failed"
            /\ proc'[b] = [NewProcess EXCEPT !.pc = "dead"]
        BY <1>0, <2>9 DEF FailRecord, Move, RuntimeState
      <3>2. proc'[b].pc = "dead"
        BY <3>1 DEF NewProcess
      <3>3. QED
        BY <1>0, <2>3, <3>1, <3>2 DEF SupersededInvariant
    <2>10. QED
      BY <2>1, <2>5, <2>6, <2>7, <2>8, <2>9 DEF Signs
  <1>4. QED
    BY <1>0, <1>1, <1>2, <1>3, EveryStep

-----------------------------------------------------------------------------
(* Theorems                                                                *)

\* The invariant holds in every state of every behaviour: any number of runner
\* processes, each dying or raising anywhere, any operators, any evidence.
THEOREM AuthorityInvariantHolds == Spec => []AuthorityInvariant
  <1>1. Init => AuthorityInvariant
    <2> SUFFICES ASSUME Init PROVE AuthorityInvariant
      OBVIOUS
    <2>1. superseded = {}
      BY DEF Init
    <2>2. QED
      BY <2>1, InitRow DEF AuthorityInvariant, SupersededInvariant
  <1>2. AuthorityInvariant /\ [Next]_vars => AuthorityInvariant'
    BY RowStep, SupersededStep DEF AuthorityInvariant
  <1>3. QED
    BY <1>1, <1>2, PTL DEF Spec

\* The documents have their shapes, and an enabled egress is bound to a boot
\* and to a revision that the plane has reached.
THEOREM AuthorityTyping == Spec => []TypeOK
  <1>1. AuthorityInvariant => TypeOK
    BY DEF AuthorityInvariant, RowInvariant, GoodRow, EgressBound, TypeOK
  <1>2. QED
    BY <1>1, AuthorityInvariantHolds, PTL

\* No old-process bypass: an open egress is never that of a superseded boot.
THEOREM NoOldProcessBypassHolds == Spec => []NoOldProcessBypass
  <1>1. AuthorityInvariant => NoOldProcessBypass
    BY DEF AuthorityInvariant, SupersededInvariant, NoOldProcessBypass, EgressOpen
  <1>2. QED
    BY <1>1, AuthorityInvariantHolds, PTL

\* A latched process never has a usable entry authority again, once it is past
\* the steps that react to the failed verification.
THEOREM LatchedNeverEntersHolds == Spec => []LatchedNeverEnters
  <1>1. ASSUME AuthorityInvariant, NEW b \in Boots, EntryOpen(rt), rt.scalp.boot = b,
               proc[b].latch
        PROVE  proc[b].pc \in {"head", "prot_disable", "commit", "fail_disable"}
    <2>1. /\ rt \in RuntimeState /\ proc[b] \in Process
          /\ ProcessInvariant(rt, b, proc[b])
      BY <1>1 DEF AuthorityInvariant, RowInvariant, GoodRow
    <2>2. rt.scalp.revision \in Nat /\ rt.live.revision \in Nat
      BY <2>1 DEF RuntimeState, Scalp, Live, Revision
    <2>3. ~EntryClosed(rt, b) /\ ScalpOf(rt, b)
      BY <1>1, <2>2 DEF EntryOpen, EgressOpen, ProtectiveOnly, EntryClosed, ScalpOf
    <2>4. proc[b].pc \in Step /\ proc[b].phase \in {"startup", "loop"}
      BY <2>1 DEF Process
    <2>5. QED
      BY <1>1, <2>1, <2>3, <2>4 DEF ProcessInvariant, Step, ArmSteps, ProtectiveSteps,
         StartupSteps, LoopSteps, FailureSteps, Down
  <1>2. AuthorityInvariant => LatchedNeverEnters
    BY <1>1 DEF LatchedNeverEnters
  <1>3. QED
    BY <1>2, AuthorityInvariantHolds, PTL

\* As long as the revision stands, plane and admission stand.
THEOREM RevisionPins == Spec => RevisionPinsPlane
  <1>1. AuthorityInvariant /\ [Next]_vars =>
          [rt'.live.revision = rt.live.revision =>
             rt'.live = rt.live /\ rt'.admission = rt.admission]_vars
    BY RowStep DEF AuthorityInvariant, Transaction
  <1>2. QED
    BY <1>1, AuthorityInvariantHolds, PTL DEF Spec, RevisionPinsPlane

\* Only the two patches of a runner that arm the plane revive it, and each of
\* them has read the plane that it patches.
LEMMA RunnerRevivals ==
    ASSUME RowInvariant, NEW b \in Boots,
           Spawn(b) \/ RunnerStep(b) \/ Raise(b) \/ Crash(b)
    PROVE  \/ StaysDown(rt, rt')
           \/ proc[b].snap.live = rt.live /\ proc[b] # proc'[b]
  <1>0. rt \in RuntimeState /\ proc \in [Boots -> Process]
    BY DEF RowInvariant, GoodRow
  <1>q. /\ StaysDown(rt, rt)
        /\ StaysDown(rt, DisableEgress(rt))
        /\ StaysDown(rt, RevokeScalp(rt))
        /\ \A k, e : StaysDown(rt, PatchDiag(rt, k, e))
        /\ \A c : StaysDown(rt, EnableEgress(rt, c))
        /\ \A c, r, g : StaysDown(rt, ActivateScalp(rt, c, r, g))
    BY <1>0, QuietRows
  <1>1. CASE Spawn(b) \/ BootDisable(b) \/ Verify(b) \/ ReadyRead(b) \/ FailDisable(b)
    BY <1>1, <1>q DEF Spawn, BootDisable, Verify, ReadyRead, FailDisable, Move
  <1>2. CASE ArmRead(b) \/ ArmReplace(b) \/ ArmReread(b) \/ ArmAdmit(b)
               \/ ArmPlaneRead(b) \/ ArmFailed(b)
    BY <1>2, <1>q DEF ArmRead, ArmReplace, ArmReread, ArmAdmit, ArmPlaneRead, ArmFailed,
       Move
  <1>3. CASE ArmEgress(b)
    BY <1>3, <1>q DEF ArmEgress, Move
  <1>4. CASE ArmScalp(b)
    BY <1>4, <1>q DEF ArmScalp, Move
  <1>5. CASE ArmPlane(b) \/ ProtPlane(b)
    <2>1. CASE CanPatchLive(rt, proc[b].snap.live, TRUE)
      <3>1. CASE ArmPlane(b)
        <4>1. PICK s : /\ proc[b].pc = "arm_plane"
                       /\ proc' = [proc EXCEPT ![b] = [proc[b] EXCEPT
                                     !.pc = "arm_egress", !.revision = s.live.revision]]
          BY <2>1, <3>1 DEF ArmPlane, Move
        <4>2. proc'[b].pc = "arm_egress"
          BY <1>0, <4>1 DEF Process
        <4>3. QED
          BY <2>1, <4>1, <4>2 DEF CanPatchLive
      <3>2. CASE ProtPlane(b)
        <4>1. /\ proc[b].pc = "prot_plane"
              /\ proc' = [proc EXCEPT ![b] = At(proc[b], "prot_egress")]
          BY <2>1, <3>2 DEF ProtPlane, Move
        <4>2. proc'[b].pc = "prot_egress"
          BY <1>0, <4>1 DEF Process, At
        <4>3. QED
          BY <2>1, <4>1, <4>2 DEF CanPatchLive
      <3>3. QED
        BY <1>5, <3>1, <3>2
    <2>2. CASE ~CanPatchLive(rt, proc[b].snap.live, TRUE)
      BY <1>5, <1>q, <2>2 DEF ArmPlane, ProtPlane, Move
    <2>3. QED
      BY <2>1, <2>2
  <1>6. CASE ProtDisable(b) \/ ProtRead(b) \/ ProtAdmit(b) \/ ProtPlaneRead(b)
               \/ ProtFailed(b)
    BY <1>6, <1>q DEF ProtDisable, ProtRead, ProtAdmit, ProtPlaneRead, ProtFailed, Move
  <1>7. CASE ProtEgress(b)
    BY <1>7, <1>q DEF ProtEgress, Move
  <1>8. CASE CycleBegin(b) \/ CycleHead(b)
    BY <1>8, <1>q DEF CycleBegin, CycleHead, Move
  <1>9. CASE Raise(b) \/ Crash(b)
    BY <1>9, <1>q DEF Raise, Crash
  <1>10. CASE Signs(b)
    <2>1. CASE BootRecord(b) \/ FailRecord(b)
      BY <1>0, <1>q, <2>1 DEF BootRecord, FailRecord, Move, StaysDown, RuntimeState
    <2>2. CASE Activate(b)
      <3> DEFINE d == PatchDiag(rt, proc[b].snap.live, proc[b].admitted)
      <3>1. rt' = [d EXCEPT !.startup = b, !.attested = b,
                            !.status = "running", !.lease = FALSE]
        BY <2>2 DEF Activate, Move
      <3>2. rt'.live = d.live
        BY <1>0, <3>1 DEF PatchDiag, RuntimeState
      <3>3. QED
        BY <1>q, <3>2 DEF StaysDown
    <2>3. CASE Ready(b)
      <3> DEFINE d == PatchDiag(rt, proc[b].snap.live, proc[b].snap.admission)
      <3>1. rt' = [d EXCEPT !.startup = b, !.attested = b,
                            !.status = "running", !.lease = TRUE]
        BY <2>3 DEF Ready, Move
      <3>2. rt'.live = d.live
        BY <1>0, <3>1 DEF PatchDiag, RuntimeState
      <3>3. QED
        BY <1>q, <3>2 DEF StaysDown
    <2>4. CASE CycleCommit(b)
      <3> DEFINE d == PatchDiag(rt, rt.live, proc[b].admitted)
      <3>1. rt' = [d EXCEPT !.attested = b, !.status = "running", !.lease = TRUE]
        BY <2>4 DEF CycleCommit, Move
      <3>2. rt'.live = d.live
        BY <1>0, <3>1 DEF PatchDiag, RuntimeState
      <3>3. QED
        BY <1>q, <3>2 DEF StaysDown
    <2>5. QED
      BY <1>10, <2>1, <2>2, <2>3, <2>4 DEF Signs
  <1>11. QED
    BY <1>1, <1>2, <1>3, <1>4, <1>5, <1>6, <1>7, <1>8, <1>9, <1>10 DEF RunnerStep, Signs

\* An operator revives a plane only as he last read it.
LEMMA OutsideRevivals ==
    ASSUME RowInvariant, Outside
    PROVE  \/ StaysDown(rt, rt')
           \/ operator.live = rt.live /\ operator # operator'
  <1>0. rt \in RuntimeState /\ GoodRow(rt) /\ rt.live \in Live
    BY DEF RowInvariant, GoodRow, RuntimeState
  <1>1. CASE StopAll
    BY <1>0, <1>1, QuietRows DEF StopAll, Command
  <1>2. CASE RuntimeKill
    <2> DEFINE l == [rt.live EXCEPT !.runtime = FALSE]
    <2>1. rt' = PatchLive(rt, l) /\ PatchLive(rt, l).live.revision <= MaxRevision
      BY <1>2 DEF RuntimeKill, Command
    <2>2. l \in Live /\ LiveDisabled(l)
      BY <1>0, PlanesWritten
    <2> HIDE DEF l
    <2>3. LiveDisabled(PatchLive(rt, l).live) = LiveDisabled(l)
      BY <1>0, <2>1, <2>2, PatchLiveShape
    <2>4. QED
      BY <2>1, <2>2, <2>3 DEF StaysDown
  <1>3. CASE QueueKill
    <2> DEFINE l == [rt.live EXCEPT !.runtime = FALSE, !.killed = TRUE]
    <2>1. rt' = PatchLive(rt, l) /\ PatchLive(rt, l).live.revision <= MaxRevision
      BY <1>3 DEF QueueKill, Command
    <2>2. l \in Live /\ LiveDisabled(l)
      BY <1>0, PlanesWritten
    <2> HIDE DEF l
    <2>3. LiveDisabled(PatchLive(rt, l).live) = LiveDisabled(l)
      BY <1>0, <2>1, <2>2, PatchLiveShape
    <2>4. QED
      BY <2>1, <2>2, <2>3 DEF StaysDown
  <1>4. CASE RetireCanary
    <2> DEFINE l == [rt.live EXCEPT !.enabled = FALSE, !.runtime = FALSE, !.killed = FALSE]
    <2>1. rt' = PatchLive(rt, l) /\ PatchLive(rt, l).live.revision <= MaxRevision
      BY <1>4 DEF RetireCanary, Command
    <2>2. l \in Live /\ LiveDisabled(l)
      BY <1>0, PlanesWritten
    <2> HIDE DEF l
    <2>3. LiveDisabled(PatchLive(rt, l).live) = LiveDisabled(l)
      BY <1>0, <2>1, <2>2, PatchLiveShape
    <2>4. QED
      BY <2>1, <2>2, <2>3 DEF StaysDown
  <1>5. CASE OperatorRead \/ EvidenceChanges
    BY <1>5 DEF OperatorRead, EvidenceChanges, StaysDown
  <1>6. CASE OperatorPatch
    BY <1>6 DEF OperatorPatch, CanPatchLive, StaysDown
  <1>7. CASE LeaseLapses \/ BrokerChanges
    BY <1>0, <1>7 DEF LeaseLapses, BrokerChanges, StaysDown, RuntimeState
  <1>8. QED
    BY <1>1, <1>2, <1>3, <1>4, <1>5, <1>6, <1>7 DEF Outside

\* A kill is cleared only by an actor that had read it.
THEOREM NoStaleRevivalHolds == Spec => NoStaleRevival
  <1> DEFINE Revival ==
        LiveDisabled(rt.live) /\ ~LiveDisabled(rt'.live) =>
          \/ operator.live = rt.live /\ operator # operator'
          \/ \E b \in Boots : proc[b].snap.live = rt.live /\ proc[b] # proc'[b]
  <1>1. AuthorityInvariant /\ [Next]_vars => [Revival]_vars
    <2> SUFFICES ASSUME AuthorityInvariant, Next PROVE Revival
      OBVIOUS
    <2>1. RowInvariant
      BY DEF AuthorityInvariant
    <2>2. CASE Outside
      BY <2>1, <2>2, OutsideRevivals DEF StaysDown
    <2>3. ASSUME NEW b \in Boots, Spawn(b) \/ RunnerStep(b) \/ Raise(b) \/ Crash(b)
          PROVE  Revival
      BY <2>1, <2>3, RunnerRevivals DEF StaysDown
    <2>4. QED
      BY <2>1, <2>2, <2>3, EveryStep
  <1>2. QED
    BY <1>1, AuthorityInvariantHolds, PTL DEF Spec, NoStaleRevival

\* The row seen by the command queue.
LEMMA RowPromise ==
    ASSUME NEW s, NEW t, GoodRow(s), GoodRow(t), Transaction(s, t)
    PROVE  /\ EgressOpen(s) => s.live.revision > 0
           /\ t.live.revision >= s.live.revision
           /\ EgressOpen(s) /\ EgressOpen(t) =>
                /\ t.live.revision = s.live.revision
                /\ ProtectiveOnly(t) <=> ProtectiveOnly(s)
  <1>1. /\ s.live.revision \in 0 .. MaxRevision /\ t.live.revision \in 0 .. MaxRevision
    BY DEF GoodRow, RuntimeState, Live, Revision
  <1>2. EgressOpen(s) => s.live.revision > 0
    BY <1>1 DEF EgressOpen, GoodRow, EgressBound
  <1>3. ASSUME EgressOpen(s), EgressOpen(t)
        PROVE  t.live.revision = s.live.revision /\ (ProtectiveOnly(t) <=> ProtectiveOnly(s))
    BY <1>3 DEF EgressOpen, Transaction, EgressOff, ProtectiveOnly
  <1>4. QED
    BY <1>1, <1>2, <1>3 DEF Transaction

\* The row, as runners, operators and the store write it, keeps the promise
\* the command queue relies on (ExecutionAuthority), step by step.
THEOREM AuthorityRefined == Spec => ImplementsAuthority
  <1> DEFINE View == [open       |-> EgressOpen(rt),
                      protective |-> EgressOpen(rt) /\ ProtectiveOnly(rt),
                      revision   |-> rt.live.revision]
  <1>1. Init => Authority!AuthorityInit
    <2> SUFFICES ASSUME Init PROVE Authority!AuthorityInit
      OBVIOUS
    <2>1. rt.live.revision = 0 /\ ~EgressOpen(rt)
      BY DEF Init, EmptyState, EgressOff, EgressOpen
    <2>2. EgressOpen(rt) = FALSE /\ (EgressOpen(rt) /\ ProtectiveOnly(rt)) = FALSE
      BY <2>1 DEF EgressOpen
    <2>3. QED
      BY <2>1, <2>2, Zenon DEF Authority!AuthorityInit
  <1>2. AuthorityInvariant /\ [Next]_vars => [Authority!AuthorityNext]_View
    <2> SUFFICES ASSUME AuthorityInvariant, [Next]_vars
                 PROVE  [Authority!AuthorityNext]_View
      OBVIOUS
    <2>1. GoodRow(rt) /\ GoodRow(rt') /\ Transaction(rt, rt')
      BY RowStep DEF AuthorityInvariant, RowInvariant
    <2>2. /\ EgressOpen(rt') => rt'.live.revision > 0
          /\ rt'.live.revision >= rt.live.revision
          /\ EgressOpen(rt) /\ EgressOpen(rt') =>
               /\ rt'.live.revision = rt.live.revision
               /\ ProtectiveOnly(rt') <=> ProtectiveOnly(rt)
          /\ rt'.live.revision \in 0 .. MaxRevision
      <3>1. Transaction(rt', rt')
        BY <2>1 DEF Transaction, GoodRow, RuntimeState, Live, Revision
      <3>2. rt'.live.revision \in 0 .. MaxRevision
        BY <2>1 DEF GoodRow, RuntimeState, Live, Revision
      <3>3. QED
        BY <2>1, <3>1, <3>2, RowPromise
    <2>3. View' \in Authority!AuthorityState
      <3>1. /\ View'.open = EgressOpen(rt')
            /\ View'.protective = (EgressOpen(rt') /\ ProtectiveOnly(rt'))
            /\ View'.revision = rt'.live.revision
        OBVIOUS
      <3>2. View' \in [open : BOOLEAN, protective : BOOLEAN, revision : 0 .. MaxRevision]
        BY <2>2, Zenon DEF EgressOpen
      <3>3. QED
        BY <2>2, <3>1, <3>2, Zenon DEF Authority!AuthorityState
    <2>4. Authority!MayBecome(View, View')
      BY <2>2 DEF Authority!MayBecome
    <2>5. Authority!AuthorityNext
      BY <2>3, <2>4 DEF Authority!AuthorityNext
    <2>6. QED
      BY <2>5
  <1>3. QED
    BY <1>1, <1>2, AuthorityInvariantHolds, PTL
       DEF Spec, ImplementsAuthority, Authority!AuthoritySpec
=============================================================================
