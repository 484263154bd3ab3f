---------------------------- MODULE CommandStore ----------------------------
(***************************************************************************)
(* The durable execution queue of runtime/postgres_store.py: one row per   *)
(* command, written only inside transactions that hold the execution-queue *)
(* lock.  Producers enqueue, the bridge polls on behalf of the MT4 expert  *)
(* advisor (EA), the EA acknowledges, housekeeping expires and             *)
(* quarantines.  Between a delivery and its acknowledgement the broker may *)
(* have done anything; the queue's task is never to hand a command out     *)
(* twice, never to forget that an outcome is unknown, and to admit no new  *)
(* exposure that an unknown outcome could collide with.                    *)
(*                                                                         *)
(* Time is abstracted to the three ages of a command that the code         *)
(* compares: "live" (now <= expires_at), "lapsed" (expired for less than   *)
(* the snapshot grace), "graced" (past expires_at + bridge_stale_heart-    *)
(* beat_secs), and to which rows the newest positions snapshot postdates.  *)
(***************************************************************************)
EXTENDS AckAttestation, ExecutionAuthority

CONSTANTS Commands,     \* command identities
          Verb,         \* the verb of each command
          Symbol,       \* the instrument of each command (unused by CLOSE_ALL)
          Legacy,       \* rows written before typed ACK evidence existed
          Acks          \* the acknowledgements that may arrive for each command

ASSUME StoreAssumption ==
    /\ Verb \in [Commands -> Verbs]
    /\ Legacy \subseteq Commands
    /\ Acks \in [Commands -> SUBSET Ack]

VARIABLES row,      \* the commands table
          before,   \* before[c]: rows queued ahead of c (created_at order)
          window,   \* the poll in progress: NoPoll, or rows its `now` admits
          snap,     \* newest positions snapshot: rows it postdates, freshness
          trades,   \* trades[c]: what c added to trades_executed
          polls     \* history: how often c was handed to the EA

vars == <<row, before, window, snap, trades, polls, auth>>
-----------------------------------------------------------------------------
Entry(c) == Verb[c] \in EntryVerbs
Exit(c)  == Verb[c] \in ExitVerbs

Status == ResolvedStatus \cup
          {"absent", "queued", "delivered", "reconcile_required", "expired"}

NoAck == [status |-> "none"]

Row == [status    : Status,
        delivered : BOOLEAN,                    \* delivered_count > 0
        age       : {"live", "lapsed", "graced"},
        safe      : BOOLEAN,                    \* ack_terminal_safe
        sem       : Ack \cup {NoAck},           \* stored semantic identity
        acked     : BOOLEAN,                    \* an "acked" event exists
        revision  : 0 .. MaxRevision]           \* expected_authority_revision

NoPoll == [open |-> FALSE, rows |-> {}]

NoSnapshot == [fresh |-> FALSE, covered |-> {}, settled |-> {}]

TypeOK ==
    /\ row    \in [Commands -> Row]
    /\ before \in [Commands -> SUBSET Commands]
    /\ window \in [open : BOOLEAN, rows : SUBSET Commands]
    /\ snap   \in [fresh : BOOLEAN, covered : SUBSET Commands,
                   settled : SUBSET Commands]
    /\ trades \in [Commands -> Nat]
    /\ polls  \in [Commands -> Nat]
    /\ auth   \in AuthorityState

EmptyRow == [status |-> "absent", delivered |-> FALSE, age |-> "live",
             safe |-> FALSE, sem |-> NoAck, acked |-> FALSE, revision |-> 0]

\* A terminal row of the previous schema: acknowledged, its safety bit unset.
LegacyRow == [EmptyRow EXCEPT !.status = "acked", !.delivered = TRUE,
                              !.acked = TRUE]

Init ==
    /\ row    = [c \in Commands |-> IF c \in Legacy THEN LegacyRow ELSE EmptyRow]
    /\ before = [c \in Commands |-> {}]
    /\ window = NoPoll
    /\ snap   = NoSnapshot
    /\ trades = [c \in Commands |-> IF c \in Legacy /\ Entry(c) THEN 1 ELSE 0]
    /\ polls  = [c \in Commands |-> IF c \in Legacy THEN 1 ELSE 0]
    /\ AuthorityInit
-----------------------------------------------------------------------------
(* The uncertainty fence                                                    *)

\* Mutant: a delivered row stops being uncertain once it expires.
UncertainByStatusOnly(r) ==
    \/ r.status \in {"delivered", "reconcile_required"}
    \/ r.status \in ResolvedStatus /\ ~r.safe

\* _execution_uncertainty_predicate: the broker outcome cannot be proven.
Uncertain(r) ==
    \/ r.status \in {"delivered", "reconcile_required"}
    \/ r.status \in ResolvedStatus /\ ~r.safe
    \/ r.delivered /\ r.status \notin ResolvedStatus

\* A current authoritative book newer than the row's last change, and for a
\* row with a queue lifetime newer than that lifetime plus the grace.
Reconciled(c) ==
    /\ snap.fresh
    /\ IF row[c].status \in ResolvedStatus
       THEN c \in snap.covered
       ELSE row[c].status # "queued" /\ c \in snap.settled

Unresolved == {c \in Commands : Uncertain(row[c]) /\ ~Reconciled(c)}

\* Mutant: an unresolved account-wide close is contained like any other.
ContainedDespiteCloseAll ==
    /\ snap.fresh
    /\ {c \in Commands : Uncertain(row[c])} \subseteq snap.covered

(***************************************************************************)
(* _execution_uncertainty_scope and _execution_uncertainty_blocks_symbol.  *)
(* Containment to the affected symbols needs a fresh book newer than every *)
(* uncertain row, reconciled ones included (latest_uncertain_at is taken   *)
(* before they are dropped).                                               *)
(***************************************************************************)
Contained ==
    /\ \A c \in Unresolved : Verb[c] # "CLOSE_ALL"
    /\ snap.fresh
    /\ {c \in Commands : Uncertain(row[c])} \subseteq snap.covered

\* Mutant: only the affected symbols are fenced, with or without a book.
BlockedBySymbolOnly(symbol) == \E c \in Unresolved : Symbol[c] = symbol

Blocked(symbol) ==
    /\ Unresolved # {}
    /\ ~Contained \/ \E c \in Unresolved : Symbol[c] = symbol
-----------------------------------------------------------------------------
(* Writing rows                                                             *)

\* A written row carries a new updated_at: no snapshot postdates it any more.
Touched(S) == [snap EXCEPT !.covered = @ \ S, !.settled = @ \ S]

\* Give every row of S the status next(r); nothing else of it changes.
Restatus(S, next(_)) ==
    /\ row'  = [c \in Commands |->
                  IF c \in S THEN [row[c] EXCEPT !.status = next(row[c])]
                             ELSE row[c]]
    /\ snap' = Touched(S)

WithStatus(T) == {c \in Commands : row[c].status \in T}

ExpiredStatus(r) == "expired"

\* Undelivered work expires, a delivered outcome becomes unknown.
QuarantinedStatus(r) ==
    IF r.status = "delivered" THEN "reconcile_required" ELSE "expired"

\* Queued and delivered rows but for the queued exits a caller preserves.
Pending(preserve) ==
    {c \in WithStatus({"queued", "delivered"}) :
        ~(preserve /\ Exit(c) /\ row[c].status = "queued")}

\* Rows whose expires_at is behind the clock while still in flight.
Overdue == {c \in WithStatus({"queued", "delivered"}) : row[c].age # "live"}
-----------------------------------------------------------------------------
(* Producers                                                                *)

\* _execution_egress_authorization_failure for one command.
EgressAllows(c) == auth.open /\ (auth.protective => Verb[c] = "CLOSE")

\* A new row goes to the back of the queue.
Append(c) ==
    before' = [d \in Commands |->
                 IF d = c THEN WithStatus({"queued"}) \ {c} ELSE before[d] \ {c}]

\* enqueue_command of a new identity.  An entry must carry the current
\* revision and meet no unresolved outcome; other refusals of an entry
\* (admission, freshness, budget) leave no trace here.
Enqueue(c) ==
    /\ EgressAllows(c)
    /\ row[c].status = "absent"
    /\ Entry(c) => ~Blocked(Symbol[c])
    /\ row' = [row EXCEPT ![c] =
                 [EmptyRow EXCEPT !.status = "queued",
                                  !.revision = IF Entry(c) THEN auth.revision ELSE 0]]
    /\ Append(c)
    /\ snap' = Touched({c})
    /\ window' = [window EXCEPT !.rows = @ \ {c}]
    /\ UNCHANGED <<trades, polls, auth>>

\* Mutant: an expired exit is retried even after it was handed out.
RequeueDelivered(c) ==
    /\ EgressAllows(c)
    /\ Exit(c)
    /\ row[c].status = "expired"
    /\ row' = [row EXCEPT ![c].status = "queued", ![c].age = "live"]
    /\ Append(c)
    /\ snap' = Touched({c})
    /\ window' = [window EXCEPT !.rows = @ \ {c}]
    /\ UNCHANGED <<trades, polls, auth>>

\* enqueue_command of an exit whose identical row expired undelivered.
Requeue(c) ==
    /\ EgressAllows(c)
    /\ Exit(c)
    /\ row[c].status = "expired"
    /\ ~row[c].delivered
    /\ row' = [row EXCEPT ![c].status = "queued", ![c].age = "live"]
    /\ Append(c)
    /\ snap' = Touched({c})
    /\ window' = [window EXCEPT !.rows = @ \ {c}]
    /\ UNCHANGED <<trades, polls, auth>>
-----------------------------------------------------------------------------
(* The bridge's poll, in its two transactions                               *)

\* poll_next_command samples `now` and expires overdue rows.  The rows the
\* later selection may see are those created and unexpired at that instant.
PollBegin ==
    /\ ~window.open
    /\ window' = [open |-> TRUE,
                  rows |-> {c \in WithStatus({"queued"}) : row[c].age = "live"}]
    /\ Restatus(Overdue, ExpiredStatus)
    /\ UNCHANGED <<before, trades, polls, auth>>

\* Egress is closed: everything but queued exits is quarantined.
PollClosed ==
    /\ window.open
    /\ ~auth.open
    /\ Restatus(Pending(TRUE), QuarantinedStatus)
    /\ window' = NoPoll
    /\ UNCHANGED <<before, trades, polls, auth>>

Candidates == WithStatus({"queued"}) \cap window.rows

\* Mutant: the poll forgets to compare the revision an entry was approved at.
RefusedIgnoringRevision(c, vetoed) == ~EgressAllows(c) \/ c \in vetoed

\* A row is refused when the egress or its revision forbids it, or for a
\* reason outside this model (vetoed): the pair or intent scope of the plane,
\* an entry's admission, market or budget, a close's joined ownership.
Refused(c, vetoed) ==
    \/ ~EgressAllows(c)
    \/ Entry(c) /\ row[c].revision # auth.revision
    \/ c \in vetoed

\* Mutant: a fenced entry holds up everything queued behind it.
DeliverableInOrder(vetoed) ==
    LET fenced == {e \in Candidates : /\ Entry(e)
                                      /\ ~Refused(e, vetoed)
                                      /\ Blocked(Symbol[e])}
    IN  {c \in Candidates \ fenced : /\ ~Refused(c, vetoed)
                                     /\ fenced \cap before[c] = {}}

\* Entries behind the uncertainty fence stay queued; what is not refused and
\* not fenced can be handed out.
Deliverable(vetoed) ==
    {c \in Candidates : /\ ~Refused(c, vetoed)
                        /\ Entry(c) => ~Blocked(Symbol[c])}

\* The oldest deliverable row is delivered; rows refused on the way expire.
PollDeliver(c, vetoed) ==
    /\ window.open
    /\ auth.open
    /\ c \in Deliverable(vetoed)
    /\ Deliverable(vetoed) \cap before[c] = {}
    /\ LET expired == {d \in Candidates \cap before[c] : Refused(d, vetoed)}
       IN  /\ row' = [d \in Commands |->
                        CASE d = c          -> [row[d] EXCEPT !.status = "delivered",
                                                              !.delivered = TRUE]
                          [] d \in expired  -> [row[d] EXCEPT !.status = "expired"]
                          [] OTHER          -> row[d]]
           /\ snap' = Touched(expired \cup {c})
    /\ polls' = [polls EXCEPT ![c] = @ + 1]
    /\ window' = NoPoll
    /\ UNCHANGED <<before, trades, auth>>

\* Nothing can be handed out: every refused row expires.
PollNothing(vetoed) ==
    /\ window.open
    /\ auth.open
    /\ Deliverable(vetoed) = {}
    /\ Restatus({d \in Candidates : Refused(d, vetoed)}, ExpiredStatus)
    /\ window' = NoPoll
    /\ UNCHANGED <<before, trades, polls, auth>>

Poll ==
    \/ PollBegin
    \/ PollClosed
    \/ \E vetoed \in SUBSET Candidates :
         PollNothing(vetoed) \/ \E c \in Candidates : PollDeliver(c, vetoed)
-----------------------------------------------------------------------------
(* Acknowledgements                                                         *)

\* An exact positive-ticket success, the only acknowledgement that resolves
\* an uncertain row.
ExactSuccess(c, a) == EffectiveStatus(Verb[c], a) = "acked"

\* Mutant: a later ordinary refusal resolves an uncertain row.
RequestedStatusNotSticky(c, a) ==
    LET eff == EffectiveStatus(Verb[c], a)
        cur == row[c].status
    IN  IF \/ cur = "expired" /\ ~row[c].delivered /\ eff # "acked"
           \/ cur \in ResolvedStatus
        THEN "reconcile_required"
        ELSE eff

\* The status ack_command decides to write, before its early returns.
RequestedStatus(c, a) ==
    LET eff == EffectiveStatus(Verb[c], a)
        cur == row[c].status
    IN  IF \/ cur = "expired" /\ ~row[c].delivered /\ eff # "acked"
           \/ cur \in ResolvedStatus
           \/ cur = "reconcile_required" /\ eff # "acked"
        THEN "reconcile_required"
        ELSE eff

\* Answered 200 without a write: a late conclusive refusal of a row that
\* expired undelivered, or the acknowledgement the row already holds.
AckIdempotent(c, a) ==
    LET eff == EffectiveStatus(Verb[c], a)
        cur == row[c].status
    IN  \/ /\ cur = "expired" /\ ~row[c].delivered
           /\ eff \in {"failed", "duplicate", "delivered"}
        \/ cur \in ResolvedStatus /\ eff = cur /\ row[c].sem = a
        \/ cur = "reconcile_required" /\ eff # "acked" /\ row[c].sem = a


\* Answered 409: a verdict on a row that was never handed out.
AckInvalid(c, a) ==
    /\ RequestedStatus(c, a) \in ResolvedStatus
    /\ row[c].status = "queued"
    /\ ~row[c].delivered

\* The row ack_command writes.
AckedRow(c, a) ==
    LET next == RequestedStatus(c, a)
    IN  [row[c] EXCEPT !.status    = next,
                       !.delivered = @ \/ next = "delivered",
                       !.safe      = TerminalSafe(Verb[c], next, a),
                       !.sem       = a,
                       !.acked     = @ \/ next = "acked"]

\* Mutant: every acked transition counts.
CountsEveryAcked(c, a) == Entry(c) /\ RequestedStatus(c, a) = "acked"

\* An attested entry fill counts once: not when the row's history already
\* holds an "acked" event.
CountsAsTrade(c, a) ==
    Entry(c) /\ RequestedStatus(c, a) = "acked" /\ ~row[c].acked

\* ack_command.
AckCommand(c, a) ==
    /\ row[c].status # "absent"
    /\ ~AckIdempotent(c, a)
    /\ ~AckInvalid(c, a)
    /\ row' = [row EXCEPT ![c] = AckedRow(c, a)]
    /\ snap' = Touched({c})
    /\ trades' = [trades EXCEPT ![c] = @ + IF CountsAsTrade(c, a) THEN 1 ELSE 0]
    /\ UNCHANGED <<before, window, polls, auth>>
-----------------------------------------------------------------------------
(* Housekeeping                                                             *)

\* cleanup_expired_commands outside a poll.
CleanupExpired ==
    /\ Overdue # {}
    /\ Restatus(Overdue, ExpiredStatus)
    /\ UNCHANGED <<before, window, trades, polls, auth>>

\* quarantine_stale_delivered at boot: deliveries older than the cutoff.
QuarantineStaleDelivered(S) ==
    /\ S # {}
    /\ S \subseteq {c \in WithStatus({"delivered"}) : row[c].age = "live"}
    /\ Restatus(S, QuarantinedStatus)
    /\ UNCHANGED <<before, window, trades, polls, auth>>

\* purge_pending_commands, for all rows or for the entry intents only.
PurgePending(preserve, includeDelivered, entriesOnly) ==
    LET purged == {c \in Pending(preserve) :
                     /\ row[c].status = "delivered" => includeDelivered
                     /\ entriesOnly => Entry(c)}
    IN  /\ purged # {}
        /\ Restatus(purged, ExpiredStatus)
        /\ UNCHANGED <<before, window, trades, polls, auth>>

\* Mutant: the protective scope survives the revocation.
DisableEgressKeepsScope(preserve) ==
    /\ auth.revision < MaxRevision
    /\ auth' = [auth EXCEPT !.open = FALSE, !.revision = @ + 1]
    /\ Restatus(Pending(preserve), QuarantinedStatus)
    /\ UNCHANGED <<before, window, trades, polls>>

\* disable_execution_egress: the authority closes at a new revision and the
\* queue is quarantined in the same transaction.
DisableEgress(preserve) ==
    /\ auth.revision < MaxRevision
    /\ auth' = [open |-> FALSE, protective |-> FALSE,
                revision |-> auth.revision + 1]
    /\ Restatus(Pending(preserve), QuarantinedStatus)
    /\ UNCHANGED <<before, window, trades, polls>>

\* Every other change of the authority documents, and the runner lease.
AuthorityStep ==
    /\ AuthorityNext
    /\ auth' # auth
    /\ UNCHANGED <<row, before, window, snap, trades, polls>>
-----------------------------------------------------------------------------
(* Clock and broker book                                                    *)

\* A queue lifetime runs out, then its grace.  The clock moves for every row;
\* the model moves it where an age is read: a lifetime while the row is queued
\* or uncertain, its grace while the row is uncertain.
TimePasses(c) ==
    /\ \/ /\ row[c].age = "live"
          /\ row[c].status = "queued" \/ Uncertain(row[c])
          /\ row' = [row EXCEPT ![c].age = "lapsed"]
       \/ /\ row[c].age = "lapsed"
          /\ Uncertain(row[c])
          /\ row' = [row EXCEPT ![c].age = "graced"]
    /\ UNCHANGED <<before, window, snap, trades, polls, auth>>

\* A positions snapshot is recorded.  Its source timestamp may be older than
\* its receipt, so it postdates some of the uncertain rows, and those of them
\* whose grace was over it settles.
RecordSnapshot(S) ==
    /\ S \subseteq {c \in Commands : Uncertain(row[c])}
    /\ \E T \in SUBSET {c \in S : row[c].age = "graced"} :
         snap' = [fresh |-> TRUE, covered |-> S, settled |-> T]
    /\ snap' # snap
    /\ UNCHANGED <<row, before, window, trades, polls, auth>>

\* The snapshot outlives bridge_stale_heartbeat_secs; a stale book proves
\* nothing, so what it covered is dropped with it.
SnapshotStale ==
    /\ snap.fresh
    /\ snap' = NoSnapshot
    /\ UNCHANGED <<row, before, window, trades, polls, auth>>
-----------------------------------------------------------------------------
\* Everything but the EA's two requests.
Background ==
    \/ \E c \in Commands : Enqueue(c) \/ Requeue(c) \/ TimePasses(c)
    \/ CleanupExpired
    \/ \E S \in SUBSET Commands : QuarantineStaleDelivered(S) \/ RecordSnapshot(S)
    \/ \E p, d, e \in BOOLEAN : PurgePending(p, d, e)
    \/ \E p \in BOOLEAN : DisableEgress(p)
    \/ AuthorityStep
    \/ SnapshotStale

Next ==
    \/ Background
    \/ Poll
    \/ \E c \in Commands : \E a \in Acks[c] : AckCommand(c, a)

Spec == Init /\ [][Next]_vars

(***************************************************************************)
(* The EA polls from its timer for as long as it is attached, so a poll    *)
(* that stays possible happens and a poll that began is finished.          *)
(***************************************************************************)
FairSpec == Spec /\ WF_vars(Poll)
-----------------------------------------------------------------------------
(* Properties                                                               *)

\* poll_next_command hands a command to the EA at most once, whatever
\* acknowledgements, retries, purges and restarts happen around it: a second
\* delivery could repeat a broker mutation.
DeliveredAtMostOnce == \A c \in Commands : polls[c] <= 1

\* trades_executed counts each filled entry once, although ack_command may
\* mark the same row acked again after a contradiction was reconciled.
TradesCountedOnce == \A c \in Commands : trades[c] <= 1

\* What a delivered command may leave behind for a new entry e is known: a
\* terminal verdict with typed evidence, or a fresh broker book newer than
\* the command's last change; on e's own symbol, and for an account-wide
\* close, that book must also postdate the command's lifetime and grace
\* unless the command already has a (legacy) verdict.
KnownTo(d, e) ==
    \/ row[d].status \in ResolvedStatus /\ row[d].safe
    \/ /\ snap.fresh
       /\ d \in snap.covered
       /\ \/ Symbol[d] # Symbol[e] /\ Verb[d] # "CLOSE_ALL"
          \/ d \in snap.settled
          \/ row[d].status \in ResolvedStatus

\* No entry leaves the queue while another command that was ever handed out
\* could still have an outcome the entry's admission has not seen: the fence
\* of poll_next_command against every way a delivered row can change status.
EntryFence ==
    [][\A e \in Commands : Entry(e) /\ polls'[e] > polls[e] =>
          \A d \in Commands \ {e} : polls[d] > 0 => KnownTo(d, e)]_vars

\* ack_command, cleanup, purge, quarantine and boot recovery never downgrade
\* an outcome reported or inferred to be unknown: reconcile_required leaves
\* only for acked, and only on an exact positive-ticket success.
ReconcileSticky ==
    [][\A c \in Commands : row[c].status = "reconcile_required" =>
          \/ row'[c].status = "reconcile_required"
          \/ /\ row'[c].status = "acked"
             /\ row'[c].safe
             /\ ExactSuccess(c, row'[c].sem)]_vars

\* A command that was handed to the EA is never treated as work that may
\* still be handed out, retried or silently dropped: until typed evidence
\* resolves it, it stays in the uncertainty fence, whatever purge, expiry and
\* late acknowledgements do to its status.
DeliveryNeverForgotten ==
    \A c \in Commands : polls[c] > 0 =>
        \/ Uncertain(row[c])
        \/ /\ row[c].status \in ResolvedStatus
           /\ EffectiveStatus(Verb[c], row[c].sem) = row[c].status

\* An entry approved under one revision of the live plane is never delivered
\* under another, even when egress closes and reopens while it is queued.
EntryDiesWithItsRevision ==
    [][\A c \in Commands :
          /\ Entry(c)
          /\ row[c].status = "queued"
          /\ row[c].revision # auth.revision
          => polls'[c] = polls[c]]_vars

\* While egress stays open in the normal live plane, a queued exit is not
\* starved by entries that wait behind the uncertainty fence or are refused:
\* it leaves the queue.
ExitNotStarved ==
    \A c \in Commands :
        Exit(c) /\ <>[](auth.open /\ ~auth.protective) =>
            (row[c].status = "queued" ~> row[c].status # "queued")
-----------------------------------------------------------------------------
(* The inductive invariant behind the safety properties                     *)

\* The history of a row agrees with what the row remembers.
RowHistory(c) ==
    /\ polls[c]  <= 1
    /\ trades[c] <= 1
    /\ polls[c]  > 0 => row[c].delivered
    /\ trades[c] > 0 => row[c].acked
    /\ row[c].status = "absent" => ~row[c].delivered /\ ~row[c].acked
    /\ row[c].delivered => row[c].status # "queued"

\* A verdict marked safe is the classification of the acknowledgement stored
\* with it.
VerdictEvidenced(c) ==
    row[c].status \in ResolvedStatus /\ row[c].safe =>
        row[c].sem \in Ack /\ EffectiveStatus(Verb[c], row[c].sem) = row[c].status

\* Together with the types and the nesting of the snapshot's two sets these
\* are preserved by every step.
StoreInvariant ==
    /\ TypeOK
    /\ \A c \in Commands : RowHistory(c) /\ VerdictEvidenced(c)
    /\ snap.settled \subseteq snap.covered
=============================================================================
