---------------------------- MODULE ManagedState ----------------------------
(***************************************************************************)
(* Managed exits and partial closes of one broker position, from           *)
(* runtime/managed_state.py and the loop of runtime/runner.py.  The runner *)
(* enqueues a CLOSE or CLOSE_PARTIAL and remembers it as pending; the EA   *)
(* executes it some time later; the strategy's memory (one recorded trade, *)
(* the number of partial closes) may change only when an acknowledgement   *)
(* or a newer positions snapshot proves what the broker did.  The memory   *)
(* is saved once per cycle, after the commands were enqueued, so a crash   *)
(* leaves commands in the queue that the saved memory does not know; boot  *)
(* recovers them from the rows changed after a watermark.                  *)
(*                                                                         *)
(* Time is abstracted to the comparisons the code makes: which rows the    *)
(* newest snapshot postdates (received_at > updated_at), whether the       *)
(* runner has seen that snapshot's token, and which rows changed after the *)
(* loop began or after the watermark.  A token the runner had not seen     *)
(* when it submitted was received after submitted_ts, so that comparison   *)
(* is the `advanced` flag.  Snapshots tell the truth at the time they are  *)
(* taken, and the EA, one thread, takes none between receiving a command   *)
(* and executing it.                                                       *)
(***************************************************************************)
EXTENDS Integers, FiniteSets

CONSTANTS Ids,             \* commands the strategy may ask for: one identity
                           \* per action and bar (_build_command_id)
          MaxBar,          \* bound: bars
          InitialLots,     \* bound: lots of the position
          MaxPartials,     \* max_partial_closes_per_position
          AbsenceGrace,    \* _MANAGED_POSITION_ABSENCE_GRACE_CYCLES
          MaxCrashes,      \* bound: runner crashes
          NoId             \* no command

ASSUME ManagedAssumption ==
    /\ MaxBar \in Nat \ {0}
    /\ Ids \subseteq [kind : {"exit", "partial"}, bar : 1..MaxBar]
    /\ InitialLots \in Nat \ {0}
    /\ MaxPartials \in Nat
    /\ AbsenceGrace \in Nat \ {0}
    /\ MaxCrashes \in Nat
    /\ NoId \notin Ids

Exits    == {c \in Ids : c.kind = "exit"}
Partials == {c \in Ids : c.kind = "partial"}

VARIABLES lots,      \* lots open at the broker
          cmd,       \* the rows of the durable queue
          context,   \* lots_open in the management_context of a row
          owed,      \* the acknowledgement the EA holds, if any
          book,      \* newest positions snapshot in the runtime state
          bar,       \* the current bar
          pc,        \* where the runner is
          view,      \* the state the current loop read
          mem,       \* the runner's memory
          lastKey,   \* last_action_key of the pair, never saved
          saved,     \* managed_position_state in the database
          changed,   \* rows changed since the loop began, since the watermark
          crashes,   \* runner crashes so far
          done       \* history: commands the broker executed, identities
                     \* enqueued a second time

managedVars == <<lots, cmd, context, owed, book, bar, pc, view, mem, lastKey, saved,
                 changed, crashes, done>>

NoAck == [id |-> NoId, ok |-> FALSE]
-----------------------------------------------------------------------------
(* State                                                                    *)

\* The statuses of a row as far as the runner tells them apart: "expired" is
\* a row that expired undelivered; "ended" is one that was handed out and is
\* failed, duplicate, reconcile_required or expired.
CmdStatus == {"absent", "queued", "delivered", "acked", "expired", "ended"}

\* The memory kept per position: the exit ledger, the trades recorded with
\* the sleeve tracker, and the partial-close tracker (count, pending command
\* with the lots it started from, resolved identities, the last confirmed
\* one while its cooldown runs, cycles without the position).
Memory ==
    [ledger : [Exits -> {"none", "pending", "resolved"}],
     trades : Nat, count : Nat,
     pend : Partials \cup {NoId}, pendLots : Nat,
     settled : SUBSET Partials, cool : Partials \cup {NoId},
     missing : 0..(AbsenceGrace - 1)]

NoMemory ==
    [ledger |-> [c \in Exits |-> "none"], trades |-> 0, count |-> 0,
     pend |-> NoId, pendLots |-> 0, settled |-> {}, cool |-> NoId, missing |-> 0]

ManagedTypeOK ==
    /\ lots \in 0..InitialLots
    /\ cmd \in [Ids -> CmdStatus]
    /\ context \in [Ids -> 0..InitialLots]
    /\ owed \in [id : Ids \cup {NoId}, ok : BOOLEAN]
    /\ book \in [lots : 0..InitialLots, new : BOOLEAN, after : SUBSET Ids]
    /\ bar \in 1..MaxBar
    /\ pc \in {"down", "purge", "idle", "reconcile", "submit", "save", "touch"}
    /\ view \in [lots : 0..InitialLots, advanced : BOOLEAN, after : SUBSET Ids]
    /\ mem \in Memory
    /\ saved \in Memory
    /\ lastKey \in [kind : {"exit", "partial", "tighten", "none"}, bar : 0..MaxBar]
    /\ changed \in [loop : SUBSET Ids, mark : SUBSET Ids]
    /\ crashes \in 0..MaxCrashes
    /\ done \in [executed : SUBSET Ids, retried : SUBSET Ids]

NoKey == [kind |-> "none", bar |-> 0]

NoView == [lots |-> 0, advanced |-> FALSE, after |-> {}]

ManagedInit ==
    /\ lots = InitialLots
    /\ cmd = [c \in Ids |-> "absent"]
    /\ context = [c \in Ids |-> 0]
    /\ owed = NoAck
    /\ book = [lots |-> InitialLots, new |-> TRUE, after |-> {}]
    /\ bar = 1
    /\ pc = "idle"
    /\ view = NoView
    /\ mem = NoMemory
    /\ saved = NoMemory
    /\ lastKey = NoKey
    /\ changed = [loop |-> {}, mark |-> {}]
    /\ crashes = 0
    /\ done = [executed |-> {}, retried |-> {}]

InLoop == pc \in {"reconcile", "submit", "save"}

\* A written row has a new updated_at: no snapshot postdates it, and it
\* changed after the watermark and after the start of a running loop.
RowsStamped(S) ==
    /\ book' = [book EXCEPT !.after = @ \ S]
    /\ changed' = [loop |-> IF InLoop THEN changed.loop \cup S ELSE {},
                   mark |-> changed.mark \cup S]

RowsWritten(S) ==
    /\ RowsStamped(S)
    /\ view' = [view EXCEPT !.after = @ \ S]
-----------------------------------------------------------------------------
(* Queue, EA and broker                                                     *)

\* A queued command is handed to the EA.  The answer is lost, or the EA
\* executes at once and owes an acknowledgement.  It polls only while it
\* owes none.
Deliver(c) ==
    /\ cmd[c] = "queued"
    /\ owed = NoAck
    /\ cmd' = [cmd EXCEPT ![c] = "delivered"]
    /\ RowsWritten({c})
    /\ \/ UNCHANGED <<lots, owed, done>>
       \/ /\ owed' = [id |-> c, ok |-> FALSE]
          /\ UNCHANGED <<lots, done>>
       \/ /\ lots > 0
          /\ owed' = [id |-> c, ok |-> TRUE]
          /\ lots' = IF c \in Exits THEN 0 ELSE lots - 1
          /\ done' = [done EXCEPT !.executed = @ \cup {c}]
    /\ UNCHANGED <<context, bar, pc, mem, lastKey, saved, crashes>>

\* The acknowledgement reaches the queue: ack_command accepts its evidence or
\* keeps the outcome unknown.
AckArrives ==
    /\ owed # NoAck
    /\ \E s \in {"ended", IF owed.ok THEN "acked" ELSE "ended"} :
         cmd' = [cmd EXCEPT ![owed.id] = s]
    /\ RowsWritten({owed.id})
    /\ owed' = NoAck
    /\ UNCHANGED <<lots, context, bar, pc, mem, lastKey, saved, crashes, done>>

\* The terminal dies before the acknowledgement was stored.
AckLost ==
    /\ owed # NoAck
    /\ owed' = NoAck
    /\ UNCHANGED <<lots, cmd, context, book, bar, pc, view, mem, lastKey, saved, changed,
                   crashes, done>>

Expired(c) == IF cmd[c] = "delivered" THEN "ended" ELSE "expired"

\* cleanup_expired_commands.
Expire(c) ==
    /\ cmd[c] \in {"queued", "delivered"}
    /\ cmd' = [cmd EXCEPT ![c] = Expired(c)]
    /\ RowsWritten({c})
    /\ UNCHANGED <<lots, context, owed, bar, pc, mem, lastKey, saved, crashes, done>>

\* The position's stop is hit.
StoppedOut ==
    /\ lots > 0
    /\ lots' = 0
    /\ UNCHANGED <<cmd, context, owed, book, bar, pc, view, mem, lastKey, saved, changed,
                   crashes, done>>

\* The EA posts its positions; the bridge stamps token and receipt time.
PostSnapshot ==
    /\ book' = [lots |-> lots, new |-> TRUE,
                after |-> {c \in Ids : cmd[c] # "absent"}]
    /\ book' # book
    /\ UNCHANGED <<lots, cmd, context, owed, bar, pc, view, mem, lastKey, saved, changed,
                   crashes, done>>

\* A new bar, as the next loop will read it; no later action has the key of
\* an earlier bar.
NewBar ==
    /\ ~InLoop
    /\ bar < MaxBar
    /\ bar' = bar + 1
    /\ lastKey' = NoKey
    /\ UNCHANGED <<lots, cmd, context, owed, book, pc, view, mem, saved, changed, crashes,
                   done>>

\* partial_close_cooldown_secs (1800 s) after a confirmed partial close, a
\* length that outlasts the bar and the seconds between two snapshots.  The
\* guard reads loop_ts, so a cooldown does not end inside a loop.
CooldownOver ==
    /\ pc \in {"down", "idle"}
    /\ \E m \in {mem.cool, saved.cool} \ {NoId} :
         /\ m.bar < bar
         /\ m \in book.after
    /\ mem' = [mem EXCEPT !.cool = NoId]
    /\ saved' = [saved EXCEPT !.cool = NoId]
    /\ UNCHANGED <<lots, cmd, context, owed, book, bar, pc, view, lastKey, changed,
                   crashes, done>>
-----------------------------------------------------------------------------
(* Boot                                                                     *)

\* Mutant: a resolved identity is read from the queue again.
NewsOfAnyRow(m, c) == c \in changed.mark /\ cmd[c] # "absent"

\* The row changed after the watermark and is not resolved.
News(m, c) == c \in changed.mark /\ cmd[c] # "absent" /\ c \notin m.settled

\* hydrate_partial_close_tracker_from_commands walks the rows in the order
\* they were created, one per bar.  What it finds: acknowledged rows, rows that
\* are over, and rows that wait for the broker and find no command pending,
\* either since the start or since the row of the pending one was passed.
NewsAcked == {c \in Partials : News(saved, c) /\ cmd[c] = "acked"}

NewsOver == {c \in Partials : News(saved, c) /\ cmd[c] \in {"acked", "expired"}}

NewsWaiting ==
    {c \in Partials : /\ News(saved, c)
                      /\ cmd[c] \notin {"acked", "expired"}
                      /\ \/ saved.pend = NoId
                         \/ saved.pend \in NewsAcked /\ saved.pend.bar < c.bar}

Earliest(S) == CHOOSE c \in S : \A d \in S : c.bar <= d.bar

Latest(S) == CHOOSE c \in S : \A d \in S : d.bar <= c.bar

\* Mutant: commands the saved memory does not know stay unknown.
HydratedLedgerOnlySaved(ledger) == ledger

\* hydrate_exit_command_ledger_from_commands: a changed row the ledger does
\* not hold enters it, resolved at once when it expired undelivered.
HydratedLedger(ledger) ==
    [c \in Exits |->
       IF c \in changed.mark /\ ledger[c] = "none" /\ cmd[c] # "absent"
       THEN IF cmd[c] = "expired" THEN "resolved" ELSE "pending"
       ELSE ledger[c]]

\* The saved memory with both: the rows touch the tracker of partial closes
\* (every acknowledged one is counted, the last starts the cooldown, the first
\* that waits becomes pending) and the exit ledger, never the recorded trades.
Hydrated ==
    [saved EXCEPT
       !.ledger = HydratedLedger(@),
       !.count = @ + Cardinality(NewsAcked),
       !.settled = @ \cup NewsOver,
       !.cool = IF NewsAcked = {} THEN @ ELSE Latest(NewsAcked),
       !.pend = IF NewsWaiting # {} THEN Earliest(NewsWaiting)
                ELSE IF @ \in NewsAcked THEN NoId ELSE @,
       !.pendLots = IF NewsWaiting = {} THEN @ ELSE context[Earliest(NewsWaiting)],
       !.missing = IF NewsWaiting = {} THEN @ ELSE 0]

\* Restore, hydrate and save again, with saved_at = now; the snapshot in the
\* state counts as seen.
Boot ==
    /\ pc = "down"
    /\ pc' = "purge"
    /\ mem' = Hydrated
    /\ saved' = Hydrated
    /\ changed' = [changed EXCEPT !.mark = {}]
    /\ book' = [book EXCEPT !.new = FALSE]
    /\ UNCHANGED <<lots, cmd, context, owed, bar, view, lastKey, crashes, done>>

\* purge_pending_commands expires what was not delivered;
\* quarantine_stale_delivered gives up on deliveries old enough.
Purge ==
    /\ pc = "purge"
    /\ pc' = "idle"
    /\ \E old \in SUBSET {c \in Ids : cmd[c] = "delivered"} :
         LET over == old \cup {c \in Ids : cmd[c] = "queued"}
         IN  /\ cmd' = [c \in Ids |-> IF c \in over THEN Expired(c) ELSE cmd[c]]
             /\ RowsWritten(over)
    /\ UNCHANGED <<lots, context, owed, bar, mem, lastKey, saved, crashes, done>>

Crash ==
    /\ pc # "down"
    /\ crashes < MaxCrashes
    /\ crashes' = crashes + 1
    /\ pc' = "down"
    /\ mem' = NoMemory
    /\ view' = NoView
    /\ lastKey' = NoKey
    /\ changed' = [changed EXCEPT !.loop = {}]
    /\ UNCHANGED <<lots, cmd, context, owed, book, bar, saved, done>>
-----------------------------------------------------------------------------
(* The loop                                                                 *)

\* loop_ts, the first progress touch and the read of the state.
LoopRead ==
    /\ pc = "idle"
    /\ pc' = "reconcile"
    /\ view' = [lots |-> book.lots, advanced |-> book.new, after |-> book.after]
    /\ book' = [book EXCEPT !.new = FALSE]
    /\ changed' = [loop |-> {}, mark |-> {}]
    /\ UNCHANGED <<lots, cmd, context, owed, bar, mem, lastKey, saved, crashes, done>>

\* The command ended without a success: its row says so, or it was handed out
\* and nothing more is known.
EndedOrUnknown(c) == cmd[c] \in {"delivered", "ended"}

\* Mutant: a pending partial close is given up on any new snapshot.
PartialUnchangedAnySnapshot(c) == EndedOrUnknown(c) /\ view.advanced

\* A snapshot newer than the row shows nothing of the command.
PartialUnchanged(c) == EndedOrUnknown(c) /\ view.advanced /\ c \in view.after

PartialConfirmed(c) ==
    \/ cmd[c] = "acked"
    \/ view.lots > 0 /\ view.lots < mem.pendLots /\ view.advanced

\* reconcile_partial_close_tracker, the pending command.
PartialReconciled(m) ==
    IF m.pend = NoId THEN m
    ELSE LET c == m.pend
             over == [m EXCEPT !.pend = NoId, !.pendLots = 0,
                               !.settled = @ \cup {c}]
         IN  CASE PartialConfirmed(c) -> [over EXCEPT !.count = @ + 1, !.cool = c]
               [] /\ ~PartialConfirmed(c)
                  /\ cmd[c] = "expired" \/ PartialUnchanged(c) -> over
               [] OTHER -> m

\* Mutant: one cycle too many is waited.
GoneLate(missing) == missing > AbsenceGrace

Gone(missing) == missing >= AbsenceGrace

\* The tracker of a position that new snapshots no longer show is dropped
\* after a few cycles.
Pruned(m) ==
    LET tracked == m.count > 0 \/ m.pend # NoId \/ m.settled # {}
        missing == m.missing + 1
        dropped == [NoMemory EXCEPT !.ledger = m.ledger, !.trades = m.trades]
    IN  IF ~tracked THEN m
        ELSE IF view.lots > 0 THEN [m EXCEPT !.missing = 0]
        ELSE IF ~view.advanced THEN m
        ELSE IF Gone(missing) THEN dropped
        ELSE [m EXCEPT !.missing = missing]

\* Mutant: an exit that ended badly is taken for a close.
ExitConfirmedByFailure(c) ==
    cmd[c] \in {"acked", "ended"} \/ (view.lots = 0 /\ view.advanced)

ExitConfirmed(c) ==
    cmd[c] = "acked" \/ (view.lots = 0 /\ view.advanced)

\* Mutant: a delivery that nobody answered is waited for without end.
ExitStillOpenOnlyEnded(c) ==
    /\ cmd[c] = "ended"
    /\ view.advanced
    /\ c \in view.after
    /\ view.lots > 0

ExitStillOpen(c) ==
    /\ EndedOrUnknown(c)
    /\ view.advanced
    /\ c \in view.after
    /\ view.lots > 0

\* reconcile_exit_command_ledger: every unresolved exit; a confirmed one
\* records a trade with the sleeve tracker and the campaign registry.
ExitsReconciled(m) ==
    LET pending   == {c \in Exits : m.ledger[c] = "pending"}
        confirmed == {c \in pending : ExitConfirmed(c)}
        ended     == {c \in pending : cmd[c] = "expired" \/ ExitStillOpen(c)}
    IN  [m EXCEPT !.ledger = [c \in Exits |-> IF c \in confirmed \cup ended
                                              THEN "resolved" ELSE @[c]],
                  !.trades = @ + Cardinality(confirmed)]

\* Both reconciliations; the pair evaluation after them may touch the
\* progress mark.
Reconcile ==
    /\ pc = "reconcile"
    /\ pc' = "submit"
    /\ mem' = ExitsReconciled(Pruned(PartialReconciled(mem)))
    /\ \E touched \in BOOLEAN :
         changed' = [changed EXCEPT !.mark = IF touched THEN {} ELSE @]
    /\ UNCHANGED <<lots, cmd, context, owed, book, bar, view, lastKey, saved, crashes, done>>

\* What submit_command answers for an identity: a new row and an exit that
\* expired undelivered are queued, a row in flight is an accepted duplicate.
Accepts(c) ==
    cmd[c] \in {"absent", "queued", "delivered", "expired"}

Enqueued(c) ==
    LET fresh == cmd[c] \notin {"queued", "delivered"}
    IN  /\ cmd' = IF fresh THEN [cmd EXCEPT ![c] = "queued"] ELSE cmd
        /\ IF fresh THEN RowsStamped({c}) ELSE UNCHANGED <<book, changed>>
        /\ context' = IF fresh THEN [context EXCEPT ![c] = view.lots] ELSE context
        /\ done' = IF cmd[c] = "expired"
                   THEN [done EXCEPT !.retried = @ \cup {c}] ELSE done

\* exit_ack_pending.
ExitAllowed == view.lots > 0 /\ \A c \in Exits : mem.ledger[c] # "pending"

\* partial_close_guard, where a limit of zero is none; a close of the last lot
\* becomes an exit.
PartialAllowed ==
    /\ view.lots > 1
    /\ mem.pend = NoId
    /\ MaxPartials = 0 \/ mem.count < MaxPartials
    /\ mem.cool = NoId

\* _submit_position_actions for the exit of this bar.
SubmitExit(c) ==
    /\ pc = "submit"
    /\ pc' = "save"
    /\ view' = NoView
    /\ c.bar = bar
    /\ ExitAllowed
    /\ lastKey # c
    /\ Accepts(c)
    /\ Enqueued(c)
    /\ lastKey' = c
    /\ mem' = [mem EXCEPT !.ledger[c] = "pending"]
    /\ UNCHANGED <<lots, owed, bar, saved, crashes>>

\* _submit_position_actions for the partial close of this bar.
SubmitPartial(c) ==
    /\ pc = "submit"
    /\ pc' = "save"
    /\ view' = NoView
    /\ c.bar = bar
    /\ PartialAllowed
    /\ lastKey # c
    /\ Accepts(c)
    /\ Enqueued(c)
    /\ lastKey' = c
    /\ mem' = [mem EXCEPT !.pend = c, !.pendLots = view.lots, !.missing = 0]
    /\ UNCHANGED <<lots, owed, bar, saved, crashes>>

\* A stop is tightened instead; its command is of no interest here, but it
\* takes the place of the pair's last action.
SubmitTighten ==
    /\ pc = "submit"
    /\ pc' = "save"
    /\ view' = NoView
    /\ view.lots > 0
    /\ lastKey # [kind |-> "tighten", bar |-> bar]
    /\ lastKey' = [kind |-> "tighten", bar |-> bar]
    /\ UNCHANGED <<lots, cmd, context, owed, book, bar, mem, saved, changed, crashes, done>>

\* No action, or one that a guard or the queue refused.
SubmitNothing ==
    /\ pc = "submit"
    /\ pc' = "save"
    /\ view' = NoView
    /\ UNCHANGED <<lots, cmd, context, owed, book, bar, mem, lastKey, saved, changed,
                   crashes, done>>

\* The state patch: saved_at and runtime_last_cycle_ts are both loop_ts.
Save ==
    /\ pc = "save"
    /\ pc' = "touch"
    /\ saved' = mem
    /\ changed' = [loop |-> {}, mark |-> changed.loop]
    /\ UNCHANGED <<lots, cmd, context, owed, book, bar, view, mem, lastKey, crashes, done>>

\* The progress touch that ends the cycle.  (The loop's view was last read
\* when it submitted, its start when it saved.)
Touch ==
    /\ pc = "touch"
    /\ pc' = "idle"
    /\ changed' = [changed EXCEPT !.mark = {}]
    /\ UNCHANGED <<lots, cmd, context, owed, book, bar, view, mem, lastKey, saved, crashes,
                   done>>
-----------------------------------------------------------------------------
Cycle ==
    \/ LoopRead
    \/ Reconcile
    \/ \E c \in Exits : SubmitExit(c)
    \/ \E c \in Partials : SubmitPartial(c)
    \/ SubmitTighten
    \/ SubmitNothing
    \/ Save
    \/ Touch
    \/ Boot
    \/ Purge

\* A command that is not handed out expires at its lifetime.
ExpireQueued == \E c \in Ids : cmd[c] = "queued" /\ Expire(c)

ManagedNext ==
    \/ Cycle
    \/ Crash
    \/ \E c \in Ids : Deliver(c) \/ Expire(c)
    \/ AckArrives
    \/ AckLost
    \/ StoppedOut
    \/ PostSnapshot
    \/ NewBar
    \/ CooldownOver

\* The runner loops and is restarted, the EA keeps posting its positions, and
\* a command that is not handed out expires at its lifetime.
ManagedFairness ==
    /\ WF_managedVars(Cycle)
    /\ WF_managedVars(PostSnapshot)
    /\ WF_managedVars(ExpireQueued)

ManagedSpec == ManagedInit /\ [][ManagedNext]_managedVars /\ ManagedFairness
-----------------------------------------------------------------------------
(* Properties                                                               *)

\* reconcile_exit_command_ledger records a trade only for a position that the
\* broker no longer holds, whatever crashed, expired or was acknowledged late.
RecordedMeansClosed == mem.trades + saved.trades > 0 => lots = 0

\* A crash in a cycle that resolved one partial close and enqueued the next
\* leaves the first pending in the saved state; boot then passes over the row
\* of the second, which is never counted, and the lots it took are credited to
\* the first.  So the history of several partial closes is exact only while no
\* runner has crashed; that of a single one is exact across crashes too.
HistoryExact == crashes = 0 \/ Cardinality(Partials) = 1

\* The partial history never runs ahead of the broker: each counted partial
\* close was executed, across lost acknowledgements, lot reductions seen in a
\* snapshot, expiries, retries and, for a single command, restarts.
PartialsNotOvercounted ==
    LET executed == Cardinality(done.executed \cap Partials)
    IN  HistoryExact => mem.count <= executed /\ saved.count <= executed

\* The history that max_partial_closes_per_position limits never forgets a
\* partial close: between two cycles, while the position lives, what the
\* broker executed is counted or still pending in the saved state.  (An
\* identity enqueued a second time is the exception.)
PartialsNotForgotten ==
    HistoryExact /\ pc = "idle" /\ lots > 0 /\ done.retried = {} =>
        Cardinality(done.executed \cap Partials)
            <= saved.count + Cardinality({saved.pend} \cap done.executed)

\* An exit that waits for the broker does not block further exits for ever.
ExitNotStuck ==
    \A c \in Exits : (mem.ledger[c] = "pending") ~> (mem.ledger[c] # "pending")

\* A managed exit that closed the position is recorded, although the process
\* may die between the enqueue and the save, and the acknowledgement may
\* never come.  (An identity enqueued a second time is the exception.)
ClosedExitRecorded ==
    \A c \in Exits :
        (c \in done.executed /\ c \notin done.retried) ~> (saved.trades > 0)

\* docs/agents/runtime-loop.md:403: the close-side mutations "occur once at
\* broker confirmation".  One position's close is recorded at most once.
TradeRecordedOnce == mem.trades <= 1
=============================================================================
