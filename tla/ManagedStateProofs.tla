------------------------- MODULE ManagedStateProofs -------------------------
(***************************************************************************)
(* The trades the runner records with the sleeve tracker, for every set of *)
(* exits and partial closes, any number of bars, lots and crashes.         *)
(***************************************************************************)
EXTENDS ManagedState, FiniteSetTheorems, TLAPS

\* The memory is a record of the fields of Memory; what the tracker of partial
\* closes holds does not matter here.
RecordsTrades(m) ==
    /\ m = [ledger |-> m.ledger, trades |-> m.trades, count |-> m.count,
            pend |-> m.pend, pendLots |-> m.pendLots, settled |-> m.settled,
            cool |-> m.cool, missing |-> m.missing]
    /\ m.trades \in Nat
    /\ m.trades > 0 => lots = 0

\* Whatever the runner can take for a close of the position is one: an
\* acknowledged exit, an acknowledgement of it on the way, and a book without
\* the position, also as the current loop has read it.
CloseIsProven ==
    /\ book.lots = 0 => lots = 0
    /\ pc = "reconcile" /\ view.lots = 0 => lots = 0
    /\ owed.ok /\ owed.id \in Exits => lots = 0
    /\ \A c \in Exits : cmd[c] = "acked" => lots = 0

ManagedInvariant ==
    /\ lots \in Nat
    /\ cmd \in [Ids -> CmdStatus]
    /\ owed \in [id : Ids \cup {NoId}, ok : BOOLEAN]
    /\ book \in [lots : Nat, new : BOOLEAN, after : SUBSET Ids]
    /\ view \in [lots : Nat, advanced : BOOLEAN, after : SUBSET Ids]
    /\ RecordsTrades(mem) /\ RecordsTrades(saved)
    /\ CloseIsProven
-----------------------------------------------------------------------------
\* There are finitely many exit identities.
LEMMA ExitsFinite == IsFiniteSet(Exits)
  <1> DEFINE f == [c \in Exits |-> c.bar]
  <1>1. \A c \in Exits : c \in [kind : {"exit", "partial"}, bar : 1..MaxBar] /\ c.kind = "exit"
    BY ManagedAssumption DEF Exits
  <1>2. \A c, d \in Exits : c.bar = d.bar => c = d
    BY <1>1
  <1>3. f \in [Exits -> 1..MaxBar]
    BY <1>1
  <1>4. f \in Injection(Exits, 1..MaxBar)
    BY <1>2, <1>3 DEF Injection, IsInjective
  <1>5. IsFiniteSet(1..MaxBar)
    BY ManagedAssumption, FS_Interval
  <1>6. QED
    BY <1>4, <1>5, FS_Injection

\* The invariant holds of a new runner.
LEMMA InitInvariant == ManagedInit => ManagedInvariant
  <1> SUFFICES ASSUME ManagedInit PROVE ManagedInvariant
    OBVIOUS
  <1>1. lots \in Nat /\ lots # 0
    BY ManagedAssumption DEF ManagedInit
  <1>2. cmd \in [Ids -> CmdStatus] /\ \A c \in Exits : cmd[c] # "acked"
    BY DEF ManagedInit, CmdStatus, Exits
  <1>3. owed \in [id : Ids \cup {NoId}, ok : BOOLEAN] /\ owed.id \notin Exits
    BY ManagedAssumption DEF ManagedInit, NoAck, Exits
  <1>4. book \in [lots : Nat, new : BOOLEAN, after : SUBSET Ids] /\ book.lots # 0
    BY <1>1 DEF ManagedInit
  <1>5. view \in [lots : Nat, advanced : BOOLEAN, after : SUBSET Ids]
    BY DEF ManagedInit, NoView
  <1>6. RecordsTrades(mem) /\ RecordsTrades(saved)
    BY DEF ManagedInit, NoMemory, RecordsTrades
  <1>7. CloseIsProven
    BY <1>2, <1>3, <1>4 DEF ManagedInit, CloseIsProven
  <1>8. QED
    BY <1>1, <1>2, <1>3, <1>4, <1>5, <1>6, <1>7 DEF ManagedInvariant

\* The queue, the EA, the broker and the clock never open the position again,
\* and prove a close only after one.
LEMMA WorldStep ==
    ASSUME ManagedInvariant,
           \/ \E c \in Ids : Deliver(c) \/ Expire(c)
           \/ AckArrives \/ AckLost \/ StoppedOut \/ PostSnapshot \/ NewBar
    PROVE  ManagedInvariant'
  <1>1. /\ lots \in Nat /\ cmd \in [Ids -> CmdStatus]
        /\ owed \in [id : Ids \cup {NoId}, ok : BOOLEAN]
        /\ book \in [lots : Nat, new : BOOLEAN, after : SUBSET Ids]
        /\ view \in [lots : Nat, advanced : BOOLEAN, after : SUBSET Ids]
        /\ RecordsTrades(mem) /\ RecordsTrades(saved) /\ CloseIsProven
    BY DEF ManagedInvariant
  <1>2. UNCHANGED <<pc, mem, saved>>
    BY DEF Deliver, Expire, AckArrives, AckLost, StoppedOut, PostSnapshot, NewBar
  <1>3. ASSUME NEW S, RowsWritten(S)
        PROVE  /\ book' \in [lots : Nat, new : BOOLEAN, after : SUBSET Ids]
               /\ view' \in [lots : Nat, advanced : BOOLEAN, after : SUBSET Ids]
               /\ book'.lots = book.lots /\ view'.lots = view.lots
    <2>1. /\ book' = [book EXCEPT !.after = book.after \ S]
          /\ view' = [view EXCEPT !.after = view.after \ S]
      BY <1>3 DEF RowsWritten, RowsStamped
    <2>2. QED
      BY <1>1, <2>1
  <1>4. ASSUME lots' \in Nat, lots = 0 => lots' = 0
        PROVE  RecordsTrades(mem)' /\ RecordsTrades(saved)'
    BY <1>1, <1>2, <1>4 DEF RecordsTrades
  <1>5. ASSUME NEW c \in Ids, Deliver(c) PROVE ManagedInvariant'
    <2>1. /\ cmd' = [cmd EXCEPT ![c] = "delivered"] /\ RowsWritten({c})
          /\ \/ UNCHANGED <<lots, owed>>
             \/ owed' = [id |-> c, ok |-> FALSE] /\ UNCHANGED lots
             \/ /\ lots > 0 /\ owed' = [id |-> c, ok |-> TRUE]
                /\ lots' = IF c \in Exits THEN 0 ELSE lots - 1
      BY <1>5 DEF Deliver
    <2>2. lots' \in Nat /\ (lots = 0 => lots' = 0)
      BY <1>1, <2>1
    <2>3. /\ owed' \in [id : Ids \cup {NoId}, ok : BOOLEAN]
          /\ owed'.ok /\ owed'.id \in Exits => lots' = 0
      <3>1. CASE UNCHANGED <<lots, owed>>
        BY <1>1, <3>1 DEF CloseIsProven
      <3>2. CASE owed' = [id |-> c, ok |-> FALSE] /\ UNCHANGED lots
        BY <3>2
      <3>3. CASE /\ lots > 0 /\ owed' = [id |-> c, ok |-> TRUE]
                 /\ lots' = IF c \in Exits THEN 0 ELSE lots - 1
        BY <3>3
      <3>4. QED
        BY <2>1, <3>1, <3>2, <3>3
    <2>4. /\ cmd' \in [Ids -> CmdStatus]
          /\ \A d \in Exits : cmd'[d] = "acked" => lots' = 0
      BY <1>1, <2>1, <2>2 DEF CmdStatus, CloseIsProven, Exits
    <2>5. CloseIsProven'
      BY <1>1, <1>2, <1>3, <2>1, <2>2, <2>3, <2>4 DEF CloseIsProven
    <2>6. QED
      BY <1>3, <1>4, <2>1, <2>2, <2>3, <2>4, <2>5 DEF ManagedInvariant
  <1>6. ASSUME NEW c \in Ids, Expire(c) PROVE ManagedInvariant'
    <2>1. /\ cmd' = [cmd EXCEPT ![c] = Expired(c)] /\ RowsWritten({c})
          /\ UNCHANGED <<lots, owed>>
      BY <1>6 DEF Expire
    <2>2. Expired(c) \in CmdStatus /\ Expired(c) # "acked"
      BY DEF Expired, CmdStatus
    <2>3. /\ cmd' \in [Ids -> CmdStatus]
          /\ \A d \in Exits : cmd'[d] = "acked" => lots' = 0
      BY <1>1, <2>1, <2>2 DEF CloseIsProven, Exits
    <2>4. CloseIsProven'
      BY <1>1, <1>2, <1>3, <2>1, <2>3 DEF CloseIsProven
    <2>5. QED
      BY <1>1, <1>3, <1>4, <2>1, <2>3, <2>4 DEF ManagedInvariant
  <1>7. ASSUME AckArrives PROVE ManagedInvariant'
    <2>1. PICK s \in {"ended", IF owed.ok THEN "acked" ELSE "ended"} :
            cmd' = [cmd EXCEPT ![owed.id] = s]
      BY <1>7 DEF AckArrives
    <2>2. owed' = NoAck /\ lots' = lots /\ RowsWritten({owed.id})
      BY <1>7 DEF AckArrives
    <2>3. s \in CmdStatus /\ (s = "acked" => owed.ok)
      BY DEF CmdStatus
    <2>4. /\ cmd' \in [Ids -> CmdStatus]
          /\ \A d \in Exits : cmd'[d] = "acked" => lots' = 0
      BY <1>1, <2>1, <2>2, <2>3 DEF CloseIsProven, Exits
    <2>5. owed' \in [id : Ids \cup {NoId}, ok : BOOLEAN] /\ owed'.id \notin Exits
      BY <2>2, ManagedAssumption DEF NoAck, Exits
    <2>6. CloseIsProven'
      BY <1>1, <1>2, <1>3, <2>2, <2>4, <2>5 DEF CloseIsProven
    <2>7. QED
      BY <1>1, <1>3, <1>4, <2>2, <2>4, <2>5, <2>6 DEF ManagedInvariant
  <1>8. ASSUME AckLost PROVE ManagedInvariant'
    <2>1. owed' = NoAck /\ UNCHANGED <<lots, cmd, book, view>>
      BY <1>8 DEF AckLost
    <2>2. owed' \in [id : Ids \cup {NoId}, ok : BOOLEAN] /\ owed'.id \notin Exits
      BY <2>1, ManagedAssumption DEF NoAck, Exits
    <2>3. CloseIsProven'
      BY <1>1, <1>2, <2>1, <2>2 DEF CloseIsProven
    <2>4. QED
      BY <1>1, <1>4, <2>1, <2>2, <2>3 DEF ManagedInvariant
  <1>9. ASSUME StoppedOut PROVE ManagedInvariant'
    BY <1>1, <1>2, <1>4, <1>9 DEF StoppedOut, ManagedInvariant, CloseIsProven
  <1>10. ASSUME PostSnapshot PROVE ManagedInvariant'
    <2>1. /\ book' = [lots |-> lots, new |-> TRUE, after |-> {c \in Ids : cmd[c] # "absent"}]
          /\ UNCHANGED <<lots, cmd, owed, view>>
      BY <1>10 DEF PostSnapshot
    <2>2. book' \in [lots : Nat, new : BOOLEAN, after : SUBSET Ids] /\ book'.lots = lots
      BY <1>1, <2>1
    <2>3. QED
      BY <1>1, <1>2, <1>4, <2>1, <2>2 DEF ManagedInvariant, CloseIsProven
  <1>11. ASSUME NewBar PROVE ManagedInvariant'
    BY <1>1, <1>2, <1>4, <1>11 DEF NewBar, ManagedInvariant, CloseIsProven
  <1>12. QED
    BY <1>5, <1>6, <1>7, <1>8, <1>9, <1>10, <1>11
-----------------------------------------------------------------------------
(* Reconciliation: only a proven close of an exit records a trade           *)

\* Writing the tracker of partial closes.
LEMMA TrackerWritten ==
    ASSUME NEW m, RecordsTrades(m), NEW n, NEW p, NEW q, NEW s,
           \/ n = [m EXCEPT !.pend = p, !.pendLots = q, !.settled = s]
           \/ n = [m EXCEPT !.count = p, !.cool = q]
           \/ n = [m EXCEPT !.missing = p]
    PROVE  RecordsTrades(n)
  BY DEF RecordsTrades

\* A memory that counts a trade of a closed position records truly.
LEMMA TradesWritten ==
    ASSUME NEW m, RecordsTrades(m), NEW l, NEW k \in Nat, k > 0 => lots = 0,
           NEW n, n = [m EXCEPT !.ledger = l, !.trades = k]
    PROVE  RecordsTrades(n)
  BY DEF RecordsTrades

\* The partial-close reconciliation records no trade.
LEMMA PartialKeepsTrades ==
    ASSUME NEW m, RecordsTrades(m)
    PROVE  RecordsTrades(PartialReconciled(m))
  <1> DEFINE over == [m EXCEPT !.pend = NoId, !.pendLots = 0,
                               !.settled = m.settled \cup {m.pend}]
  <1> DEFINE won == [over EXCEPT !.count = over.count + 1, !.cool = m.pend]
  <1>1. RecordsTrades(over)
    BY TrackerWritten
  <1>2. RecordsTrades(won)
    <2> HIDE DEF over
    <2>1. QED
      BY <1>1, TrackerWritten
  <1>3. PartialReconciled(m) \in {m, over, won}
    BY DEF PartialReconciled
  <1>4. QED
    BY <1>1, <1>2, <1>3

\* Nor does pruning the ledger.
LEMMA PruningKeepsTrades ==
    ASSUME NEW m, RecordsTrades(m)
    PROVE  RecordsTrades(Pruned(m))
  <1> DEFINE dropped == [NoMemory EXCEPT !.ledger = m.ledger, !.trades = m.trades]
  <1>1. ASSUME NEW n, n = dropped PROVE RecordsTrades(n)
    BY <1>1 DEF RecordsTrades, NoMemory
  <1>2. ASSUME NEW n, n = [m EXCEPT !.missing = 0] \/ n = [m EXCEPT !.missing = m.missing + 1]
        PROVE  RecordsTrades(n)
    BY <1>2 DEF RecordsTrades
  <1>3. Pruned(m) \in {m, dropped, [m EXCEPT !.missing = 0], [m EXCEPT !.missing = m.missing + 1]}
    BY DEF Pruned
  <1> HIDE DEF dropped
  <1>4. QED
    BY <1>1, <1>2, <1>3

\* The exit reconciliation records a trade only of a closed position.
LEMMA ExitsRecordCloses ==
    ASSUME ManagedInvariant, pc = "reconcile", NEW m, RecordsTrades(m)
    PROVE  RecordsTrades(ExitsReconciled(m))
  <1> DEFINE pending   == {c \in Exits : m.ledger[c] = "pending"}
             confirmed == {c \in pending : ExitConfirmed(c)}
             ended     == {c \in pending : cmd[c] = "expired" \/ ExitStillOpen(c)}
             ledger    == [c \in Exits |-> IF c \in confirmed \cup ended
                                           THEN "resolved" ELSE m.ledger[c]]
             next      == [m EXCEPT !.ledger = ledger,
                                    !.trades = m.trades + Cardinality(confirmed)]
  <1>1. ExitsReconciled(m) = next
    BY DEF ExitsReconciled
  <1>2. IsFiniteSet(confirmed)
    <2>1. confirmed \in SUBSET Exits
      OBVIOUS
    <2>2. QED
      BY <2>1, ExitsFinite, FS_Subset
  <1>3. Cardinality(confirmed) \in Nat /\ (Cardinality(confirmed) = 0 <=> confirmed = {})
    BY <1>2, FS_CardinalityType, FS_EmptySet
  <1>4. confirmed # {} => lots = 0
    BY DEF ExitConfirmed, ManagedInvariant, CloseIsProven
  <1>5. RecordsTrades(next)
    <2>1. /\ m.trades + Cardinality(confirmed) \in Nat
          /\ m.trades + Cardinality(confirmed) > 0 => lots = 0
      BY <1>3, <1>4 DEF RecordsTrades
    <2> HIDE DEF confirmed, ledger
    <2>2. QED
      BY <2>1, TradesWritten
  <1>6. QED
    BY <1>1, <1>5

\* The runner's memory changes, the world does not.
LEMMA MemoryStep ==
    ASSUME ManagedInvariant, UNCHANGED <<lots, owed>>,
           RecordsTrades(mem)', RecordsTrades(saved)',
           cmd' \in [Ids -> CmdStatus],
           \A c \in Ids : cmd'[c] = "acked" => cmd[c] = "acked",
           book' \in [lots : Nat, new : BOOLEAN, after : SUBSET Ids],
           book'.lots = book.lots,
           view' \in [lots : Nat, advanced : BOOLEAN, after : SUBSET Ids],
           pc' = "reconcile" => view'.lots = book.lots
    PROVE  ManagedInvariant'
  BY DEF ManagedInvariant, CloseIsProven, Exits

\* The runner's loop, its death and the cooldown keep the invariant.
LEMMA RunnerStep ==
    ASSUME ManagedInvariant, Cycle \/ Crash \/ CooldownOver
    PROVE  ManagedInvariant'
  <1>1. /\ lots \in Nat /\ cmd \in [Ids -> CmdStatus]
        /\ book \in [lots : Nat, new : BOOLEAN, after : SUBSET Ids]
        /\ view \in [lots : Nat, advanced : BOOLEAN, after : SUBSET Ids]
        /\ RecordsTrades(mem) /\ RecordsTrades(saved)
    BY DEF ManagedInvariant
  <1>2. \A m : lots' = lots /\ RecordsTrades(m) =>
                 /\ m = [ledger |-> m.ledger, trades |-> m.trades, count |-> m.count,
                         pend |-> m.pend, pendLots |-> m.pendLots, settled |-> m.settled,
                         cool |-> m.cool, missing |-> m.missing]
                 /\ m.trades \in Nat
                 /\ m.trades > 0 => lots' = 0
    BY DEF RecordsTrades
  <1>3. NoView \in [lots : Nat, advanced : BOOLEAN, after : SUBSET Ids]
    BY DEF NoView
  <1>4. RecordsTrades(NoMemory)
    BY DEF NoMemory, RecordsTrades
  <1>5. ASSUME NEW S, RowsStamped(S)
        PROVE  /\ book' \in [lots : Nat, new : BOOLEAN, after : SUBSET Ids]
               /\ book'.lots = book.lots
    <2>1. book' = [book EXCEPT !.after = book.after \ S]
      BY <1>5 DEF RowsStamped
    <2>2. QED
      BY <1>1, <2>1
  <1>6. /\ [book EXCEPT !.new = FALSE] \in [lots : Nat, new : BOOLEAN, after : SUBSET Ids]
        /\ [book EXCEPT !.new = FALSE].lots = book.lots
    BY <1>1
  <1>7. CASE LoopRead
    <2>1. /\ view' = [lots |-> book.lots, advanced |-> book.new, after |-> book.after]
          /\ book' = [book EXCEPT !.new = FALSE]
          /\ UNCHANGED <<lots, cmd, owed, mem, saved>>
      BY <1>7 DEF LoopRead
    <2>2. /\ view' \in [lots : Nat, advanced : BOOLEAN, after : SUBSET Ids]
          /\ view'.lots = book.lots
      BY <1>1, <2>1
    <2>3. RecordsTrades(mem)' /\ RecordsTrades(saved)'
      BY <1>1, <1>2, <2>1 DEF RecordsTrades
    <2>4. QED
      BY <1>1, <1>6, <2>1, <2>2, <2>3, MemoryStep
  <1>8. CASE Reconcile
    <2>1. /\ pc = "reconcile" /\ pc' = "submit"
          /\ mem' = ExitsReconciled(Pruned(PartialReconciled(mem)))
          /\ UNCHANGED <<lots, cmd, owed, book, view, saved>>
      BY <1>8 DEF Reconcile
    <2>2. RecordsTrades(mem')
      BY <1>1, <2>1, PartialKeepsTrades, PruningKeepsTrades, ExitsRecordCloses
    <2>3. RecordsTrades(mem)' /\ RecordsTrades(saved)'
      BY <1>1, <1>2, <2>1, <2>2 DEF RecordsTrades
    <2>4. QED
      BY <1>1, <2>1, <2>3, MemoryStep
  <1>9. ASSUME NEW c \in Ids, Enqueued(c)
        PROVE  /\ cmd' \in [Ids -> CmdStatus]
               /\ \A d \in Ids : cmd'[d] = "acked" => cmd[d] = "acked"
               /\ book' \in [lots : Nat, new : BOOLEAN, after : SUBSET Ids]
               /\ book'.lots = book.lots
    <2>1. cmd' \in {cmd, [cmd EXCEPT ![c] = "queued"]} /\ (RowsStamped({c}) \/ book' = book)
      BY <1>9 DEF Enqueued
    <2>2. /\ cmd' \in [Ids -> CmdStatus]
          /\ \A d \in Ids : cmd'[d] = "acked" => cmd[d] = "acked"
      BY <1>1, <2>1 DEF CmdStatus
    <2>3. QED
      BY <1>1, <1>5, <2>1, <2>2
  <1>10. ASSUME NEW c \in Exits, SubmitExit(c) PROVE ManagedInvariant'
    <2>1. /\ pc' = "save" /\ view' = NoView /\ Enqueued(c) /\ UNCHANGED <<lots, owed, saved>>
          /\ mem' = [mem EXCEPT !.ledger = [mem.ledger EXCEPT ![c] = "pending"]]
      BY <1>10 DEF SubmitExit
    <2>2. RecordsTrades(mem)'
      BY <1>1, <2>1 DEF RecordsTrades
    <2>3. RecordsTrades(saved)'
      BY <1>1, <1>2, <2>1 DEF RecordsTrades
    <2>4. c \in Ids
      BY DEF Exits
    <2>5. QED
      BY <1>3, <1>9, <2>1, <2>2, <2>3, <2>4, MemoryStep
  <1>11. ASSUME NEW c \in Partials, SubmitPartial(c) PROVE ManagedInvariant'
    <2>1. /\ pc' = "save" /\ view' = NoView /\ Enqueued(c) /\ UNCHANGED <<lots, owed, saved>>
          /\ mem' = [mem EXCEPT !.pend = c, !.pendLots = view.lots, !.missing = 0]
      BY <1>11 DEF SubmitPartial
    <2>2. RecordsTrades(mem)'
      BY <1>1, <2>1 DEF RecordsTrades
    <2>3. RecordsTrades(saved)'
      BY <1>1, <1>2, <2>1 DEF RecordsTrades
    <2>4. c \in Ids
      BY DEF Partials
    <2>5. QED
      BY <1>3, <1>9, <2>1, <2>2, <2>3, <2>4, MemoryStep
  <1>12. CASE SubmitTighten \/ SubmitNothing
    <2>1. /\ pc' = "save" /\ view' = NoView
          /\ UNCHANGED <<lots, cmd, owed, book, mem, saved>>
      BY <1>12 DEF SubmitTighten, SubmitNothing
    <2>2. RecordsTrades(mem)' /\ RecordsTrades(saved)'
      BY <1>1, <1>2, <2>1 DEF RecordsTrades
    <2>3. QED
      BY <1>1, <1>3, <2>1, <2>2, MemoryStep
  <1>13. CASE Save \/ Touch
    <2>1. /\ pc' # "reconcile" /\ mem' = mem /\ saved' \in {mem, saved}
          /\ UNCHANGED <<lots, cmd, owed, book, view>>
      BY <1>13 DEF Save, Touch
    <2>2. RecordsTrades(mem)' /\ RecordsTrades(saved)'
      BY <1>1, <1>2, <2>1 DEF RecordsTrades
    <2>3. QED
      BY <1>1, <2>1, <2>2, MemoryStep
  <1>14. CASE Boot
    <2>1. /\ pc' = "purge" /\ mem' = Hydrated /\ saved' = Hydrated
          /\ book' = [book EXCEPT !.new = FALSE]
          /\ UNCHANGED <<lots, cmd, owed, view>>
      BY <1>14 DEF Boot
    <2>2. RecordsTrades(Hydrated)
      <3> DEFINE l == HydratedLedger(saved.ledger)
                 k == saved.count + Cardinality(NewsAcked)
                 s == saved.settled \cup NewsOver
                 o == IF NewsAcked = {} THEN saved.cool ELSE Latest(NewsAcked)
                 p == IF NewsWaiting # {} THEN Earliest(NewsWaiting)
                      ELSE IF saved.pend \in NewsAcked THEN NoId ELSE saved.pend
                 q == IF NewsWaiting = {} THEN saved.pendLots
                      ELSE context[Earliest(NewsWaiting)]
                 i == IF NewsWaiting = {} THEN saved.missing ELSE 0
      <3>1. Hydrated = [saved EXCEPT !.ledger = l, !.count = k, !.settled = s, !.cool = o,
                                     !.pend = p, !.pendLots = q, !.missing = i]
        BY DEF Hydrated
      <3> HIDE DEF l, k, s, o, p, q, i
      <3>2. QED
        BY <1>1, <3>1 DEF RecordsTrades
    <2>3. RecordsTrades(mem)' /\ RecordsTrades(saved)'
      BY <1>2, <2>1, <2>2 DEF RecordsTrades
    <2>4. QED
      BY <1>1, <1>6, <2>1, <2>3, MemoryStep
  <1>15. CASE Purge
    <2>1. PICK over : /\ cmd' = [c \in Ids |-> IF c \in over THEN Expired(c) ELSE cmd[c]]
                      /\ RowsWritten(over)
      BY <1>15 DEF Purge
    <2>2. pc' = "idle" /\ UNCHANGED <<lots, owed, mem, saved>>
      BY <1>15 DEF Purge
    <2>3. \A c \in Ids : Expired(c) \in CmdStatus /\ Expired(c) # "acked"
      BY DEF Expired, CmdStatus
    <2>4. /\ cmd' \in [Ids -> CmdStatus]
          /\ \A c \in Ids : cmd'[c] = "acked" => cmd[c] = "acked"
      BY <1>1, <2>1, <2>3
    <2>5. view' \in [lots : Nat, advanced : BOOLEAN, after : SUBSET Ids]
      BY <1>1, <2>1 DEF RowsWritten
    <2>6. RecordsTrades(mem)' /\ RecordsTrades(saved)'
      BY <1>1, <1>2, <2>2 DEF RecordsTrades
    <2>7. RowsStamped(over)
      BY <2>1 DEF RowsWritten
    <2>8. QED
      BY <1>5, <2>2, <2>4, <2>5, <2>6, <2>7, MemoryStep
  <1>16. CASE Crash
    <2>1. /\ pc' = "down" /\ mem' = NoMemory /\ view' = NoView
          /\ UNCHANGED <<lots, cmd, owed, book, saved>>
      BY <1>16 DEF Crash
    <2>2. RecordsTrades(mem)' /\ RecordsTrades(saved)'
      BY <1>1, <1>2, <1>4, <2>1 DEF RecordsTrades
    <2>3. QED
      BY <1>1, <1>3, <2>1, <2>2, MemoryStep
  <1>17. CASE CooldownOver
    <2>1. /\ pc \in {"down", "idle"} /\ pc' = pc
          /\ mem' = [mem EXCEPT !.cool = NoId]
          /\ saved' = [saved EXCEPT !.cool = NoId]
          /\ UNCHANGED <<lots, cmd, owed, book, view>>
      BY <1>17 DEF CooldownOver
    <2>2. RecordsTrades(mem)' /\ RecordsTrades(saved)'
      BY <1>1, <2>1 DEF RecordsTrades
    <2>3. QED
      BY <1>1, <2>1, <2>2, MemoryStep
  <1>18. QED
    BY <1>7, <1>8, <1>10, <1>11, <1>12, <1>13, <1>14, <1>15, <1>16, <1>17 DEF Cycle
-----------------------------------------------------------------------------
\* Every step keeps the invariant.
LEMMA ManagedInvariantStep == ManagedInvariant /\ [ManagedNext]_managedVars => ManagedInvariant'
  <1> SUFFICES ASSUME ManagedInvariant, [ManagedNext]_managedVars PROVE ManagedInvariant'
    OBVIOUS
  <1>1. CASE ManagedNext
    BY <1>1, WorldStep, RunnerStep DEF ManagedNext
  <1>2. CASE UNCHANGED managedVars
    BY <1>2 DEF managedVars, ManagedInvariant, RecordsTrades, CloseIsProven
  <1>3. QED
    BY <1>1, <1>2

\* Whatever the runner can take for a close of the position is one, in every
\* state (ManagedInvariant).
THEOREM ManagedInvariantHolds == ManagedSpec => []ManagedInvariant
  <1>1. ManagedInvariant /\ [ManagedNext]_managedVars => ManagedInvariant'
    BY ManagedInvariantStep
  <1>2. QED
    BY <1>1, InitInvariant, PTL DEF ManagedSpec

\* reconcile_exit_command_ledger records a trade only for a position the
\* broker no longer holds, for any number of exits, bars and crashes.
THEOREM RecordedClosed == ManagedSpec => []RecordedMeansClosed
  <1>1. ManagedInvariant => RecordedMeansClosed
    BY DEF ManagedInvariant, RecordsTrades, RecordedMeansClosed
  <1>2. QED
    BY <1>1, ManagedInvariantHolds, PTL
-----------------------------------------------------------------------------
(* Types, and what each operation does to the tracker of partial closes     *)

\* There are finitely many partial closes.
LEMMA PartialsFinite == IsFiniteSet(Partials)
  <1> DEFINE f == [c \in Partials |-> c.bar]
  <1>1. \A c \in Partials : c \in [kind : {"exit", "partial"}, bar : 1..MaxBar] /\ c.kind = "partial"
    BY ManagedAssumption DEF Partials
  <1>2. \A c, d \in Partials : c.bar = d.bar => c = d
    BY <1>1
  <1>3. f \in [Partials -> 1..MaxBar]
    BY <1>1
  <1>4. f \in Injection(Partials, 1..MaxBar)
    BY <1>2, <1>3 DEF Injection, IsInjective
  <1>5. IsFiniteSet(1..MaxBar)
    BY ManagedAssumption, FS_Interval
  <1>6. QED
    BY <1>4, <1>5, FS_Injection

\* The two kinds of identities.
LEMMA KindsOfIds ==
    /\ Exits \subseteq Ids /\ Partials \subseteq Ids
    /\ \A c \in Ids : c \in Exits \/ c \in Partials
    /\ \A c \in Exits : c \notin Partials
    /\ \A c \in Ids : c.bar \in 1..MaxBar
    /\ NoId \notin Ids /\ NoId \notin Partials /\ NoId \notin Exits
  BY ManagedAssumption DEF Exits, Partials

\* The memory of a new runner.
LEMMA NoMemoryType ==
    /\ NoMemory \in Memory
    /\ NoMemory.count = 0 /\ NoMemory.pend = NoId /\ NoMemory.pendLots = 0
    /\ NoMemory.settled = {} /\ NoMemory.cool = NoId
  BY ManagedAssumption DEF NoMemory, Memory

\* What the two memories share that the partial-close history reads.
SameTracker(m, n) ==
    /\ n.count = m.count
    /\ n.pend = m.pend
    /\ n.pendLots = m.pendLots
    /\ n.settled = m.settled
    /\ n.cool = m.cool

\* The ways reconcile_partial_close_tracker leaves the pending command: it is
\* confirmed, given up, or waited for.
Resolves(m, n) ==
    \/ SameTracker(m, n) /\ m.pend = NoId
    \/ /\ SameTracker(m, n) /\ m.pend \in Partials
       /\ ~PartialConfirmed(m.pend)
       /\ cmd[m.pend] # "expired" /\ ~PartialUnchanged(m.pend)
    \/ /\ m.pend \in Partials /\ PartialConfirmed(m.pend)
       /\ n.count = m.count + 1 /\ n.cool = m.pend
       /\ n.pend = NoId /\ n.pendLots = 0 /\ n.settled = m.settled \cup {m.pend}
    \/ /\ m.pend \in Partials /\ ~PartialConfirmed(m.pend)
       /\ cmd[m.pend] = "expired" \/ PartialUnchanged(m.pend)
       /\ n.count = m.count /\ n.cool = m.cool
       /\ n.pend = NoId /\ n.pendLots = 0 /\ n.settled = m.settled \cup {m.pend}

\* The pending partial close is reconciled.
LEMMA PartialReconciledTracker ==
    ASSUME NEW m \in Memory, NEW n, n = PartialReconciled(m)
    PROVE  n \in Memory /\ Resolves(m, n)
  <1> DEFINE over == [m EXCEPT !.pend = NoId, !.pendLots = 0,
                               !.settled = m.settled \cup {m.pend}]
  <1> DEFINE won == [over EXCEPT !.count = over.count + 1, !.cool = m.pend]
  <1>1. CASE m.pend = NoId
    BY <1>1 DEF PartialReconciled, Resolves, SameTracker
  <1>2. CASE m.pend # NoId
    <2>1. m.pend \in Partials
      BY <1>2 DEF Memory
    <2>2. /\ over \in Memory
          /\ over.count = m.count /\ over.cool = m.cool /\ over.pend = NoId
          /\ over.pendLots = 0 /\ over.settled = m.settled \cup {m.pend}
      BY <2>1 DEF Memory
    <2> HIDE DEF over
    <2>3. over.count + 1 \in Nat
      BY <2>2 DEF Memory
    <2>4. /\ won \in Memory
          /\ won.count = m.count + 1 /\ won.cool = m.pend /\ won.pend = NoId
          /\ won.pendLots = 0 /\ won.settled = m.settled \cup {m.pend}
      BY <2>1, <2>2, <2>3 DEF Memory
    <2>5. /\ PartialConfirmed(m.pend) => n = won
          /\ /\ ~PartialConfirmed(m.pend)
             /\ cmd[m.pend] = "expired" \/ PartialUnchanged(m.pend)
             => n = over
          /\ /\ ~PartialConfirmed(m.pend)
             /\ cmd[m.pend] # "expired" /\ ~PartialUnchanged(m.pend)
             => n = m
      BY <1>2 DEF PartialReconciled, over
    <2> HIDE DEF won
    <2>6. QED
      BY <2>1, <2>2, <2>4, <2>5 DEF Resolves, SameTracker
  <1>3. QED
    BY <1>1, <1>2

\* Pruning keeps the tracker, or drops it when the loop sees no position.
Prunes(m, n) ==
    \/ SameTracker(m, n)
    \/ /\ view.lots = 0
       /\ n.count = 0 /\ n.pend = NoId /\ n.pendLots = 0 /\ n.settled = {} /\ n.cool = NoId

\* The tracker of a position that snapshots no longer show.
LEMMA PrunedTracker ==
    ASSUME ManagedTypeOK, NEW m \in Memory, NEW n, n = Pruned(m)
    PROVE  n \in Memory /\ Prunes(m, n)
  <1> DEFINE dropped == [NoMemory EXCEPT !.ledger = m.ledger, !.trades = m.trades]
             seen == [m EXCEPT !.missing = 0]
             unseen == [m EXCEPT !.missing = m.missing + 1]
  <1>1. dropped \in Memory
    BY NoMemoryType DEF Memory
  <1>2. /\ dropped.count = 0 /\ dropped.pend = NoId /\ dropped.pendLots = 0
        /\ dropped.settled = {} /\ dropped.cool = NoId
    BY NoMemoryType DEF Memory
  <1>3. seen \in Memory /\ SameTracker(m, seen)
    BY ManagedAssumption DEF Memory, SameTracker
  <1>4. m.missing + 1 \in Nat /\ (~Gone(m.missing + 1) => m.missing + 1 \in 0..(AbsenceGrace - 1))
    BY ManagedAssumption DEF Memory, Gone
  <1>5. ~Gone(m.missing + 1) => unseen \in Memory /\ SameTracker(m, unseen)
    BY <1>4 DEF Memory, SameTracker
  <1>6. \/ n = m
        \/ n = seen
        \/ n = dropped /\ view.lots = 0
        \/ n = unseen /\ ~Gone(m.missing + 1)
    <2>1. view.lots > 0 \/ view.lots = 0
      BY DEF ManagedTypeOK
    <2>2. QED
      BY <2>1 DEF Pruned
  <1> HIDE DEF dropped, seen, unseen
  <1>7. SameTracker(m, m)
    BY DEF SameTracker
  <1>8. QED
    BY <1>1, <1>2, <1>3, <1>5, <1>6, <1>7 DEF Prunes

\* The exits are reconciled: the tracker of partial closes is left alone.
LEMMA ExitsReconciledTracker ==
    ASSUME NEW m \in Memory, NEW n, n = ExitsReconciled(m)
    PROVE  n \in Memory /\ SameTracker(m, n)
  <1> DEFINE pending   == {c \in Exits : m.ledger[c] = "pending"}
             confirmed == {c \in pending : ExitConfirmed(c)}
             ended     == {c \in pending : cmd[c] = "expired" \/ ExitStillOpen(c)}
             ledger    == [c \in Exits |-> IF c \in confirmed \cup ended
                                           THEN "resolved" ELSE m.ledger[c]]
             trades    == m.trades + Cardinality(confirmed)
  <1>1. n = [m EXCEPT !.ledger = ledger, !.trades = trades]
    BY DEF ExitsReconciled
  <1>2. ledger \in [Exits -> {"none", "pending", "resolved"}]
    BY DEF Memory
  <1>3. trades \in Nat
    <2>1. confirmed \in SUBSET Exits
      OBVIOUS
    <2>2. Cardinality(confirmed) \in Nat
      BY <2>1, ExitsFinite, FS_Subset, FS_CardinalityType
    <2>3. m.trades \in Nat
      BY DEF Memory
    <2> HIDE DEF confirmed
    <2>4. QED
      BY <2>2, <2>3
  <1> HIDE DEF ledger, trades
  <1>4. QED
    BY <1>1, <1>2, <1>3 DEF Memory, SameTracker

\* One loop's reconciliation of the memory.
LEMMA ReconciledTracker ==
    ASSUME ManagedTypeOK, NEW n, n = ExitsReconciled(Pruned(PartialReconciled(mem)))
    PROVE  /\ n \in Memory
           /\ \E p \in Memory : Resolves(mem, p) /\ Prunes(p, n)
  <1>1. mem \in Memory
    BY DEF ManagedTypeOK
  <1>2. PartialReconciled(mem) \in Memory /\ Resolves(mem, PartialReconciled(mem))
    BY <1>1, PartialReconciledTracker
  <1>3. PICK p \in Memory : p = PartialReconciled(mem) /\ Resolves(mem, p)
    BY <1>2
  <1>4. PICK q \in Memory : q = Pruned(p) /\ Prunes(p, q)
    BY PrunedTracker
  <1>5. n \in Memory /\ SameTracker(q, n)
    BY <1>3, <1>4, ExitsReconciledTracker
  <1>6. Prunes(p, n)
    BY <1>4, <1>5 DEF Prunes, SameTracker
  <1>7. QED
    BY <1>3, <1>5, <1>6

\* A nonempty set of naturals has a least element.
LEMMA LeastNatural ==
    ASSUME NEW S \in SUBSET Nat, S # {}
    PROVE  \E x \in S : \A y \in S : x <= y
  <1> DEFINE R == {ss \in Nat \X Nat : ss[1] < ss[2]}
  <1>1. IsWellFoundedOn(R, Nat)
    BY NatLessThanWellFounded, Zenon DEF OpToRel
  <1>2. \E x \in S : \A y \in S : <<y, x>> \notin R
    <2> HIDE DEF R
    <2>1. QED
      BY <1>1, WFMin
  <1>3. PICK x \in S : \A y \in S : <<y, x>> \notin R
    BY <1>2
  <1>4. \A y \in S : x \in Nat /\ y \in Nat /\ ~(y < x)
    <2>1. TAKE y \in S
    <2>2. x \in Nat /\ y \in Nat /\ <<y, x>> \in Nat \X Nat
      OBVIOUS
    <2>3. QED
      BY <1>3, <2>2
  <1>5. \A y \in S : x <= y
    <2> HIDE DEF R
    <2>1. QED
      BY <1>4
  <1>6. QED
    BY <1>5

\* Among partial closes one is the earliest and one the latest.
LEMMA EarliestAndLatest ==
    ASSUME NEW S \in SUBSET Partials, S # {}
    PROVE  Earliest(S) \in S /\ Latest(S) \in S
  <1> DEFINE bars == {c.bar : c \in S}
             left == {MaxBar - c.bar : c \in S}
  <1>1. \A c \in S : c.bar \in Nat /\ MaxBar - c.bar \in Nat
    BY ManagedAssumption, KindsOfIds
  <1>2. bars \in SUBSET Nat /\ bars # {} /\ left \in SUBSET Nat /\ left # {}
    BY <1>1
  <1>3. (\E x \in bars : \A y \in bars : x <= y) /\ \E x \in left : \A y \in left : x <= y
    <2> HIDE DEF bars, left
    <2>1. QED
      BY <1>2, LeastNatural
  <1>4. \E c \in S : \A d \in S : c.bar <= d.bar
    BY <1>3
  <1>5. \E c \in S : \A d \in S : d.bar <= c.bar
    <2>1. PICK c \in S : \A d \in S : MaxBar - c.bar <= MaxBar - d.bar
      BY <1>3
    <2>2. QED
      BY <1>1, <2>1, ManagedAssumption
  <1>6. QED
    BY <1>4, <1>5 DEF Earliest, Latest

\* What boot makes of the saved tracker.
LEMMA HydratedTracker ==
    ASSUME ManagedTypeOK, NEW n, n = Hydrated
    PROVE  /\ n \in Memory
           /\ n.count = saved.count + Cardinality(NewsAcked)
           /\ n.settled = saved.settled \cup NewsOver
           /\ n.cool = IF NewsAcked = {} THEN saved.cool ELSE Latest(NewsAcked)
           /\ NewsWaiting # {} => /\ n.pend = Earliest(NewsWaiting)
                                  /\ n.pendLots = context[Earliest(NewsWaiting)]
           /\ NewsWaiting = {} => /\ n.pend = IF saved.pend \in NewsAcked THEN NoId ELSE saved.pend
                                  /\ n.pendLots = saved.pendLots
  <1> DEFINE l == HydratedLedger(saved.ledger)
             k == saved.count + Cardinality(NewsAcked)
             s == saved.settled \cup NewsOver
             o == IF NewsAcked = {} THEN saved.cool ELSE Latest(NewsAcked)
             p == IF NewsWaiting # {} THEN Earliest(NewsWaiting)
                  ELSE IF saved.pend \in NewsAcked THEN NoId ELSE saved.pend
             q == IF NewsWaiting = {} THEN saved.pendLots ELSE context[Earliest(NewsWaiting)]
             i == IF NewsWaiting = {} THEN saved.missing ELSE 0
  <1>1. saved \in Memory /\ context \in [Ids -> 0..InitialLots]
    BY DEF ManagedTypeOK
  <1>2. n = [saved EXCEPT !.ledger = l, !.count = k, !.settled = s, !.cool = o,
                          !.pend = p, !.pendLots = q, !.missing = i]
    BY DEF Hydrated
  <1>3. /\ NewsAcked \in SUBSET Partials /\ NewsOver \in SUBSET Partials
        /\ NewsWaiting \in SUBSET Partials
    BY DEF NewsAcked, NewsOver, NewsWaiting
  <1>4. l \in [Exits -> {"none", "pending", "resolved"}]
    BY <1>1 DEF HydratedLedger, Memory
  <1>5. k \in Nat
    <2>1. Cardinality(NewsAcked) \in Nat
      BY <1>3, PartialsFinite, FS_Subset, FS_CardinalityType
    <2>2. saved.count \in Nat
      BY <1>1 DEF Memory
    <2>3. QED
      BY <2>1, <2>2
  <1>6. s \in SUBSET Partials
    BY <1>1, <1>3 DEF Memory
  <1>7. o \in Partials \cup {NoId}
    BY <1>1, <1>3, EarliestAndLatest DEF Memory
  <1>8. p \in Partials \cup {NoId}
    BY <1>1, <1>3, EarliestAndLatest DEF Memory
  <1>9. q \in Nat
    <2>1. CASE NewsWaiting = {}
      BY <1>1, <2>1 DEF Memory
    <2>2. CASE NewsWaiting # {}
      <3>1. Earliest(NewsWaiting) \in Ids
        BY <1>3, <2>2, EarliestAndLatest, KindsOfIds
      <3>2. context[Earliest(NewsWaiting)] \in 0..InitialLots
        BY <1>1, <3>1
      <3>3. QED
        BY <2>2, <3>2, ManagedAssumption
    <2>3. QED
      BY <2>1, <2>2
  <1>10. i \in 0..(AbsenceGrace - 1)
    BY <1>1, ManagedAssumption DEF Memory
  <1>11. /\ NewsWaiting # {} => p = Earliest(NewsWaiting) /\ q = context[Earliest(NewsWaiting)]
         /\ NewsWaiting = {} => /\ p = IF saved.pend \in NewsAcked THEN NoId ELSE saved.pend
                                /\ q = saved.pendLots
    OBVIOUS
  <1> HIDE DEF l, k, s, o, p, q, i
  <1>12. /\ n \in Memory
         /\ n.count = k /\ n.settled = s /\ n.cool = o /\ n.pend = p /\ n.pendLots = q
    BY <1>1, <1>2, <1>4, <1>5, <1>6, <1>7, <1>8, <1>9, <1>10 DEF Memory
  <1>13. QED
    BY <1>11, <1>12 DEF k, s, o

\* ManagedTypeOK, with the fact that an acknowledgement names its command.
ManagedTypes == ManagedTypeOK /\ (owed = NoAck \/ owed.id \in Ids)

\* What a written row does to the book and to the watermark.
LEMMA RowsStampedEffect ==
    ASSUME ManagedTypeOK, NEW S \in SUBSET Ids, RowsStamped(S)
    PROVE  /\ book' \in [lots : 0..InitialLots, new : BOOLEAN, after : SUBSET Ids]
           /\ changed' \in [loop : SUBSET Ids, mark : SUBSET Ids]
           /\ book'.lots = book.lots /\ book'.after = book.after \ S
           /\ changed'.mark = changed.mark \cup S
  <1>1. /\ book' = [book EXCEPT !.after = book.after \ S]
        /\ changed' = [loop |-> IF InLoop THEN changed.loop \cup S ELSE {},
                       mark |-> changed.mark \cup S]
    BY DEF RowsStamped
  <1>2. /\ book \in [lots : 0..InitialLots, new : BOOLEAN, after : SUBSET Ids]
        /\ changed \in [loop : SUBSET Ids, mark : SUBSET Ids]
    BY DEF ManagedTypeOK
  <1>3. (IF InLoop THEN changed.loop \cup S ELSE {}) \in SUBSET Ids
    BY <1>2
  <1>4. QED
    BY <1>1, <1>2, <1>3

\* The same, with the view of a loop that reads it later.
LEMMA RowsWrittenEffect ==
    ASSUME ManagedTypeOK, NEW S \in SUBSET Ids, RowsWritten(S)
    PROVE  /\ book' \in [lots : 0..InitialLots, new : BOOLEAN, after : SUBSET Ids]
           /\ changed' \in [loop : SUBSET Ids, mark : SUBSET Ids]
           /\ book'.lots = book.lots /\ book'.after = book.after \ S
           /\ changed'.mark = changed.mark \cup S
           /\ view' \in [lots : 0..InitialLots, advanced : BOOLEAN, after : SUBSET Ids]
           /\ view'.lots = view.lots /\ view'.after = view.after \ S
  <1>1. RowsStamped(S) /\ view' = [view EXCEPT !.after = view.after \ S]
    BY DEF RowsWritten
  <1>2. view \in [lots : 0..InitialLots, advanced : BOOLEAN, after : SUBSET Ids]
    BY DEF ManagedTypeOK
  <1>3. /\ view' \in [lots : 0..InitialLots, advanced : BOOLEAN, after : SUBSET Ids]
        /\ view'.lots = view.lots /\ view'.after = view.after \ S
    BY <1>1, <1>2
  <1>4. QED
    BY <1>1, <1>3, RowsStampedEffect

\* The initial state has its types.
LEMMA ManagedTypesInit == ManagedInit => ManagedTypes
  <1> SUFFICES ASSUME ManagedInit PROVE ManagedTypes
    OBVIOUS
  <1>1. lots \in 0..InitialLots /\ bar \in 1..MaxBar /\ crashes \in 0..MaxCrashes
    BY ManagedAssumption DEF ManagedInit
  <1>2. /\ cmd \in [Ids -> CmdStatus] /\ context \in [Ids -> 0..InitialLots]
        /\ owed \in [id : Ids \cup {NoId}, ok : BOOLEAN] /\ owed = NoAck
    BY ManagedAssumption DEF ManagedInit, CmdStatus, NoAck
  <1>3. /\ book \in [lots : 0..InitialLots, new : BOOLEAN, after : SUBSET Ids]
        /\ view \in [lots : 0..InitialLots, advanced : BOOLEAN, after : SUBSET Ids]
    BY ManagedAssumption DEF ManagedInit, NoView
  <1>4. /\ pc \in {"down", "purge", "idle", "reconcile", "submit", "save", "touch"}
        /\ lastKey \in [kind : {"exit", "partial", "tighten", "none"}, bar : 0..MaxBar]
        /\ changed \in [loop : SUBSET Ids, mark : SUBSET Ids]
        /\ done \in [executed : SUBSET Ids, retried : SUBSET Ids]
    BY ManagedAssumption DEF ManagedInit, NoKey
  <1>5. mem \in Memory /\ saved \in Memory
    BY NoMemoryType DEF ManagedInit
  <1>6. QED
    BY <1>1, <1>2, <1>3, <1>4, <1>5 DEF ManagedTypes, ManagedTypeOK

\* The steps of the queue, the EA, the broker and the clock keep the types.
LEMMA WorldTypes ==
    ASSUME ManagedTypes,
           \/ \E c \in Ids : Deliver(c) \/ Expire(c)
           \/ AckArrives \/ AckLost \/ StoppedOut \/ PostSnapshot \/ NewBar
    PROVE  ManagedTypes'
  <1>1. ManagedTypeOK /\ (owed = NoAck \/ owed.id \in Ids)
    BY DEF ManagedTypes
  <1>2. NoAck \in [id : Ids \cup {NoId}, ok : BOOLEAN]
    BY DEF NoAck
  <1>3. ASSUME NEW c \in Ids, Deliver(c) PROVE ManagedTypes'
    <2>1. /\ cmd' = [cmd EXCEPT ![c] = "delivered"] /\ RowsWritten({c})
          /\ UNCHANGED <<context, bar, pc, mem, lastKey, saved, crashes>>
      BY <1>3 DEF Deliver
    <2>2. cmd' \in [Ids -> CmdStatus]
      BY <1>1, <2>1 DEF ManagedTypeOK, CmdStatus
    <2>3. /\ lots' \in 0..InitialLots
          /\ owed' \in [id : Ids \cup {NoId}, ok : BOOLEAN] /\ (owed' = NoAck \/ owed'.id \in Ids)
          /\ done' \in [executed : SUBSET Ids, retried : SUBSET Ids]
      <3>1. \/ UNCHANGED <<lots, owed, done>>
            \/ owed' = [id |-> c, ok |-> FALSE] /\ UNCHANGED <<lots, done>>
            \/ /\ lots > 0 /\ owed' = [id |-> c, ok |-> TRUE]
               /\ lots' = IF c \in Exits THEN 0 ELSE lots - 1
               /\ done' = [done EXCEPT !.executed = done.executed \cup {c}]
        BY <1>3 DEF Deliver
      <3>2. CASE UNCHANGED <<lots, owed, done>>
        BY <1>1, <3>2 DEF ManagedTypeOK
      <3>3. CASE owed' = [id |-> c, ok |-> FALSE] /\ UNCHANGED <<lots, done>>
        BY <1>1, <3>3 DEF ManagedTypeOK
      <3>4. CASE /\ lots > 0 /\ owed' = [id |-> c, ok |-> TRUE]
                 /\ lots' = IF c \in Exits THEN 0 ELSE lots - 1
                 /\ done' = [done EXCEPT !.executed = done.executed \cup {c}]
        BY <1>1, <3>4, ManagedAssumption DEF ManagedTypeOK
      <3>5. QED
        BY <3>1, <3>2, <3>3, <3>4
    <2>4. QED
      BY <1>1, <2>1, <2>2, <2>3, RowsWrittenEffect DEF ManagedTypes, ManagedTypeOK
  <1>4. ASSUME NEW c \in Ids, Expire(c) PROVE ManagedTypes'
    <2>1. /\ cmd' = [cmd EXCEPT ![c] = Expired(c)] /\ RowsWritten({c})
          /\ UNCHANGED <<lots, context, owed, bar, pc, mem, lastKey, saved, crashes, done>>
      BY <1>4 DEF Expire
    <2>2. cmd' \in [Ids -> CmdStatus]
      BY <1>1, <2>1 DEF ManagedTypeOK, CmdStatus, Expired
    <2>3. QED
      BY <1>1, <2>1, <2>2, RowsWrittenEffect DEF ManagedTypes, ManagedTypeOK
  <1>5. ASSUME AckArrives PROVE ManagedTypes'
    <2>1. PICK s \in {"ended", IF owed.ok THEN "acked" ELSE "ended"} :
            cmd' = [cmd EXCEPT ![owed.id] = s]
      BY <1>5 DEF AckArrives
    <2>2. /\ owed.id \in Ids /\ RowsWritten({owed.id}) /\ owed' = NoAck
          /\ UNCHANGED <<lots, context, bar, pc, mem, lastKey, saved, crashes, done>>
      BY <1>1, <1>5 DEF AckArrives
    <2>3. s \in CmdStatus
      BY DEF CmdStatus
    <2>4. cmd' \in [Ids -> CmdStatus]
      BY <1>1, <2>1, <2>3 DEF ManagedTypeOK
    <2>5. QED
      BY <1>1, <1>2, <2>2, <2>4, RowsWrittenEffect DEF ManagedTypes, ManagedTypeOK
  <1>6. ASSUME AckLost PROVE ManagedTypes'
    BY <1>1, <1>2, <1>6 DEF AckLost, ManagedTypes, ManagedTypeOK
  <1>7. ASSUME StoppedOut PROVE ManagedTypes'
    <2>1. lots' \in 0..InitialLots
      BY <1>7, ManagedAssumption DEF StoppedOut
    <2>2. QED
      BY <1>1, <1>7, <2>1 DEF StoppedOut, ManagedTypes, ManagedTypeOK
  <1>8. ASSUME PostSnapshot PROVE ManagedTypes'
    <2>1. book' \in [lots : 0..InitialLots, new : BOOLEAN, after : SUBSET Ids]
      BY <1>1, <1>8 DEF PostSnapshot, ManagedTypeOK
    <2>2. QED
      BY <1>1, <1>8, <2>1 DEF PostSnapshot, ManagedTypes, ManagedTypeOK
  <1>9. ASSUME NewBar PROVE ManagedTypes'
    <2>1. bar' \in 1..MaxBar
      BY <1>1, <1>9, ManagedAssumption DEF NewBar, ManagedTypeOK
    <2>2. lastKey' \in [kind : {"exit", "partial", "tighten", "none"}, bar : 0..MaxBar]
      BY <1>9, ManagedAssumption DEF NewBar, NoKey
    <2>3. QED
      BY <1>1, <1>9, <2>1, <2>2 DEF NewBar, ManagedTypes, ManagedTypeOK
  <1>10. QED
    BY <1>3, <1>4, <1>5, <1>6, <1>7, <1>8, <1>9

\* _submit_position_actions remembers the partial close it enqueued.
LEMMA PartialRemembered ==
    ASSUME NEW m \in Memory, NEW c \in Partials, NEW k \in Nat, NEW n,
           n = [m EXCEPT !.pend = c, !.pendLots = k, !.missing = 0]
    PROVE  n \in Memory
  <1>1. 0 \in 0..(AbsenceGrace - 1)
    BY ManagedAssumption
  <1>2. QED
    BY <1>1 DEF Memory

\* What submit_command does to the rows.
LEMMA EnqueuedEffect ==
    ASSUME ManagedTypeOK, NEW c \in Ids, Enqueued(c), Accepts(c)
    PROVE  /\ cmd' \in [Ids -> CmdStatus]
           /\ book' \in [lots : 0..InitialLots, new : BOOLEAN, after : SUBSET Ids]
           /\ changed' \in [loop : SUBSET Ids, mark : SUBSET Ids]
           /\ context' \in [Ids -> 0..InitialLots]
           /\ done' \in [executed : SUBSET Ids, retried : SUBSET Ids]
           /\ done'.executed = done.executed /\ done.retried \subseteq done'.retried
           /\ book'.lots = book.lots /\ book'.after \subseteq book.after
           /\ \/ /\ cmd[c] \in {"queued", "delivered"}
                 /\ UNCHANGED <<cmd, book, changed, context>>
              \/ /\ cmd[c] \in {"absent", "expired"}
                 /\ cmd' = [cmd EXCEPT ![c] = "queued"]
                 /\ book'.after = book.after \ {c}
                 /\ changed'.mark = changed.mark \cup {c}
                 /\ context' = [context EXCEPT ![c] = view.lots]
                 /\ cmd[c] = "expired" => c \in done'.retried
  <1>1. /\ cmd \in [Ids -> CmdStatus] /\ context \in [Ids -> 0..InitialLots]
        /\ book \in [lots : 0..InitialLots, new : BOOLEAN, after : SUBSET Ids]
        /\ changed \in [loop : SUBSET Ids, mark : SUBSET Ids]
        /\ done \in [executed : SUBSET Ids, retried : SUBSET Ids]
        /\ view.lots \in 0..InitialLots
    BY DEF ManagedTypeOK
  <1>2. /\ done' \in [executed : SUBSET Ids, retried : SUBSET Ids]
        /\ done'.executed = done.executed /\ done.retried \subseteq done'.retried
        /\ cmd[c] = "expired" => c \in done'.retried
    <2>1. /\ cmd[c] = "expired" => done' = [done EXCEPT !.retried = done.retried \cup {c}]
          /\ cmd[c] # "expired" => done' = done
      BY DEF Enqueued
    <2>2. QED
      BY <1>1, <2>1
  <1>3. CASE cmd[c] \in {"queued", "delivered"}
    <2>1. UNCHANGED <<cmd, book, changed, context>>
      BY <1>3 DEF Enqueued
    <2>2. QED
      BY <1>1, <1>2, <1>3, <2>1
  <1>4. CASE cmd[c] \notin {"queued", "delivered"}
    <2>1. cmd[c] \in {"absent", "expired"}
      BY <1>4 DEF Accepts
    <2>2. /\ cmd' = [cmd EXCEPT ![c] = "queued"] /\ RowsStamped({c})
          /\ context' = [context EXCEPT ![c] = view.lots]
      BY <1>4 DEF Enqueued
    <2>3. cmd' \in [Ids -> CmdStatus] /\ context' \in [Ids -> 0..InitialLots]
      BY <1>1, <2>2 DEF CmdStatus
    <2>4. /\ book' \in [lots : 0..InitialLots, new : BOOLEAN, after : SUBSET Ids]
          /\ changed' \in [loop : SUBSET Ids, mark : SUBSET Ids]
          /\ book'.lots = book.lots /\ book'.after = book.after \ {c}
          /\ changed'.mark = changed.mark \cup {c}
      BY <2>2, RowsStampedEffect
    <2>5. QED
      BY <1>2, <2>1, <2>2, <2>3, <2>4
  <1>5. QED
    BY <1>3, <1>4

\* What purge_pending_commands and quarantine_stale_delivered do to the rows.
LEMMA PurgeEffect ==
    ASSUME ManagedTypeOK, Purge
    PROVE  /\ pc = "purge" /\ pc' = "idle"
           /\ UNCHANGED <<lots, context, owed, bar, mem, lastKey, saved, crashes, done>>
           /\ cmd' \in [Ids -> CmdStatus]
           /\ \A c \in Ids : \/ cmd'[c] = cmd[c] /\ cmd[c] # "queued"
                             \/ cmd[c] = "queued" /\ cmd'[c] = "expired"
                             \/ cmd[c] = "delivered" /\ cmd'[c] = "ended"
           /\ book' \in [lots : 0..InitialLots, new : BOOLEAN, after : SUBSET Ids]
           /\ changed' \in [loop : SUBSET Ids, mark : SUBSET Ids]
           /\ view' \in [lots : 0..InitialLots, advanced : BOOLEAN, after : SUBSET Ids]
           /\ book'.lots = book.lots /\ book'.after \subseteq book.after
           /\ view'.lots = view.lots /\ view'.after \subseteq view.after
           /\ changed.mark \subseteq changed'.mark
  <1>1. PICK old \in SUBSET {c \in Ids : cmd[c] = "delivered"} :
          /\ cmd' = [c \in Ids |-> IF c \in old \cup {d \in Ids : cmd[d] = "queued"}
                                   THEN Expired(c) ELSE cmd[c]]
          /\ RowsWritten(old \cup {d \in Ids : cmd[d] = "queued"})
    BY DEF Purge
  <1> DEFINE over == old \cup {d \in Ids : cmd[d] = "queued"}
  <1>2. over \in SUBSET Ids
    OBVIOUS
  <1>3. \A c \in Ids : \/ cmd'[c] = cmd[c] /\ cmd[c] # "queued"
                       \/ cmd[c] = "queued" /\ cmd'[c] = "expired"
                       \/ cmd[c] = "delivered" /\ cmd'[c] = "ended"
    BY <1>1 DEF Expired
  <1>4. cmd' \in [Ids -> CmdStatus]
    <2>1. cmd \in [Ids -> CmdStatus]
      BY DEF ManagedTypeOK
    <2>2. QED
      BY <1>1, <2>1 DEF Expired, CmdStatus
  <1>5. RowsWritten(over)
    BY <1>1
  <1> HIDE DEF over
  <1>6. QED
    BY <1>2, <1>3, <1>4, <1>5, RowsWrittenEffect DEF Purge

\* The steps of the runner keep the types.
LEMMA RunnerTypes ==
    ASSUME ManagedTypes, Cycle \/ Crash \/ CooldownOver
    PROVE  ManagedTypes'
  <1>1. ManagedTypeOK /\ (owed = NoAck \/ owed.id \in Ids)
    BY DEF ManagedTypes
  <1>2. NoView \in [lots : 0..InitialLots, advanced : BOOLEAN, after : SUBSET Ids]
    BY ManagedAssumption DEF NoView
  <1>3. NoKey \in [kind : {"exit", "partial", "tighten", "none"}, bar : 0..MaxBar]
    BY ManagedAssumption DEF NoKey
  <1>4. /\ book \in [lots : 0..InitialLots, new : BOOLEAN, after : SUBSET Ids]
        /\ changed \in [loop : SUBSET Ids, mark : SUBSET Ids]
        /\ mem \in Memory /\ saved \in Memory
    BY <1>1 DEF ManagedTypeOK
  <1>5. [book EXCEPT !.new = FALSE] \in [lots : 0..InitialLots, new : BOOLEAN, after : SUBSET Ids]
    BY <1>4
  <1>6. /\ [changed EXCEPT !.mark = {}] \in [loop : SUBSET Ids, mark : SUBSET Ids]
        /\ [changed EXCEPT !.loop = {}] \in [loop : SUBSET Ids, mark : SUBSET Ids]
        /\ [loop |-> {}, mark |-> {}] \in [loop : SUBSET Ids, mark : SUBSET Ids]
        /\ [loop |-> {}, mark |-> changed.loop] \in [loop : SUBSET Ids, mark : SUBSET Ids]
    BY <1>4
  <1>7. CASE LoopRead
    <2>1. view' \in [lots : 0..InitialLots, advanced : BOOLEAN, after : SUBSET Ids]
      BY <1>4, <1>7 DEF LoopRead
    <2>2. QED
      BY <1>1, <1>5, <1>6, <1>7, <2>1 DEF LoopRead, ManagedTypes, ManagedTypeOK
  <1>8. CASE Reconcile
    <2>1. mem' \in Memory
      <3>1. mem' = ExitsReconciled(Pruned(PartialReconciled(mem)))
        BY <1>8 DEF Reconcile
      <3>2. QED
        BY <1>1, <3>1, ReconciledTracker
    <2>2. changed' \in [loop : SUBSET Ids, mark : SUBSET Ids]
      <3>1. PICK touched \in BOOLEAN :
              changed' = [changed EXCEPT !.mark = IF touched THEN {} ELSE changed.mark]
        BY <1>8 DEF Reconcile
      <3>2. QED
        BY <1>4, <3>1
    <2>3. QED
      BY <1>1, <1>8, <2>1, <2>2 DEF Reconcile, ManagedTypes, ManagedTypeOK
  <1>9. ASSUME NEW c \in Exits, SubmitExit(c) PROVE ManagedTypes'
    <2>1. /\ pc' = "save" /\ view' = NoView /\ Accepts(c) /\ Enqueued(c) /\ lastKey' = c
          /\ mem' = [mem EXCEPT !.ledger = [mem.ledger EXCEPT ![c] = "pending"]]
          /\ UNCHANGED <<lots, owed, bar, saved, crashes>>
      BY <1>9 DEF SubmitExit
    <2>2. c \in Ids
      BY KindsOfIds
    <2>3. c \in [kind : {"exit", "partial", "tighten", "none"}, bar : 0..MaxBar]
      BY <2>2, ManagedAssumption
    <2>4. mem' \in Memory
      <3>1. [mem.ledger EXCEPT ![c] = "pending"] \in [Exits -> {"none", "pending", "resolved"}]
        BY <1>4 DEF Memory
      <3>2. QED
        BY <1>4, <2>1, <3>1 DEF Memory
    <2>5. QED
      BY <1>1, <1>2, <2>1, <2>2, <2>3, <2>4, EnqueuedEffect DEF ManagedTypes, ManagedTypeOK
  <1>10. ASSUME NEW c \in Partials, SubmitPartial(c) PROVE ManagedTypes'
    <2>1. /\ pc' = "save" /\ view' = NoView /\ Accepts(c) /\ Enqueued(c) /\ lastKey' = c
          /\ mem' = [mem EXCEPT !.pend = c, !.pendLots = view.lots, !.missing = 0]
          /\ UNCHANGED <<lots, owed, bar, saved, crashes>>
      BY <1>10 DEF SubmitPartial
    <2>2. c \in Ids
      BY KindsOfIds
    <2>3. c \in [kind : {"exit", "partial", "tighten", "none"}, bar : 0..MaxBar]
      BY <2>2, ManagedAssumption
    <2>4. view.lots \in Nat
      BY <1>1, ManagedAssumption DEF ManagedTypeOK
    <2>5. mem' \in Memory
      BY <1>4, <2>1, <2>4, PartialRemembered
    <2>6. QED
      BY <1>1, <1>2, <2>1, <2>2, <2>3, <2>5, EnqueuedEffect DEF ManagedTypes, ManagedTypeOK
  <1>11. CASE SubmitTighten
    <2>1. lastKey' \in [kind : {"exit", "partial", "tighten", "none"}, bar : 0..MaxBar]
      BY <1>1, <1>11, ManagedAssumption DEF SubmitTighten, ManagedTypeOK
    <2>2. QED
      BY <1>1, <1>2, <1>11, <2>1 DEF SubmitTighten, ManagedTypes, ManagedTypeOK
  <1>12. CASE SubmitNothing
    BY <1>1, <1>2, <1>12 DEF SubmitNothing, ManagedTypes, ManagedTypeOK
  <1>13. CASE Save
    BY <1>1, <1>6, <1>13 DEF Save, ManagedTypes, ManagedTypeOK
  <1>14. CASE Touch
    BY <1>1, <1>6, <1>14 DEF Touch, ManagedTypes, ManagedTypeOK
  <1>15. CASE Boot
    <2>1. Hydrated \in Memory
      BY <1>1, HydratedTracker
    <2>2. QED
      BY <1>1, <1>5, <1>6, <1>15, <2>1 DEF Boot, ManagedTypes, ManagedTypeOK
  <1>16. CASE Purge
    BY <1>1, <1>16, PurgeEffect DEF ManagedTypes, ManagedTypeOK
  <1>17. CASE Crash
    <2>1. crashes' \in 0..MaxCrashes
      BY <1>1, <1>17, ManagedAssumption DEF Crash, ManagedTypeOK
    <2>2. QED
      BY <1>1, <1>2, <1>3, <1>6, <1>17, <2>1, NoMemoryType DEF Crash, ManagedTypes, ManagedTypeOK
  <1>18. CASE CooldownOver
    <2>1. mem' \in Memory /\ saved' \in Memory
      BY <1>4, <1>18 DEF CooldownOver, Memory
    <2>2. QED
      BY <1>1, <1>18, <2>1 DEF CooldownOver, ManagedTypes, ManagedTypeOK
  <1>19. QED
    BY <1>7, <1>8, <1>9, <1>10, <1>11, <1>12, <1>13, <1>14, <1>15, <1>16, <1>17, <1>18 DEF Cycle

\* Every step keeps the types.
LEMMA ManagedTypesStep == ManagedTypes /\ [ManagedNext]_managedVars => ManagedTypes'
  <1> SUFFICES ASSUME ManagedTypes, [ManagedNext]_managedVars PROVE ManagedTypes'
    OBVIOUS
  <1>1. CASE ManagedNext
    BY <1>1, WorldTypes, RunnerTypes DEF ManagedNext
  <1>2. CASE UNCHANGED managedVars
    BY <1>2 DEF managedVars, ManagedTypes, ManagedTypeOK
  <1>3. QED
    BY <1>1, <1>2

\* The memory, the rows, the book and the loop's view have their types in
\* every state of the runner, the queue and the EA, for every set of commands.
THEOREM ManagedTyped == ManagedSpec => []ManagedTypeOK
  <1>1. ManagedTypes => ManagedTypeOK
    BY DEF ManagedTypes
  <1>2. QED
    BY <1>1, ManagedTypesInit, ManagedTypesStep, PTL DEF ManagedSpec
-----------------------------------------------------------------------------
(* What the rows, the acknowledgement and the book say of the broker        *)

\* The loop has read its view of the state and may still use it.
Reading == pc \in {"reconcile", "submit"}

\* A row is acknowledged only of an executed command, and is neither absent,
\* nor waiting, nor expired undelivered of one; the broker has at most the lots
\* of the book, and the book at most those of the loop's view.
BrokerFacts ==
    /\ \A c \in Ids : cmd[c] = "acked" => c \in done.executed
    /\ \A c \in Ids : cmd[c] \in {"absent", "queued", "expired"} => c \notin done.executed
    /\ owed.ok => owed.id \in done.executed
    /\ owed.id \in Ids => cmd[owed.id] # "absent"
    /\ lots <= book.lots
    /\ Reading => book.lots <= view.lots

\* A step of the queue, the EA, the broker or the clock that executes no
\* command: rows change by delivery, expiry or acknowledgement, the position
\* may be stopped out, the book is older or shows the broker's lots.
Quiet ==
    /\ UNCHANGED <<mem, saved, pc, crashes, context, done>>
    /\ lots' \in {lots, 0}
    /\ bar' \in Nat /\ bar <= bar'
    /\ view'.lots = view.lots /\ view'.after \subseteq view.after
    /\ \/ book'.lots = book.lots /\ book'.after \subseteq book.after
       \/ book'.lots = lots /\ lots' = lots
    /\ changed.mark \subseteq changed'.mark
    /\ owed'.ok => owed' = owed
    /\ owed'.id \in Ids => owed' = owed \/ cmd'[owed'.id] = "delivered"
    /\ \A c \in Ids : \/ cmd'[c] = cmd[c]
                      \/ cmd[c] = "queued" /\ cmd'[c] \in {"delivered", "expired"}
                      \/ cmd[c] # "absent" /\ cmd'[c] = "ended"
                      \/ cmd[c] # "absent" /\ cmd'[c] = "acked" /\ owed.ok /\ c = owed.id

\* The EA receives command c and the broker executes it.
Executes(c) ==
    /\ UNCHANGED <<mem, saved, pc, crashes, context, bar>>
    /\ cmd[c] = "queued" /\ cmd' = [cmd EXCEPT ![c] = "delivered"]
    /\ lots > 0 /\ lots' = IF c \in Exits THEN 0 ELSE lots - 1
    /\ owed' = [id |-> c, ok |-> TRUE]
    /\ done'.executed = done.executed \cup {c} /\ done'.retried = done.retried
    /\ view'.lots = view.lots /\ view'.after = view.after \ {c}
    /\ book'.lots = book.lots /\ book'.after = book.after \ {c}
    /\ changed'.mark = changed.mark \cup {c}

\* Every step of the world is one or the other.
LEMMA WorldSteps ==
    ASSUME ManagedTypes, BrokerFacts,
           \/ \E c \in Ids : Deliver(c) \/ Expire(c)
           \/ AckArrives \/ AckLost \/ StoppedOut \/ PostSnapshot \/ NewBar
    PROVE  Quiet \/ \E c \in Ids : Executes(c)
  <1>1. ManagedTypeOK /\ (owed = NoAck \/ owed.id \in Ids)
    BY DEF ManagedTypes
  <1>2. /\ cmd \in [Ids -> CmdStatus] /\ bar \in Nat /\ lots \in Int
        /\ done \in [executed : SUBSET Ids, retried : SUBSET Ids]
    BY <1>1, ManagedAssumption DEF ManagedTypeOK
  <1>3. ~NoAck.ok /\ NoAck.id \notin Ids
    BY KindsOfIds DEF NoAck
  <1>4. ASSUME NEW c \in Ids, Deliver(c) PROVE Quiet \/ Executes(c)
    <2>1. /\ cmd[c] = "queued" /\ cmd' = [cmd EXCEPT ![c] = "delivered"] /\ RowsWritten({c})
          /\ UNCHANGED <<context, bar, pc, mem, saved, crashes>>
      BY <1>4 DEF Deliver
    <2>2. /\ book'.lots = book.lots /\ book'.after = book.after \ {c}
          /\ view'.lots = view.lots /\ view'.after = view.after \ {c}
          /\ changed'.mark = changed.mark \cup {c}
      BY <1>1, <2>1, RowsWrittenEffect
    <2>3. \A d \in Ids : cmd'[d] = cmd[d] \/ (d = c /\ cmd'[d] = "delivered")
      BY <1>2, <2>1
    <2>4. CASE UNCHANGED <<lots, owed, done>>
      BY <1>2, <2>1, <2>2, <2>3, <2>4 DEF Quiet
    <2>5. CASE owed' = [id |-> c, ok |-> FALSE] /\ UNCHANGED <<lots, done>>
      BY <1>2, <2>1, <2>2, <2>3, <2>5 DEF Quiet
    <2>6. CASE /\ lots > 0 /\ owed' = [id |-> c, ok |-> TRUE]
               /\ lots' = IF c \in Exits THEN 0 ELSE lots - 1
               /\ done' = [done EXCEPT !.executed = done.executed \cup {c}]
      <3>1. done'.executed = done.executed \cup {c} /\ done'.retried = done.retried
        BY <1>2, <2>6
      <3>2. QED
        BY <2>1, <2>2, <2>6, <3>1 DEF Executes
    <2>7. QED
      BY <1>4, <2>4, <2>5, <2>6 DEF Deliver
  <1>5. ASSUME NEW c \in Ids, Expire(c) PROVE Quiet
    <2>1. /\ cmd[c] \in {"queued", "delivered"} /\ RowsWritten({c})
          /\ cmd' = [cmd EXCEPT ![c] = Expired(c)]
          /\ UNCHANGED <<lots, context, owed, bar, pc, mem, saved, crashes, done>>
      BY <1>5 DEF Expire
    <2>2. \A d \in Ids : \/ cmd'[d] = cmd[d]
                         \/ cmd[d] = "queued" /\ cmd'[d] = "expired"
                         \/ cmd[d] = "delivered" /\ cmd'[d] = "ended"
      BY <1>2, <2>1 DEF Expired
    <2>3. QED
      BY <1>1, <1>2, <2>1, <2>2, RowsWrittenEffect DEF Quiet
  <1>6. ASSUME AckArrives PROVE Quiet
    <2>1. PICK s \in {"ended", IF owed.ok THEN "acked" ELSE "ended"} :
            cmd' = [cmd EXCEPT ![owed.id] = s]
      BY <1>6 DEF AckArrives
    <2>2. /\ owed.id \in Ids /\ RowsWritten({owed.id}) /\ owed' = NoAck
          /\ UNCHANGED <<lots, context, bar, pc, mem, saved, crashes, done>>
      BY <1>1, <1>6 DEF AckArrives
    <2>3. cmd[owed.id] # "absent"
      BY <2>2 DEF BrokerFacts
    <2>4. s = "ended" \/ (s = "acked" /\ owed.ok)
      OBVIOUS
    <2>5. \A d \in Ids : \/ cmd'[d] = cmd[d]
                         \/ cmd[d] # "absent" /\ cmd'[d] = "ended"
                         \/ cmd[d] # "absent" /\ cmd'[d] = "acked" /\ owed.ok /\ d = owed.id
      BY <1>2, <2>1, <2>3, <2>4
    <2>6. QED
      BY <1>1, <1>2, <1>3, <2>2, <2>5, RowsWrittenEffect DEF Quiet
  <1>7. ASSUME AckLost PROVE Quiet
    BY <1>2, <1>3, <1>7 DEF AckLost, Quiet
  <1>8. ASSUME StoppedOut PROVE Quiet
    BY <1>2, <1>8 DEF StoppedOut, Quiet
  <1>9. ASSUME PostSnapshot PROVE Quiet
    BY <1>2, <1>9 DEF PostSnapshot, Quiet
  <1>10. ASSUME NewBar PROVE Quiet
    BY <1>2, <1>10 DEF NewBar, Quiet
  <1>11. QED
    BY <1>4, <1>5, <1>6, <1>7, <1>8, <1>9, <1>10

\* The facts hold at the start.
LEMMA BrokerFactsInit == ManagedInit => BrokerFacts
  <1> SUFFICES ASSUME ManagedInit PROVE BrokerFacts
    OBVIOUS
  <1>1. /\ \A c \in Ids : cmd[c] = "absent"
        /\ done.executed = {} /\ ~owed.ok /\ owed.id = NoId
        /\ book.lots = lots /\ lots \in Nat /\ pc = "idle"
    BY ManagedAssumption DEF ManagedInit, NoAck
  <1>2. QED
    BY <1>1, KindsOfIds DEF BrokerFacts, Reading

\* The world keeps them.
LEMMA BrokerFactsWorld ==
    ASSUME ManagedTypes, BrokerFacts, Quiet \/ \E c \in Ids : Executes(c)
    PROVE  BrokerFacts'
  <1>1. /\ lots \in 0..InitialLots /\ book.lots \in 0..InitialLots /\ view.lots \in 0..InitialLots
        /\ cmd \in [Ids -> CmdStatus] /\ InitialLots \in Nat
    BY ManagedAssumption DEF ManagedTypes, ManagedTypeOK
  <1>2. CASE Quiet
    <2>1. \A c \in Ids : cmd'[c] = "acked" => c \in done'.executed
      BY <1>2 DEF Quiet, BrokerFacts
    <2>2. \A c \in Ids : cmd'[c] \in {"absent", "queued", "expired"} => c \notin done'.executed
      BY <1>2 DEF Quiet, BrokerFacts
    <2>3. owed'.ok => owed'.id \in done'.executed
      BY <1>2 DEF Quiet, BrokerFacts
    <2>4. owed'.id \in Ids => cmd'[owed'.id] # "absent"
      BY <1>2 DEF Quiet, BrokerFacts
    <2>5. lots' <= book'.lots /\ (Reading' => book'.lots <= view'.lots)
      <3>1. /\ lots <= book.lots /\ (Reading => book.lots <= view.lots)
            /\ Reading' <=> Reading
            /\ lots' \in {lots, 0} /\ view'.lots = view.lots
            /\ book'.lots = book.lots \/ (book'.lots = lots /\ lots' = lots)
        BY <1>2 DEF Quiet, BrokerFacts, Reading
      <3>2. QED
        BY <1>1, <3>1
    <2>6. QED
      BY <2>1, <2>2, <2>3, <2>4, <2>5 DEF BrokerFacts
  <1>3. ASSUME NEW c \in Ids, Executes(c) PROVE BrokerFacts'
    <2>1. \A d \in Ids : d # c => cmd'[d] = cmd[d]
      BY <1>1, <1>3 DEF Executes
    <2>2. cmd'[c] = "delivered"
      BY <1>1, <1>3 DEF Executes
    <2>3. \A d \in Ids : cmd'[d] = "acked" => d \in done'.executed
      BY <1>3, <2>1, <2>2 DEF Executes, BrokerFacts
    <2>4. \A d \in Ids : cmd'[d] \in {"absent", "queued", "expired"} => d \notin done'.executed
      BY <1>3, <2>1, <2>2 DEF Executes, BrokerFacts
    <2>5. owed'.id \in done'.executed /\ cmd'[owed'.id] # "absent"
      BY <1>3, <2>2 DEF Executes
    <2>6. lots' <= book'.lots /\ (Reading' => book'.lots <= view'.lots)
      BY <1>1, <1>3 DEF Executes, BrokerFacts, Reading
    <2>7. QED
      BY <2>3, <2>4, <2>5, <2>6 DEF BrokerFacts
  <1>4. QED
    BY <1>2, <1>3

\* What the runner may do to rows: queue, purge and quarantine.
RowsByRunner ==
    \A c \in Ids : \/ cmd'[c] = cmd[c]
                   \/ cmd[c] \in {"absent", "expired"} /\ cmd'[c] = "queued"
                   \/ cmd[c] = "queued" /\ cmd'[c] = "expired"
                   \/ cmd[c] = "delivered" /\ cmd'[c] = "ended"

\* The runner executes nothing, and reads a view no newer than the book.
LEMMA RunnerSteps ==
    ASSUME ManagedTypes, Cycle \/ Crash \/ CooldownOver
    PROVE  /\ UNCHANGED <<lots, owed, bar>> /\ done'.executed = done.executed
           /\ RowsByRunner
           /\ book'.lots = book.lots
           /\ Reading' => (view' = view /\ Reading) \/ view'.lots = book.lots
  <1>1. ManagedTypeOK
    BY DEF ManagedTypes
  <1>2. /\ book \in [lots : 0..InitialLots, new : BOOLEAN, after : SUBSET Ids]
        /\ cmd \in [Ids -> CmdStatus]
    BY <1>1 DEF ManagedTypeOK
  <1>3. [book EXCEPT !.new = FALSE].lots = book.lots
    BY <1>2
  <1>4. cmd' = cmd => RowsByRunner
    BY DEF RowsByRunner
  <1>5. ASSUME NEW c \in Ids, Enqueued(c), Accepts(c)
        PROVE  /\ done'.executed = done.executed /\ book'.lots = book.lots
               /\ RowsByRunner
    <2>1. /\ done'.executed = done.executed /\ book'.lots = book.lots
          /\ cmd' = cmd \/ (cmd[c] \in {"absent", "expired"} /\ cmd' = [cmd EXCEPT ![c] = "queued"])
      BY <1>1, <1>5, EnqueuedEffect
    <2>2. RowsByRunner
      BY <1>2, <2>1 DEF RowsByRunner
    <2>3. QED
      BY <2>1, <2>2
  <1>6. CASE LoopRead
    BY <1>3, <1>4, <1>6 DEF LoopRead, Reading
  <1>7. CASE Reconcile
    BY <1>4, <1>7 DEF Reconcile, Reading
  <1>8. ASSUME NEW c \in Exits, SubmitExit(c)
        PROVE  /\ UNCHANGED <<lots, owed, bar>> /\ ~Reading'
               /\ done'.executed = done.executed /\ RowsByRunner /\ book'.lots = book.lots
    BY <1>5, <1>8, KindsOfIds DEF SubmitExit, Reading
  <1>9. ASSUME NEW c \in Partials, SubmitPartial(c)
        PROVE  /\ UNCHANGED <<lots, owed, bar>> /\ ~Reading'
               /\ done'.executed = done.executed /\ RowsByRunner /\ book'.lots = book.lots
    BY <1>5, <1>9, KindsOfIds DEF SubmitPartial, Reading
  <1>10. CASE SubmitTighten \/ SubmitNothing \/ Save \/ Touch
    BY <1>4, <1>10 DEF SubmitTighten, SubmitNothing, Save, Touch, Reading
  <1>11. CASE Boot \/ Crash
    BY <1>3, <1>4, <1>11 DEF Boot, Crash, Reading
  <1>12. CASE Purge
    <2>1. RowsByRunner
      BY <1>1, <1>12, PurgeEffect DEF RowsByRunner
    <2>2. QED
      BY <1>1, <1>12, <2>1, PurgeEffect DEF Reading
  <1>13. CASE CooldownOver
    BY <1>4, <1>13 DEF CooldownOver, Reading
  <1>14. QED
    BY <1>6, <1>7, <1>8, <1>9, <1>10, <1>11, <1>12, <1>13 DEF Cycle

\* So it keeps the facts.
LEMMA BrokerFactsRunner ==
    ASSUME ManagedTypes, BrokerFacts, Cycle \/ Crash \/ CooldownOver
    PROVE  BrokerFacts'
  <1>1. lots \in 0..InitialLots /\ book.lots \in 0..InitialLots /\ InitialLots \in Nat
    BY ManagedAssumption DEF ManagedTypes, ManagedTypeOK
  <1>2. /\ UNCHANGED <<lots, owed>> /\ done'.executed = done.executed
        /\ RowsByRunner
        /\ book'.lots = book.lots
        /\ Reading' => (view' = view /\ Reading) \/ view'.lots = book.lots
    BY RunnerSteps
  <1>3. \A c \in Ids : cmd'[c] = "acked" => c \in done'.executed
    BY <1>2 DEF BrokerFacts, RowsByRunner
  <1>4. \A c \in Ids : cmd'[c] \in {"absent", "queued", "expired"} => c \notin done'.executed
    BY <1>2 DEF BrokerFacts, RowsByRunner
  <1>5. /\ owed'.ok => owed'.id \in done'.executed
        /\ owed'.id \in Ids => cmd'[owed'.id] # "absent"
    BY <1>2 DEF BrokerFacts, RowsByRunner
  <1>6. lots' <= book'.lots /\ (Reading' => book'.lots <= view'.lots)
    BY <1>1, <1>2 DEF BrokerFacts
  <1>7. QED
    BY <1>3, <1>4, <1>5, <1>6 DEF BrokerFacts
-----------------------------------------------------------------------------
(* The history of partial closes while no runner has crashed                *)

\* The partial closes the broker executed.
Executed == done.executed \cap Partials

\* The position is closed wherever the runner can look.
ClosedInSight == lots = 0 /\ book.lots = 0 /\ (Reading => view.lots = 0)

\* The tracker looks at partial close c: pending, or in its cooldown.
Watched(c) == c \in {mem.pend, mem.cool}

\* A command that can still be executed is pending; an executed one is watched
\* until the clock has left its bar.  As soon as a snapshot postdates what is
\* watched, the book, or the loop's view, shows the broker's lots.
WatchedOrPast ==
    /\ mem.pend # NoId => mem.cool = NoId
    /\ \A c \in Partials : cmd[c] = "queued" /\ lots > 0 => mem.pend = c
    /\ \A c \in Executed : Watched(c) \/ c.bar < bar \/ ClosedInSight
    /\ (\A c \in Executed : Watched(c) => c \in book.after) => lots \in {0, book.lots}
    /\ Reading /\ (\A c \in Executed : Watched(c) => c \in view.after) =>
           lots \in {0, view.lots} /\ book.lots \in {0, view.lots}

\* The lots the pending partial close started from tell whether the broker
\* executed it.
PendingLotsTell ==
    /\ mem.pend \in Partials /\ mem.pend \notin Executed =>
           /\ lots \in {0, mem.pendLots}
           /\ book.lots \in {0, mem.pendLots}
           /\ pc = "reconcile" => view.lots \in {0, mem.pendLots}
    /\ mem.pend \in Executed =>
           /\ lots < mem.pendLots
           /\ mem.pend \in book.after => book.lots < mem.pendLots
           /\ pc = "reconcile" /\ mem.pend \in view.after => view.lots < mem.pendLots

\* The count is the number of executed partial closes that are not pending.
CountExact ==
    /\ mem.count <= Cardinality(Executed \ {mem.pend})
    /\ lots > 0 => Cardinality(Executed \ {mem.pend}) <= mem.count
    /\ saved.count <= Cardinality(Executed)
    /\ pc \in {"idle", "reconcile", "touch"} => saved = mem

ExactHistory ==
    pc \notin {"down", "purge"} /\ WatchedOrPast /\ PendingLotsTell /\ CountExact

\* Any set of partial closes has a cardinality.
LEMMA CountType ==
    /\ \A S \in SUBSET Partials : IsFiniteSet(S) /\ Cardinality(S) \in Nat
    /\ \A S \in SUBSET Partials : \A T \in SUBSET S : Cardinality(T) <= Cardinality(S)
  <1>1. ASSUME NEW S \in SUBSET Partials PROVE IsFiniteSet(S) /\ Cardinality(S) \in Nat
    BY PartialsFinite, FS_Subset, FS_CardinalityType
  <1>2. ASSUME NEW S \in SUBSET Partials, NEW T \in SUBSET S
        PROVE  Cardinality(T) <= Cardinality(S)
    BY <1>1, FS_Subset
  <1>3. QED
    BY <1>1, <1>2

\* The numbers the history compares.
LEMMA HistoryNumbers ==
    ASSUME ManagedTypes
    PROVE  /\ lots \in Nat /\ book.lots \in Nat /\ view.lots \in Nat /\ bar \in Nat
           /\ mem \in Memory /\ saved \in Memory
           /\ mem.count \in Nat /\ saved.count \in Nat /\ mem.pendLots \in Nat
           /\ mem.pend \in Partials \cup {NoId} /\ mem.cool \in Partials \cup {NoId}
           /\ Executed \in SUBSET Partials
           /\ \A c \in Partials : c.bar \in Nat
           /\ cmd \in [Ids -> CmdStatus]
           /\ pc \in {"down", "purge", "idle", "reconcile", "submit", "save", "touch"}
  <1>1. ManagedTypeOK
    BY DEF ManagedTypes
  <1>2. lots \in Nat /\ book.lots \in Nat /\ view.lots \in Nat /\ bar \in Nat
    BY <1>1, ManagedAssumption DEF ManagedTypeOK
  <1>3. mem \in Memory /\ saved \in Memory
    BY <1>1 DEF ManagedTypeOK
  <1>4. /\ mem.count \in Nat /\ saved.count \in Nat /\ mem.pendLots \in Nat
        /\ mem.pend \in Partials \cup {NoId} /\ mem.cool \in Partials \cup {NoId}
    BY <1>3 DEF Memory
  <1>5. \A c \in Partials : c.bar \in Nat
    BY KindsOfIds, ManagedAssumption
  <1>6. QED
    BY <1>1, <1>2, <1>3, <1>4, <1>5 DEF ManagedTypeOK, Executed

\* Nothing is executed: the history stays exact.
LEMMA ExactQuiet ==
    ASSUME ManagedTypes, BrokerFacts, ExactHistory, Quiet
    PROVE  ExactHistory'
  <1>1. /\ lots \in Nat /\ book.lots \in Nat /\ view.lots \in Nat /\ bar \in Nat
        /\ mem.pendLots \in Nat /\ Executed \in SUBSET Partials
        /\ \A c \in Partials : c.bar \in Nat
    BY HistoryNumbers
  <1>2. /\ mem' = mem /\ saved' = saved /\ pc' = pc
        /\ lots' \in {lots, 0} /\ bar <= bar'
        /\ view'.lots = view.lots /\ view'.after \subseteq view.after
        /\ \/ book'.lots = book.lots /\ book'.after \subseteq book.after
           \/ book'.lots = lots /\ lots' = lots
        /\ \A c \in Ids : cmd'[c] = "queued" => cmd[c] = "queued"
    BY DEF Quiet
  <1>3. Executed' = Executed /\ (Reading' <=> Reading) /\ \A c : Watched(c)' <=> Watched(c)
    BY <1>2 DEF Quiet, Executed, Reading, Watched
  <1>4. WatchedOrPast /\ PendingLotsTell /\ CountExact /\ pc \notin {"down", "purge"}
    BY DEF ExactHistory
  <1>5. WatchedOrPast'
    <2>1. mem'.pend # NoId => mem'.cool = NoId
      BY <1>2, <1>4 DEF WatchedOrPast
    <2>2. \A c \in Partials : cmd'[c] = "queued" /\ lots' > 0 => mem'.pend = c
      BY <1>1, <1>2, <1>4, KindsOfIds DEF WatchedOrPast
    <2>3. ClosedInSight => ClosedInSight'
      BY <1>1, <1>2, <1>3 DEF ClosedInSight
    <2>4. \A c \in Executed' : Watched(c)' \/ c.bar < bar' \/ ClosedInSight'
      <3>1. ASSUME NEW c \in Executed PROVE Watched(c)' \/ c.bar < bar' \/ ClosedInSight'
        <4>1. c.bar \in Nat /\ bar' \in Nat
          BY <1>1 DEF Quiet
        <4>2. Watched(c) \/ c.bar < bar \/ ClosedInSight
          BY <1>4 DEF WatchedOrPast
        <4>3. QED
          BY <1>1, <1>2, <1>3, <2>3, <4>1, <4>2
      <3>2. QED
        BY <1>3, <3>1
    <2>5. (\A c \in Executed' : Watched(c)' => c \in book'.after) => lots' \in {0, book'.lots}
      BY <1>2, <1>3, <1>4 DEF WatchedOrPast
    <2>6. Reading' /\ (\A c \in Executed' : Watched(c)' => c \in view'.after) =>
              lots' \in {0, view'.lots} /\ book'.lots \in {0, view'.lots}
      BY <1>2, <1>3, <1>4 DEF WatchedOrPast
    <2>7. QED
      BY <2>1, <2>2, <2>4, <2>5, <2>6 DEF WatchedOrPast
  <1>6. PendingLotsTell'
    <2>1. mem'.pend \in Partials /\ mem'.pend \notin Executed' =>
              /\ lots' \in {0, mem'.pendLots}
              /\ book'.lots \in {0, mem'.pendLots}
              /\ pc' = "reconcile" => view'.lots \in {0, mem'.pendLots}
      BY <1>2, <1>3, <1>4 DEF PendingLotsTell
    <2>2. mem'.pend \in Executed' =>
              /\ lots' < mem'.pendLots
              /\ mem'.pend \in book'.after => book'.lots < mem'.pendLots
              /\ pc' = "reconcile" /\ mem'.pend \in view'.after => view'.lots < mem'.pendLots
      BY <1>1, <1>2, <1>3, <1>4 DEF PendingLotsTell
    <2>3. QED
      BY <2>1, <2>2 DEF PendingLotsTell
  <1>7. CountExact'
    <2>1. lots' > 0 => lots > 0
      BY <1>1, <1>2
    <2>2. QED
      BY <1>2, <1>3, <1>4, <2>1 DEF CountExact
  <1>8. QED
    BY <1>2, <1>4, <1>5, <1>6, <1>7 DEF ExactHistory

\* The broker executes a command: an exit closes the position, a partial close
\* is the pending one.
LEMMA ExactExecutes ==
    ASSUME ManagedTypes, BrokerFacts, ExactHistory, NEW c \in Ids, Executes(c)
    PROVE  ExactHistory'
  <1>1. /\ lots \in Nat /\ book.lots \in Nat /\ view.lots \in Nat /\ bar \in Nat
        /\ mem.pendLots \in Nat /\ Executed \in SUBSET Partials
        /\ saved.count \in Nat /\ cmd \in [Ids -> CmdStatus]
    BY HistoryNumbers
  <1>2. /\ mem' = mem /\ saved' = saved /\ pc' = pc /\ bar' = bar
        /\ cmd[c] = "queued" /\ lots > 0
        /\ lots' = IF c \in Exits THEN 0 ELSE lots - 1
        /\ view'.lots = view.lots /\ view'.after = view.after \ {c}
        /\ book'.lots = book.lots /\ book'.after = book.after \ {c}
        /\ \A d \in Ids : cmd'[d] = "queued" => cmd[d] = "queued"
    BY <1>1 DEF Executes
  <1>3. (Reading' <=> Reading) /\ \A d : Watched(d)' <=> Watched(d)
    BY <1>2 DEF Reading, Watched
  <1>4. WatchedOrPast /\ PendingLotsTell /\ CountExact /\ pc \notin {"down", "purge"}
    BY DEF ExactHistory
  <1>5. /\ c \notin done.executed
        /\ done'.executed = done.executed \cup {c}
    BY <1>2 DEF BrokerFacts, Executes
  <1>6. lots' \in Nat /\ lots' < lots
    BY <1>1, <1>2
  <1>7. \A d \in Partials : cmd'[d] = "queued" /\ lots' > 0 => mem'.pend = d
    BY <1>2, <1>4, KindsOfIds DEF WatchedOrPast
  <1>8. mem'.pend # NoId => mem'.cool = NoId
    BY <1>2, <1>4 DEF WatchedOrPast
  <1>9. ~ClosedInSight
    BY <1>1, <1>2 DEF ClosedInSight
  <1>10. CASE c \in Exits
    <2>1. Executed' = Executed /\ lots' = 0
      BY <1>2, <1>5, <1>10, KindsOfIds DEF Executed
    <2>2. \A d \in Executed : d # c
      BY <1>5 DEF Executed
    <2>3. WatchedOrPast'
      <3>1. \A d \in Executed' : Watched(d)' \/ d.bar < bar' \/ ClosedInSight'
        BY <1>2, <1>3, <1>4, <1>9, <2>1 DEF WatchedOrPast
      <3>2. Reading' /\ (\A d \in Executed' : Watched(d)' => d \in view'.after) =>
                lots' \in {0, view'.lots} /\ book'.lots \in {0, view'.lots}
        BY <1>2, <1>3, <1>4, <2>1, <2>2 DEF WatchedOrPast
      <3>3. QED
        BY <1>7, <1>8, <2>1, <3>1, <3>2 DEF WatchedOrPast
    <2>4. PendingLotsTell'
      <3>1. mem'.pend \in Partials /\ mem'.pend \notin Executed' =>
                /\ lots' \in {0, mem'.pendLots}
                /\ book'.lots \in {0, mem'.pendLots}
                /\ pc' = "reconcile" => view'.lots \in {0, mem'.pendLots}
        BY <1>2, <1>4, <2>1 DEF PendingLotsTell
      <3>2. mem'.pend \in Executed' =>
                /\ lots' < mem'.pendLots
                /\ mem'.pend \in book'.after => book'.lots < mem'.pendLots
                /\ pc' = "reconcile" /\ mem'.pend \in view'.after => view'.lots < mem'.pendLots
        BY <1>1, <1>2, <1>4, <2>1 DEF PendingLotsTell
      <3>3. QED
        BY <3>1, <3>2 DEF PendingLotsTell
    <2>5. CountExact'
      BY <1>2, <1>4, <2>1 DEF CountExact
    <2>6. QED
      BY <1>2, <1>4, <2>3, <2>4, <2>5 DEF ExactHistory
  <1>11. CASE c \in Partials
    <2>1. mem.pend = c /\ lots' = lots - 1
      BY <1>2, <1>4, <1>11, KindsOfIds DEF WatchedOrPast
    <2>2. Executed' = Executed \cup {c} /\ c \notin Executed
      BY <1>5, <1>11 DEF Executed
    <2>3. Watched(c)' /\ c \notin book'.after /\ c \notin view'.after
      BY <1>2, <1>3, <2>1 DEF Watched
    <2>4. WatchedOrPast'
      <3>1. \A d \in Executed' : Watched(d)' \/ d.bar < bar' \/ ClosedInSight'
        BY <1>2, <1>3, <1>4, <1>9, <2>2, <2>3 DEF WatchedOrPast
      <3>2. ~\A d \in Executed' : Watched(d)' => d \in view'.after
        BY <2>2, <2>3
      <3>3. ~\A d \in Executed' : Watched(d)' => d \in book'.after
        BY <2>2, <2>3
      <3>4. QED
        BY <1>7, <1>8, <3>1, <3>2, <3>3 DEF WatchedOrPast
    <2>5. PendingLotsTell'
      <3>1. lots' < mem'.pendLots
        BY <1>1, <1>2, <1>4, <1>11, <2>1, <2>2 DEF PendingLotsTell
      <3>2. mem'.pend = c /\ c \in Executed'
        BY <1>2, <2>1, <2>2
      <3>3. QED
        BY <2>3, <3>1, <3>2 DEF PendingLotsTell
    <2>6. CountExact'
      <3>1. Executed' \ {c} = Executed \ {c}
        BY <2>2
      <3>2. Cardinality(Executed) <= Cardinality(Executed') /\ Cardinality(Executed') \in Nat
            /\ Cardinality(Executed) \in Nat
        BY <1>1, <1>11, <2>2, CountType
      <3>3. saved'.count <= Cardinality(Executed')
        BY <1>1, <1>2, <1>4, <3>2 DEF CountExact
      <3>4. QED
        BY <1>2, <1>4, <2>1, <3>1, <3>3 DEF CountExact
    <2>7. QED
      BY <1>2, <1>4, <2>4, <2>5, <2>6 DEF ExactHistory
  <1>12. QED
    BY <1>10, <1>11, KindsOfIds

\* A step of the runner after the loop used its view that leaves the tracker
\* alone.
LEMMA ExactSame ==
    ASSUME ManagedTypes, ExactHistory, SameTracker(mem, mem'),
           UNCHANGED <<lots, bar>>, done'.executed = done.executed,
           book'.lots = book.lots, book'.after \subseteq book.after,
           \A c \in Partials : cmd'[c] = "queued" => cmd[c] = "queued",
           pc' \in {"idle", "save", "touch"},
           saved'.count <= Cardinality(Executed),
           pc' \in {"idle", "touch"} => saved' = mem'
    PROVE  ExactHistory'
  <1>1. WatchedOrPast /\ PendingLotsTell /\ CountExact
    BY DEF ExactHistory
  <1>2. /\ mem'.count = mem.count /\ mem'.pend = mem.pend /\ mem'.pendLots = mem.pendLots
        /\ mem'.cool = mem.cool
    BY DEF SameTracker
  <1>3. Executed' = Executed /\ ~Reading' /\ \A c : Watched(c)' <=> Watched(c)
    BY <1>2 DEF Executed, Reading, Watched
  <1>4. WatchedOrPast'
    <2>1. ClosedInSight => ClosedInSight'
      BY <1>3 DEF ClosedInSight
    <2>2. \A c \in Executed' : Watched(c)' \/ c.bar < bar' \/ ClosedInSight'
      BY <1>1, <1>3, <2>1 DEF WatchedOrPast
    <2>3. (\A c \in Executed' : Watched(c)' => c \in book'.after) => lots' \in {0, book'.lots}
      BY <1>1, <1>3 DEF WatchedOrPast
    <2>4. /\ mem'.pend # NoId => mem'.cool = NoId
          /\ \A c \in Partials : cmd'[c] = "queued" /\ lots' > 0 => mem'.pend = c
      BY <1>1, <1>2 DEF WatchedOrPast
    <2>5. QED
      BY <1>3, <2>2, <2>3, <2>4 DEF WatchedOrPast
  <1>5. PendingLotsTell'
    BY <1>1, <1>2, <1>3 DEF PendingLotsTell
  <1>6. CountExact'
    BY <1>1, <1>2, <1>3 DEF CountExact
  <1>7. QED
    BY <1>4, <1>5, <1>6 DEF ExactHistory

\* The loop reads the book.
LEMMA ExactLoopRead ==
    ASSUME ManagedTypes, ExactHistory, LoopRead
    PROVE  ExactHistory'
  <1>1. /\ WatchedOrPast /\ PendingLotsTell /\ CountExact
        /\ book \in [lots : 0..InitialLots, new : BOOLEAN, after : SUBSET Ids]
    BY DEF ExactHistory, ManagedTypes, ManagedTypeOK
  <1>2. /\ pc = "idle" /\ pc' = "reconcile"
        /\ view' = [lots |-> book.lots, advanced |-> book.new, after |-> book.after]
        /\ book' = [book EXCEPT !.new = FALSE]
        /\ UNCHANGED <<lots, cmd, bar, mem, saved, done>>
    BY DEF LoopRead
  <1>3. /\ view'.lots = book.lots /\ view'.after = book.after
        /\ book'.lots = book.lots /\ book'.after = book.after
    BY <1>1, <1>2
  <1>4. Executed' = Executed /\ \A c : Watched(c)' <=> Watched(c)
    BY <1>2 DEF Executed, Watched
  <1>5. WatchedOrPast'
    <2>1. ClosedInSight => ClosedInSight'
      BY <1>2, <1>3 DEF ClosedInSight
    <2>2. \A c \in Executed' : Watched(c)' \/ c.bar < bar' \/ ClosedInSight'
      BY <1>1, <1>2, <1>4, <2>1 DEF WatchedOrPast
    <2>3. QED
      BY <1>1, <1>2, <1>3, <1>4, <2>2 DEF WatchedOrPast
  <1>6. PendingLotsTell'
    BY <1>1, <1>2, <1>3, <1>4 DEF PendingLotsTell
  <1>7. CountExact'
    BY <1>1, <1>2, <1>4 DEF CountExact
  <1>8. QED
    BY <1>2, <1>5, <1>6, <1>7 DEF ExactHistory

\* The loop reconciles: what it confirms was executed, what it gives up was
\* not (or the position is closed), what it drops is of a closed position.
LEMMA ExactReconcile ==
    ASSUME ManagedTypes, BrokerFacts, ExactHistory, Reconcile
    PROVE  ExactHistory'
  <1>1. /\ lots \in Nat /\ book.lots \in Nat /\ view.lots \in Nat
        /\ mem.count \in Nat /\ mem.pendLots \in Nat
        /\ mem.pend \in Partials \cup {NoId} /\ mem.cool \in Partials \cup {NoId}
        /\ Executed \in SUBSET Partials
    BY HistoryNumbers
  <1>2. WatchedOrPast /\ PendingLotsTell /\ CountExact
    BY DEF ExactHistory
  <1>3. /\ pc = "reconcile" /\ pc' = "submit"
        /\ mem' = ExitsReconciled(Pruned(PartialReconciled(mem)))
        /\ UNCHANGED <<lots, cmd, book, bar, view, saved, done>>
    BY DEF Reconcile
  <1>4. ManagedTypeOK
    BY DEF ManagedTypes
  <1>5. PICK p \in Memory : Resolves(mem, p) /\ Prunes(p, mem')
    <2>1. \A n : n = ExitsReconciled(Pruned(PartialReconciled(mem))) =>
              \E p \in Memory : Resolves(mem, p) /\ Prunes(p, n)
      BY <1>4, ReconciledTracker
    <2>2. QED
      BY <1>3, <2>1
  <1>6. Executed' = Executed /\ Reading /\ Reading'
    BY <1>3 DEF Executed, Reading
  <1>7. lots <= book.lots /\ book.lots <= view.lots
    BY <1>6 DEF BrokerFacts
  <1>8. view.lots = 0 => lots = 0 /\ book.lots = 0 /\ ClosedInSight'
    BY <1>1, <1>3, <1>7 DEF ClosedInSight
  <1>9. ClosedInSight => ClosedInSight'
    BY <1>3, <1>6 DEF ClosedInSight
  <1>10. NoId \notin Partials /\ NoId \notin Executed
    BY <1>1, KindsOfIds
  <1>11. Cardinality(Executed) \in Nat /\ Executed \ {NoId} = Executed
    BY <1>1, <1>10, CountType
  <1>12. saved'.count <= Cardinality(Executed')
    BY <1>2, <1>3, <1>6 DEF CountExact
  <1>13. ASSUME lots = 0, book.lots = 0, ClosedInSight',
                mem'.pend = NoId, mem'.count <= Cardinality(Executed)
         PROVE  ExactHistory'
    <2>1. WatchedOrPast'
      BY <1>1, <1>3, <1>13 DEF WatchedOrPast
    <2>2. PendingLotsTell'
      BY <1>6, <1>10, <1>13 DEF PendingLotsTell
    <2>3. CountExact'
      BY <1>3, <1>6, <1>11, <1>12, <1>13 DEF CountExact
    <2>4. QED
      BY <1>3, <2>1, <2>2, <2>3 DEF ExactHistory
  <1>14. ASSUME mem'.pend = NoId, mem'.cool \in {NoId, mem.pend}, mem.pend \in Partials,
                mem.pend \in Executed => mem'.cool = mem.pend,
                cmd[mem.pend] # "queued",
                mem'.count = Cardinality(Executed) \/ lots = 0,
                mem'.count <= Cardinality(Executed)
         PROVE  ExactHistory'
    <2>1. \A c \in Executed : Watched(c)' <=> Watched(c)
      BY <1>2, <1>10, <1>14 DEF WatchedOrPast, Watched
    <2>2. WatchedOrPast'
      <3>1. \A c \in Partials : ~(cmd[c] = "queued" /\ lots > 0)
        BY <1>2, <1>14 DEF WatchedOrPast
      <3>2. \A c \in Executed' : Watched(c)' \/ c.bar < bar' \/ ClosedInSight'
        BY <1>2, <1>3, <1>6, <1>9, <2>1 DEF WatchedOrPast
      <3>3. (\A c \in Executed' : Watched(c)' => c \in book'.after) => lots' \in {0, book'.lots}
        BY <1>2, <1>3, <1>6, <2>1 DEF WatchedOrPast
      <3>4. Reading' /\ (\A c \in Executed' : Watched(c)' => c \in view'.after) =>
                lots' \in {0, view'.lots} /\ book'.lots \in {0, view'.lots}
        BY <1>2, <1>3, <1>6, <2>1 DEF WatchedOrPast
      <3>5. QED
        BY <1>3, <1>14, <3>1, <3>2, <3>3, <3>4 DEF WatchedOrPast
    <2>3. PendingLotsTell'
      BY <1>6, <1>10, <1>14 DEF PendingLotsTell
    <2>4. CountExact'
      <3>1. lots > 0 => Cardinality(Executed) <= mem'.count
        BY <1>1, <1>11, <1>14
      <3>2. QED
        BY <1>3, <1>6, <1>11, <1>12, <1>14, <3>1 DEF CountExact
    <2>5. QED
      BY <1>3, <2>2, <2>3, <2>4 DEF ExactHistory
  <1>15. CASE ~SameTracker(p, mem')
    <2>1. view.lots = 0 /\ mem'.pend = NoId /\ mem'.count = 0
      BY <1>5, <1>15 DEF Prunes
    <2>2. QED
      BY <1>8, <1>11, <1>13, <2>1
  <1>16. CASE SameTracker(p, mem') /\ SameTracker(mem, p)
    <2>1. /\ mem'.count = mem.count /\ mem'.pend = mem.pend /\ mem'.pendLots = mem.pendLots
          /\ mem'.cool = mem.cool
      BY <1>16 DEF SameTracker
    <2>2. \A c : Watched(c)' <=> Watched(c)
      BY <2>1 DEF Watched
    <2>3. WatchedOrPast'
      <3>1. \A c \in Executed' : Watched(c)' \/ c.bar < bar' \/ ClosedInSight'
        BY <1>2, <1>3, <1>6, <1>9, <2>2 DEF WatchedOrPast
      <3>2. QED
        BY <1>2, <1>3, <1>6, <2>1, <2>2, <3>1 DEF WatchedOrPast
    <2>4. PendingLotsTell'
      BY <1>2, <1>3, <1>6, <2>1 DEF PendingLotsTell
    <2>5. CountExact'
      BY <1>2, <1>3, <1>6, <2>1 DEF CountExact
    <2>6. QED
      BY <1>3, <2>3, <2>4, <2>5 DEF ExactHistory
  <1>17. CASE /\ SameTracker(p, mem') /\ mem.pend \in Partials /\ PartialConfirmed(mem.pend)
              /\ p.count = mem.count + 1 /\ p.cool = mem.pend /\ p.pend = NoId
    <2>1. mem'.count = mem.count + 1 /\ mem'.cool = mem.pend /\ mem'.pend = NoId
      BY <1>17 DEF SameTracker
    <2>2. mem.pend \in Executed
      <3>1. CASE cmd[mem.pend] = "acked"
        BY <1>17, <3>1, KindsOfIds DEF BrokerFacts, Executed
      <3>2. CASE view.lots > 0 /\ view.lots < mem.pendLots
        BY <1>1, <1>2, <1>3, <1>17, <3>2 DEF PendingLotsTell
      <3>3. QED
        BY <1>17, <3>1, <3>2 DEF PartialConfirmed
    <2>3. cmd[mem.pend] # "queued"
      BY <1>1, <2>2, KindsOfIds DEF BrokerFacts, Executed
    <2>4. Cardinality(Executed \ {mem.pend}) = Cardinality(Executed) - 1
      BY <1>1, <2>2, CountType, FS_RemoveElement
    <2>5. mem'.count <= Cardinality(Executed) /\ (mem'.count = Cardinality(Executed) \/ lots = 0)
      BY <1>1, <1>2, <1>11, <2>1, <2>4 DEF CountExact
    <2>6. QED
      BY <1>14, <1>17, <2>1, <2>2, <2>3, <2>5
  <1>18. CASE /\ SameTracker(p, mem') /\ mem.pend \in Partials /\ ~PartialConfirmed(mem.pend)
              /\ cmd[mem.pend] = "expired" \/ PartialUnchanged(mem.pend)
              /\ p.count = mem.count /\ p.cool = mem.cool /\ p.pend = NoId
    <2>1. mem'.count = mem.count /\ mem'.cool = mem.cool /\ mem'.pend = NoId
      BY <1>18 DEF SameTracker
    <2>2. cmd[mem.pend] # "queued"
      BY <1>18 DEF PartialUnchanged, EndedOrUnknown
    <2>3. mem.cool = NoId
      BY <1>2, <1>10, <1>18 DEF WatchedOrPast
    <2>4. CASE mem.pend \in Executed
      <3>1. PartialUnchanged(mem.pend)
        BY <1>18, <2>4, KindsOfIds DEF BrokerFacts, Executed
      <3>2. view.lots < mem.pendLots /\ view.advanced
        BY <1>2, <1>3, <2>4, <3>1 DEF PendingLotsTell, PartialUnchanged
      <3>3. view.lots = 0
        BY <1>1, <1>18, <3>2 DEF PartialConfirmed
      <3>4. Cardinality(Executed \ {mem.pend}) <= Cardinality(Executed)
            /\ Cardinality(Executed \ {mem.pend}) \in Nat
        BY <1>1, CountType
      <3>5. mem'.count <= Cardinality(Executed)
        BY <1>1, <1>2, <1>11, <2>1, <3>4 DEF CountExact
      <3>6. QED
        BY <1>8, <1>13, <2>1, <3>3, <3>5
    <2>5. CASE mem.pend \notin Executed
      <3>1. Executed \ {mem.pend} = Executed
        BY <2>5
      <3>2. mem'.count <= Cardinality(Executed) /\ (mem'.count = Cardinality(Executed) \/ lots = 0)
        BY <1>1, <1>2, <1>11, <2>1, <3>1 DEF CountExact
      <3>3. QED
        BY <1>14, <1>18, <2>1, <2>2, <2>3, <2>5, <3>2
    <2>6. QED
      BY <2>4, <2>5
  <1>19. QED
    BY <1>5, <1>15, <1>16, <1>17, <1>18 DEF Resolves

\* A partial close is submitted: nothing the broker executed is out of sight,
\* so the lots of the view are the lots it starts from.
LEMMA ExactSubmitPartial ==
    ASSUME ManagedTypes, BrokerFacts, ExactHistory, NEW c \in Partials, SubmitPartial(c)
    PROVE  ExactHistory'
  <1>1. /\ lots \in Nat /\ book.lots \in Nat /\ view.lots \in Nat /\ bar \in Nat
        /\ mem \in Memory /\ mem.count \in Nat
        /\ Executed \in SUBSET Partials /\ c.bar \in Nat /\ cmd \in [Ids -> CmdStatus]
    BY HistoryNumbers
  <1>2. WatchedOrPast /\ PendingLotsTell /\ CountExact
    BY DEF ExactHistory
  <1>3. /\ pc = "submit" /\ pc' = "save" /\ c.bar = bar
        /\ view.lots > 1 /\ mem.pend = NoId /\ mem.cool = NoId
        /\ Accepts(c) /\ Enqueued(c)
        /\ mem' = [mem EXCEPT !.pend = c, !.pendLots = view.lots, !.missing = 0]
        /\ UNCHANGED <<lots, bar, saved>>
    BY DEF SubmitPartial, PartialAllowed
  <1>4. mem'.count = mem.count /\ mem'.cool = NoId /\ mem'.pend = c /\ mem'.pendLots = view.lots
    <2>1. mem' = [mem EXCEPT !.pend = c, !.pendLots = view.lots, !.missing = 0]
      BY <1>3
    <2>2. /\ mem'.count = mem.count /\ mem'.cool = mem.cool
          /\ mem'.pend = c /\ mem'.pendLots = view.lots
      BY <1>1, <2>1 DEF Memory
    <2>3. QED
      BY <1>3, <2>2
  <1>5. c \in Ids /\ ManagedTypeOK /\ NoId \notin Partials
    BY KindsOfIds DEF ManagedTypes
  <1>6. /\ done'.executed = done.executed
        /\ book'.lots = book.lots /\ book'.after \subseteq book.after
        /\ cmd' = cmd \/ cmd' = [cmd EXCEPT ![c] = "queued"]
    BY <1>3, <1>5, EnqueuedEffect
  <1>7. Executed' = Executed /\ ~Reading' /\ Reading
    BY <1>3, <1>6 DEF Executed, Reading
  <1>8. \A d \in Executed : ~Watched(d)
    BY <1>1, <1>3, <1>5 DEF Watched
  <1>9. ~ClosedInSight
    BY <1>1, <1>3, <1>7 DEF ClosedInSight
  <1>10. c \notin Executed
    BY <1>1, <1>2, <1>3, <1>8, <1>9 DEF WatchedOrPast
  <1>11. \A d \in Executed : ~Watched(d)'
    BY <1>1, <1>4, <1>5, <1>10 DEF Watched
  <1>12. lots \in {0, view.lots} /\ book.lots \in {0, view.lots} /\ lots \in {0, book.lots}
    BY <1>2, <1>7, <1>8 DEF WatchedOrPast
  <1>13. WatchedOrPast'
    <2>1. \A d \in Executed' : Watched(d)' \/ d.bar < bar' \/ ClosedInSight'
      BY <1>2, <1>3, <1>7, <1>8, <1>9 DEF WatchedOrPast
    <2>2. \A d \in Partials : cmd'[d] = "queued" /\ lots' > 0 => mem'.pend = d
      <3>1. ASSUME NEW d \in Partials, cmd'[d] = "queued", lots' > 0 PROVE d = c
        <4>1. d \in Ids
          BY KindsOfIds
        <4>2. d # c => cmd[d] = "queued"
          BY <1>1, <1>6, <3>1, <4>1
        <4>3. QED
          BY <1>2, <1>3, <1>5, <3>1, <4>2 DEF WatchedOrPast
      <3>2. QED
        BY <1>4, <3>1
    <2>3. QED
      BY <1>3, <1>4, <1>6, <1>7, <1>12, <2>1, <2>2 DEF WatchedOrPast
  <1>14. PendingLotsTell'
    BY <1>3, <1>4, <1>6, <1>7, <1>10, <1>12 DEF PendingLotsTell
  <1>15. CountExact'
    <2>1. Executed \ {c} = Executed /\ Executed \ {NoId} = Executed
      BY <1>1, <1>5, <1>10
    <2>2. QED
      BY <1>2, <1>3, <1>4, <1>7, <2>1 DEF CountExact
  <1>16. QED
    BY <1>3, <1>13, <1>14, <1>15 DEF ExactHistory

\* The cooldown ends: the clock has left the bar of the partial close, and a
\* snapshot postdates it.
LEMMA ExactCooldownOver ==
    ASSUME ManagedTypes, ExactHistory, CooldownOver
    PROVE  ExactHistory'
  <1>1. /\ mem \in Memory /\ saved \in Memory /\ Executed \in SUBSET Partials
        /\ bar \in Nat /\ pc \in {"down", "purge", "idle", "reconcile", "submit", "save", "touch"}
    BY HistoryNumbers
  <1>2. WatchedOrPast /\ PendingLotsTell /\ CountExact /\ pc \notin {"down", "purge"}
    BY DEF ExactHistory
  <1>3. PICK m \in {mem.cool, saved.cool} \ {NoId} : m.bar < bar /\ m \in book.after
    BY DEF CooldownOver
  <1>4. /\ pc \in {"down", "idle"}
        /\ mem' = [mem EXCEPT !.cool = NoId] /\ saved' = [saved EXCEPT !.cool = NoId]
        /\ UNCHANGED <<lots, cmd, book, bar, pc, view, done>>
    BY DEF CooldownOver
  <1>5. saved = mem /\ pc = "idle" /\ m = mem.cool
    BY <1>2, <1>3, <1>4 DEF CountExact
  <1>6. /\ mem'.count = mem.count /\ mem'.pend = mem.pend /\ mem'.pendLots = mem.pendLots
        /\ mem'.cool = NoId /\ saved' = mem'
    BY <1>1, <1>4, <1>5 DEF Memory
  <1>7. Executed' = Executed /\ ~Reading /\ ~Reading'
    BY <1>4, <1>5 DEF Executed, Reading
  <1>8. \A c \in Executed : Watched(c) => Watched(c)' \/ (c.bar < bar /\ c \in book.after)
    BY <1>3, <1>5, <1>6 DEF Watched
  <1>9. WatchedOrPast'
    <2>1. ClosedInSight => ClosedInSight'
      BY <1>4, <1>7 DEF ClosedInSight
    <2>2. \A c \in Executed' : Watched(c)' \/ c.bar < bar' \/ ClosedInSight'
      BY <1>2, <1>4, <1>7, <1>8, <2>1 DEF WatchedOrPast
    <2>3. (\A c \in Executed' : Watched(c)' => c \in book'.after) => lots' \in {0, book'.lots}
      BY <1>2, <1>4, <1>7, <1>8 DEF WatchedOrPast
    <2>4. QED
      BY <1>2, <1>4, <1>6, <1>7, <2>2, <2>3 DEF WatchedOrPast
  <1>10. PendingLotsTell'
    BY <1>2, <1>4, <1>6, <1>7 DEF PendingLotsTell
  <1>11. CountExact'
    BY <1>2, <1>4, <1>5, <1>6, <1>7 DEF CountExact
  <1>12. QED
    BY <1>4, <1>5, <1>9, <1>10, <1>11 DEF ExactHistory

\* A runner that has not crashed keeps the history exact.
LEMMA ExactRunner ==
    ASSUME ManagedTypes, BrokerFacts, ExactHistory, Cycle \/ CooldownOver
    PROVE  ExactHistory'
  <1>1. /\ CountExact /\ pc \notin {"down", "purge"} /\ ManagedTypeOK
        /\ mem \in Memory /\ saved \in Memory /\ mem.count \in Nat
        /\ Executed \in SUBSET Partials
    BY HistoryNumbers DEF ExactHistory, ManagedTypes
  <1>2. SameTracker(mem, mem) /\ saved.count <= Cardinality(Executed)
    BY <1>1 DEF SameTracker, CountExact
  <1>3. ASSUME NEW c \in Exits, SubmitExit(c) PROVE ExactHistory'
    <2>1. /\ pc' = "save" /\ Accepts(c) /\ Enqueued(c)
          /\ mem' = [mem EXCEPT !.ledger = [mem.ledger EXCEPT ![c] = "pending"]]
          /\ UNCHANGED <<lots, bar, saved>>
      BY <1>3 DEF SubmitExit
    <2>2. SameTracker(mem, mem')
      BY <1>1, <2>1 DEF Memory, SameTracker
    <2>3. /\ done'.executed = done.executed
          /\ book'.lots = book.lots /\ book'.after \subseteq book.after
          /\ cmd' = cmd \/ cmd' = [cmd EXCEPT ![c] = "queued"]
      BY <1>1, <2>1, KindsOfIds, EnqueuedEffect
    <2>4. \A d \in Partials : cmd'[d] = cmd[d]
      <3>1. cmd \in [Ids -> CmdStatus] /\ \A d \in Partials : d \in Ids /\ d # c
        BY <1>1, KindsOfIds DEF ManagedTypeOK
      <3>2. QED
        BY <2>3, <3>1
    <2>5. QED
      BY <1>2, <2>1, <2>2, <2>3, <2>4, ExactSame
  <1>4. CASE SubmitTighten \/ SubmitNothing
    BY <1>2, <1>4, ExactSame DEF SubmitTighten, SubmitNothing
  <1>5. CASE Save
    <2>1. /\ Cardinality(Executed \ {mem.pend}) <= Cardinality(Executed)
          /\ Cardinality(Executed \ {mem.pend}) \in Nat /\ Cardinality(Executed) \in Nat
      BY <1>1, CountType
    <2>2. mem.count <= Cardinality(Executed)
      BY <1>1, <2>1 DEF CountExact
    <2>3. QED
      BY <1>2, <1>5, <2>2, ExactSame DEF Save
  <1>6. CASE Touch
    <2>1. saved = mem
      BY <1>1, <1>6 DEF Touch, CountExact
    <2>2. QED
      BY <1>2, <1>6, <2>1, ExactSame DEF Touch
  <1>7. ~Boot /\ ~Purge
    BY <1>1 DEF Boot, Purge
  <1>8. QED
    BY <1>3, <1>4, <1>5, <1>6, <1>7, ExactLoopRead, ExactReconcile, ExactSubmitPartial,
       ExactCooldownOver DEF Cycle
-----------------------------------------------------------------------------
(* The history of a single partial close, across any number of crashes      *)

OnePartial == \A c, d \in Partials : c = d

\* What memory m, in use or saved, may say of partial close c.
CountsTruly(m, c) ==
    /\ m.count <= 1
    /\ m.count = 1 => /\ c \in done.executed
                      /\ c \in m.settled
                      /\ m.pend = NoId
                      /\ m.cool = c \/ c.bar < bar
    /\ m.pendLots <= InitialLots
    /\ cmd[c] = "absent" => c \notin m.settled /\ m.pend # c

\* Only this command and a full close change the lots.
LotsTell(c) ==
    /\ c \notin done.executed => /\ lots \in {0, InitialLots}
                                 /\ book.lots \in {0, InitialLots}
                                 /\ view.lots \in {0, InitialLots}
    /\ c \in done.executed => /\ lots < InitialLots
                              /\ c \in book.after => book.lots < InitialLots
                              /\ pc = "reconcile" /\ c \in view.after => view.lots < InitialLots

Holds(m, c) == m.count = 1 \/ m.pend = c

\* A command the broker may execute or has executed is held by the memory; the
\* saved memory may miss it between its enqueueing and the save, and then its
\* row is one that boot reads.
NeverForgotten(c) ==
    /\ cmd[c] # "absent" => context[c] = InitialLots
    /\ mem.pend = c => mem.pendLots = InitialLots
    /\ saved.pend = c => saved.pendLots = InitialLots
    /\ cmd[c] = "queued" \/ c \in done.executed =>
           /\ pc # "down" => Holds(mem, c)
           /\ \/ Holds(saved, c)
              \/ c \in changed.mark /\ c \notin saved.settled /\ pc \in {"save", "down"}

OneHistory(c) ==
    /\ LotsTell(c)
    /\ CountsTruly(mem, c)
    /\ CountsTruly(saved, c)
    /\ lots > 0 /\ done.retried = {} => NeverForgotten(c)

\* The numbers it compares.
LEMMA OneNumbers ==
    ASSUME ManagedTypes, NEW c \in Partials
    PROVE  /\ lots \in Nat /\ book.lots \in Nat /\ view.lots \in Nat /\ InitialLots \in Nat
           /\ lots <= InitialLots /\ book.lots <= InitialLots /\ view.lots <= InitialLots
           /\ InitialLots > 0
           /\ bar \in Nat /\ c.bar \in Nat /\ c \in Ids /\ c # NoId
           /\ mem \in Memory /\ saved \in Memory
           /\ mem.count \in Nat /\ saved.count \in Nat
           /\ mem.pendLots \in Nat /\ saved.pendLots \in Nat
           /\ cmd \in [Ids -> CmdStatus] /\ context \in [Ids -> 0..InitialLots]
  <1>1. ManagedTypeOK
    BY DEF ManagedTypes
  <1>2. /\ lots \in 0..InitialLots /\ book.lots \in 0..InitialLots
        /\ view.lots \in 0..InitialLots /\ InitialLots \in Nat \ {0}
    BY <1>1, ManagedAssumption DEF ManagedTypeOK
  <1>3. mem \in Memory /\ saved \in Memory
    BY <1>1 DEF ManagedTypeOK
  <1>4. /\ mem.count \in Nat /\ saved.count \in Nat
        /\ mem.pendLots \in Nat /\ saved.pendLots \in Nat
    BY <1>3 DEF Memory
  <1>5. bar \in Nat /\ c.bar \in Nat /\ c \in Ids /\ c # NoId
    BY HistoryNumbers, KindsOfIds
  <1>6. QED
    BY <1>1, <1>2, <1>3, <1>4, <1>5 DEF ManagedTypeOK

\* It holds of a new runner.
LEMMA OneInit == ManagedInit => \A c \in Partials : OneHistory(c)
  <1> SUFFICES ASSUME ManagedInit, NEW c \in Partials PROVE OneHistory(c)
    OBVIOUS
  <1>1. c \in Ids /\ c # NoId /\ InitialLots \in Nat /\ InitialLots > 0
    BY ManagedAssumption, KindsOfIds
  <1>2. /\ lots = InitialLots /\ book.lots = InitialLots /\ view.lots = 0
        /\ done.executed = {} /\ cmd[c] = "absent" /\ mem = NoMemory /\ saved = NoMemory
    BY <1>1 DEF ManagedInit, NoView
  <1>3. LotsTell(c)
    BY <1>2 DEF LotsTell
  <1>4. CountsTruly(mem, c) /\ CountsTruly(saved, c)
    BY <1>1, <1>2, NoMemoryType DEF CountsTruly
  <1>5. NeverForgotten(c)
    BY <1>1, <1>2, NoMemoryType DEF NeverForgotten
  <1>6. QED
    BY <1>3, <1>4, <1>5 DEF OneHistory

\* Nothing is executed.
LEMMA OneQuiet ==
    ASSUME ManagedTypes, BrokerFacts, NEW c \in Partials, OneHistory(c), Quiet
    PROVE  OneHistory(c)'
  <1>1. /\ lots \in Nat /\ book.lots \in Nat /\ view.lots \in Nat /\ InitialLots \in Nat
        /\ bar \in Nat /\ c.bar \in Nat /\ c \in Ids
    BY OneNumbers
  <1>2. LotsTell(c) /\ CountsTruly(mem, c) /\ CountsTruly(saved, c)
    BY DEF OneHistory
  <1>3. /\ mem' = mem /\ saved' = saved /\ pc' = pc /\ context' = context /\ done' = done
        /\ lots' \in {lots, 0} /\ bar' \in Nat /\ bar <= bar'
        /\ view'.lots = view.lots /\ view'.after \subseteq view.after
        /\ \/ book'.lots = book.lots /\ book'.after \subseteq book.after
           \/ book'.lots = lots /\ lots' = lots
        /\ changed.mark \subseteq changed'.mark
    BY DEF Quiet
  <1>4. /\ cmd'[c] = "absent" => cmd[c] = "absent"
        /\ cmd'[c] # "absent" => cmd[c] # "absent"
        /\ cmd'[c] = "queued" => cmd[c] = "queued"
    BY <1>1 DEF Quiet
  <1>5. LotsTell(c)'
    <2>1. CASE c \in done.executed
      <3>1. /\ lots < InitialLots /\ (c \in book.after => book.lots < InitialLots)
            /\ pc = "reconcile" /\ c \in view.after => view.lots < InitialLots
        BY <1>2, <2>1 DEF LotsTell
      <3>2. /\ lots' < InitialLots /\ (c \in book'.after => book'.lots < InitialLots)
            /\ pc' = "reconcile" /\ c \in view'.after => view'.lots < InitialLots
        BY <1>1, <1>3, <3>1
      <3>3. QED
        BY <1>3, <2>1, <3>2 DEF LotsTell
    <2>2. CASE c \notin done.executed
      BY <1>2, <1>3, <2>2 DEF LotsTell
    <2>3. QED
      BY <2>1, <2>2
  <1>6. c.bar < bar => c.bar < bar'
    BY <1>1, <1>3
  <1>7. CountsTruly(mem, c)' /\ CountsTruly(saved, c)'
    BY <1>2, <1>3, <1>4, <1>6 DEF CountsTruly
  <1>8. lots' > 0 /\ done'.retried = {} => NeverForgotten(c)'
    <2>1. SUFFICES ASSUME lots' > 0, done'.retried = {} PROVE NeverForgotten(c)'
      OBVIOUS
    <2>2. NeverForgotten(c)
      BY <1>1, <1>3, <2>1 DEF OneHistory
    <2>3. QED
      BY <1>3, <1>4, <2>2 DEF NeverForgotten, Holds
  <1>9. QED
    BY <1>5, <1>7, <1>8 DEF OneHistory

\* The broker executes the partial close, or an exit.
LEMMA OneExecutes ==
    ASSUME OnePartial, ManagedTypes, BrokerFacts, NEW c \in Partials, OneHistory(c),
           NEW d \in Ids, Executes(d)
    PROVE  OneHistory(c)'
  <1>1. /\ lots \in Nat /\ book.lots \in Nat /\ view.lots \in Nat /\ InitialLots \in Nat
        /\ lots <= InitialLots /\ c \in Ids /\ cmd \in [Ids -> CmdStatus]
        /\ mem.count \in Nat /\ saved.count \in Nat
    BY OneNumbers
  <1>2. LotsTell(c) /\ CountsTruly(mem, c) /\ CountsTruly(saved, c)
    BY DEF OneHistory
  <1>3. /\ mem' = mem /\ saved' = saved /\ pc' = pc /\ context' = context /\ bar' = bar
        /\ done'.executed = done.executed \cup {d} /\ done'.retried = done.retried
        /\ cmd[d] = "queued" /\ cmd' = [cmd EXCEPT ![d] = "delivered"] /\ lots > 0
        /\ lots' = IF d \in Exits THEN 0 ELSE lots - 1
        /\ view'.lots = view.lots /\ view'.after = view.after \ {d}
        /\ book'.lots = book.lots /\ book'.after = book.after \ {d}
        /\ changed'.mark = changed.mark \cup {d}
    BY DEF Executes
  <1>4. CASE d \in Exits
    <2>1. /\ lots' = 0 /\ c # d /\ cmd'[c] = cmd[c]
          /\ c \in done'.executed <=> c \in done.executed
      BY <1>1, <1>3, <1>4, KindsOfIds
    <2>2. LotsTell(c)'
      BY <1>1, <1>2, <1>3, <2>1 DEF LotsTell
    <2>3. CountsTruly(mem, c)' /\ CountsTruly(saved, c)'
      BY <1>2, <1>3, <2>1 DEF CountsTruly
    <2>4. QED
      BY <2>1, <2>2, <2>3 DEF OneHistory
  <1>5. CASE d \notin Exits
    <2>1. d = c /\ cmd[c] = "queued" /\ cmd'[c] = "delivered" /\ lots' = lots - 1
      BY <1>1, <1>3, <1>5, KindsOfIds DEF OnePartial
    <2>2. c \notin done.executed /\ c \in done'.executed
      BY <1>1, <1>3, <2>1 DEF BrokerFacts
    <2>3. LotsTell(c)'
      BY <1>1, <1>3, <2>1, <2>2 DEF LotsTell
    <2>4. CountsTruly(mem, c)' /\ CountsTruly(saved, c)'
      BY <1>2, <1>3, <2>1, <2>2 DEF CountsTruly
    <2>5. done'.retried = {} => NeverForgotten(c)'
      <3>1. SUFFICES ASSUME done'.retried = {} PROVE NeverForgotten(c)'
        OBVIOUS
      <3>2. NeverForgotten(c)
        BY <1>3, <3>1 DEF OneHistory
      <3>3. QED
        BY <1>3, <2>1, <3>2 DEF NeverForgotten, Holds
    <2>6. QED
      BY <2>3, <2>4, <2>5 DEF OneHistory
  <1>6. QED
    BY <1>4, <1>5

\* A step of the runner that leaves the row of the partial close, and keeps
\* the tracker or saves the one in use.
LEMMA OneSame ==
    ASSUME ManagedTypes, NEW c \in Partials, OneHistory(c),
           SameTracker(mem, mem'),
           SameTracker(saved, saved') \/ (SameTracker(mem, saved') /\ pc # "down"),
           UNCHANGED <<lots, bar>>, cmd'[c] = cmd[c], context'[c] = context[c],
           done'.executed = done.executed, done.retried \subseteq done'.retried,
           book'.lots = book.lots, book'.after \subseteq book.after,
           view'.lots \in {0, view.lots, book.lots},
           pc' = "reconcile" => view'.lots = book.lots /\ view'.after \subseteq book.after,
           pc # "down", pc' # "down",
           pc = "save" => pc' = "save" \/ SameTracker(mem, saved'),
           pc = "save" => changed.mark \subseteq changed'.mark \/ SameTracker(mem, saved')
    PROVE  OneHistory(c)'
  <1>1. LotsTell(c) /\ CountsTruly(mem, c) /\ CountsTruly(saved, c)
    BY DEF OneHistory
  <1>2. LotsTell(c)'
    BY <1>1 DEF LotsTell
  <1>3. CountsTruly(mem, c)' /\ CountsTruly(saved, c)'
    BY <1>1 DEF CountsTruly, SameTracker
  <1>4. ASSUME lots' > 0, done'.retried = {} PROVE NeverForgotten(c)'
    <2>1. NeverForgotten(c)
      BY <1>4 DEF OneHistory
    <2>2. QED
      BY <2>1 DEF NeverForgotten, Holds, SameTracker
  <1>5. QED
    BY <1>2, <1>3, <1>4 DEF OneHistory

\* The loop reconciles: the command is confirmed only if the broker executed
\* it, and given up, while the position lives, only if it never will be.
LEMMA OneReconcile ==
    ASSUME OnePartial, ManagedTypes, BrokerFacts, NEW c \in Partials, OneHistory(c), Reconcile
    PROVE  OneHistory(c)'
  <1>1. /\ lots \in Nat /\ book.lots \in Nat /\ view.lots \in Nat /\ InitialLots \in Nat
        /\ mem.count \in Nat /\ mem.pendLots \in Nat /\ c \in Ids /\ c # NoId
    BY OneNumbers
  <1>2. LotsTell(c) /\ CountsTruly(mem, c) /\ CountsTruly(saved, c)
    BY DEF OneHistory
  <1>3. /\ pc = "reconcile" /\ pc' = "submit"
        /\ mem' = ExitsReconciled(Pruned(PartialReconciled(mem)))
        /\ UNCHANGED <<lots, cmd, context, book, bar, view, saved, done>>
    BY DEF Reconcile
  <1>4. ManagedTypeOK
    BY DEF ManagedTypes
  <1>5. PICK p \in Memory : Resolves(mem, p) /\ Prunes(p, mem')
    <2>1. \A n : n = ExitsReconciled(Pruned(PartialReconciled(mem))) =>
              \E p \in Memory : Resolves(mem, p) /\ Prunes(p, n)
      BY <1>4, ReconciledTracker
    <2>2. QED
      BY <1>3, <2>1
  <1>6. lots <= view.lots
    BY <1>1, <1>3 DEF BrokerFacts, Reading
  <1>7. mem.pend \in Partials => mem.pend = c
    BY DEF OnePartial
  <1>8. LotsTell(c)'
    BY <1>2, <1>3 DEF LotsTell
  <1>9. CountsTruly(saved, c)'
    BY <1>2, <1>3 DEF CountsTruly
  <1>10. ASSUME CountsTruly(mem, c)',
                lots > 0 /\ done.retried = {} =>
                    /\ mem'.pend = c => mem'.pendLots = InitialLots
                    /\ cmd[c] = "queued" \/ c \in done.executed => Holds(mem', c)
         PROVE  OneHistory(c)'
    <2>1. ASSUME lots' > 0, done'.retried = {} PROVE NeverForgotten(c)'
      <3>1. NeverForgotten(c)
        BY <1>3, <2>1 DEF OneHistory
      <3>2. QED
        BY <1>3, <1>10, <2>1, <3>1 DEF NeverForgotten, Holds
    <2>2. QED
      BY <1>8, <1>9, <1>10, <2>1 DEF OneHistory
  <1>11. ASSUME lots > 0, done.retried = {}
         PROVE  /\ mem.pend = c => mem.pendLots = InitialLots
                /\ cmd[c] = "queued" \/ c \in done.executed => Holds(mem, c)
    BY <1>3, <1>11 DEF OneHistory, NeverForgotten
  <1>12. CASE ~SameTracker(p, mem')
    <2>1. /\ view.lots = 0 /\ mem'.count = 0 /\ mem'.pend = NoId /\ mem'.pendLots = 0
          /\ mem'.settled = {}
      BY <1>5, <1>12 DEF Prunes
    <2>2. CountsTruly(mem, c)'
      BY <1>1, <2>1 DEF CountsTruly
    <2>3. ~(lots > 0)
      BY <1>1, <1>6, <2>1
    <2>4. QED
      BY <1>10, <2>2, <2>3
  <1>13. CASE SameTracker(p, mem') /\ SameTracker(mem, p)
    <2>1. SameTracker(mem, mem')
      BY <1>13 DEF SameTracker
    <2>2. CountsTruly(mem, c)'
      BY <1>2, <1>3, <2>1 DEF CountsTruly, SameTracker
    <2>3. QED
      BY <1>10, <1>11, <2>1, <2>2 DEF Holds, SameTracker
  <1>14. CASE /\ SameTracker(p, mem') /\ mem.pend \in Partials /\ PartialConfirmed(mem.pend)
              /\ p.count = mem.count + 1 /\ p.cool = mem.pend
              /\ p.pend = NoId /\ p.pendLots = 0 /\ p.settled = mem.settled \cup {mem.pend}
    <2>1. mem.pend = c /\ PartialConfirmed(c) /\ mem.count = 0 /\ cmd[c] # "absent"
      BY <1>1, <1>2, <1>7, <1>14 DEF CountsTruly
    <2>2. c \in done.executed
      <3>1. CASE cmd[c] = "acked"
        BY <1>1, <3>1 DEF BrokerFacts
      <3>2. CASE view.lots > 0 /\ view.lots < mem.pendLots
        BY <1>1, <1>2, <3>2 DEF LotsTell, CountsTruly
      <3>3. QED
        BY <2>1, <3>1, <3>2 DEF PartialConfirmed
    <2>3. /\ mem'.count = 1 /\ mem'.cool = c /\ mem'.pend = NoId /\ mem'.pendLots = 0
          /\ c \in mem'.settled
      BY <1>14, <2>1 DEF SameTracker
    <2>4. CountsTruly(mem, c)'
      BY <1>1, <1>3, <2>1, <2>2, <2>3 DEF CountsTruly
    <2>5. QED
      BY <1>1, <1>10, <2>3, <2>4 DEF Holds
  <1>15. CASE /\ SameTracker(p, mem') /\ mem.pend \in Partials /\ ~PartialConfirmed(mem.pend)
              /\ cmd[mem.pend] = "expired" \/ PartialUnchanged(mem.pend)
              /\ p.count = mem.count /\ p.cool = mem.cool
              /\ p.pend = NoId /\ p.pendLots = 0 /\ p.settled = mem.settled \cup {mem.pend}
    <2>1. mem.pend = c /\ ~PartialConfirmed(c) /\ mem.count = 0 /\ cmd[c] # "absent"
      BY <1>1, <1>2, <1>7, <1>15 DEF CountsTruly
    <2>2. mem'.count = 0 /\ mem'.pend = NoId /\ mem'.pendLots = 0
      BY <1>15, <2>1 DEF SameTracker
    <2>3. CountsTruly(mem, c)'
      BY <1>1, <1>3, <2>1, <2>2 DEF CountsTruly
    <2>4. ASSUME lots > 0, done.retried = {}
          PROVE  cmd[c] # "queued" /\ c \notin done.executed
      <3>1. cmd[c] # "queued"
        BY <1>15, <2>1 DEF PartialUnchanged, EndedOrUnknown
      <3>2. ASSUME c \in done.executed PROVE FALSE
        <4>1. PartialUnchanged(c)
          BY <1>1, <1>15, <2>1, <3>2 DEF BrokerFacts
        <4>2. view.lots < InitialLots /\ view.advanced
          BY <1>2, <1>3, <3>2, <4>1 DEF PartialUnchanged, LotsTell
        <4>3. view.lots > 0 /\ mem.pendLots = InitialLots
          BY <1>1, <1>6, <1>11, <2>1, <2>4
        <4>4. QED
          BY <2>1, <4>2, <4>3 DEF PartialConfirmed
      <3>3. QED
        BY <3>1, <3>2
    <2>5. QED
      BY <1>1, <1>10, <2>2, <2>3, <2>4
  <1>16. QED
    BY <1>5, <1>12, <1>13, <1>14, <1>15 DEF Resolves

\* The partial close is submitted: it is not counted, and if the broker has
\* not executed it, the view shows the initial lots.
LEMMA OneSubmitPartial ==
    ASSUME OnePartial, ManagedTypes, BrokerFacts, NEW c \in Partials, OneHistory(c),
           NEW d \in Partials, SubmitPartial(d)
    PROVE  OneHistory(c)'
  <1>1. /\ lots \in Nat /\ book.lots \in Nat /\ view.lots \in Nat /\ InitialLots \in Nat
        /\ view.lots <= InitialLots /\ bar \in Nat /\ c.bar \in Nat
        /\ mem \in Memory /\ mem.count \in Nat /\ c \in Ids /\ c # NoId
        /\ cmd \in [Ids -> CmdStatus] /\ context \in [Ids -> 0..InitialLots]
    BY OneNumbers
  <1>2. LotsTell(c) /\ CountsTruly(mem, c) /\ CountsTruly(saved, c) /\ d = c /\ ManagedTypeOK
    BY DEF OneHistory, OnePartial, ManagedTypes
  <1>3. /\ pc = "submit" /\ pc' = "save" /\ c.bar = bar /\ view' = NoView
        /\ view.lots > 1 /\ mem.pend = NoId /\ mem.cool = NoId
        /\ Accepts(c) /\ Enqueued(c)
        /\ mem' = [mem EXCEPT !.pend = c, !.pendLots = view.lots, !.missing = 0]
        /\ UNCHANGED <<lots, bar, saved>>
    BY <1>2 DEF SubmitPartial, PartialAllowed
  <1>4. mem.count = 0
    BY <1>1, <1>2, <1>3 DEF CountsTruly
  <1>5. mem'.count = 0 /\ mem'.pend = c /\ mem'.pendLots = view.lots
    <2>1. mem' = [mem EXCEPT !.pend = c, !.pendLots = view.lots, !.missing = 0]
      BY <1>3
    <2>2. mem'.count = mem.count /\ mem'.pend = c /\ mem'.pendLots = view.lots
      BY <1>1, <2>1 DEF Memory
    <2>3. QED
      BY <1>4, <2>2
  <1>6. /\ done'.executed = done.executed /\ done.retried \subseteq done'.retried
        /\ book'.lots = book.lots /\ book'.after \subseteq book.after
        /\ \/ cmd[c] \in {"queued", "delivered"} /\ UNCHANGED <<cmd, context>>
           \/ /\ cmd[c] \in {"absent", "expired"}
              /\ cmd' = [cmd EXCEPT ![c] = "queued"]
              /\ context' = [context EXCEPT ![c] = view.lots]
              /\ changed'.mark = changed.mark \cup {c}
              /\ cmd[c] = "expired" => c \in done'.retried
    BY <1>1, <1>2, <1>3, EnqueuedEffect
  <1>7. cmd'[c] # "absent" /\ view'.lots = 0
    BY <1>1, <1>3, <1>6 DEF NoView
  <1>8. LotsTell(c)'
    BY <1>2, <1>3, <1>6, <1>7 DEF LotsTell
  <1>9. CountsTruly(mem, c)' /\ CountsTruly(saved, c)'
    BY <1>1, <1>2, <1>3, <1>5, <1>6, <1>7 DEF CountsTruly
  <1>10. ASSUME lots' > 0, done'.retried = {} PROVE NeverForgotten(c)'
    <2>1. NeverForgotten(c) /\ cmd[c] # "expired"
      BY <1>3, <1>6, <1>10 DEF OneHistory
    <2>2. ~Holds(mem, c)
      BY <1>1, <1>3, <1>4 DEF Holds
    <2>3. cmd[c] # "queued" /\ c \notin done.executed
      BY <1>3, <2>1, <2>2 DEF NeverForgotten
    <2>4. view.lots = InitialLots
      BY <1>1, <1>2, <1>3, <2>3 DEF LotsTell
    <2>5. CASE cmd[c] = "delivered"
      BY <1>3, <1>5, <1>6, <2>1, <2>3, <2>4, <2>5 DEF NeverForgotten
    <2>6. CASE cmd[c] = "absent"
      <3>1. cmd'[c] = "queued" /\ context'[c] = InitialLots /\ c \in changed'.mark
        BY <1>1, <1>6, <2>4, <2>6
      <3>2. c \notin saved.settled /\ saved.pend # c
        BY <1>2, <2>6 DEF CountsTruly
      <3>3. QED
        BY <1>3, <1>5, <2>4, <3>1, <3>2 DEF NeverForgotten, Holds
    <2>7. QED
      BY <1>6, <2>1, <2>3, <2>5, <2>6
  <1>11. QED
    BY <1>8, <1>9, <1>10 DEF OneHistory

\* What boot makes of the row of the only partial close.
HydratesOne(c, n) ==
    \/ /\ SameTracker(saved, n)
       /\ \/ ~News(saved, c)
          \/ cmd[c] \notin {"acked", "expired"} /\ saved.pend = c
    \/ /\ News(saved, c) /\ cmd[c] = "acked"
       /\ n.count = saved.count + 1 /\ n.settled = saved.settled \cup {c} /\ n.cool = c
       /\ n.pend = NoId /\ n.pendLots = saved.pendLots
    \/ /\ News(saved, c) /\ cmd[c] = "expired"
       /\ n.count = saved.count /\ n.settled = saved.settled \cup {c} /\ n.cool = saved.cool
       /\ n.pend = saved.pend /\ n.pendLots = saved.pendLots
    \/ /\ News(saved, c) /\ cmd[c] \notin {"acked", "expired"} /\ saved.pend = NoId
       /\ n.count = saved.count /\ n.settled = saved.settled /\ n.cool = saved.cool
       /\ n.pend = c /\ n.pendLots = context[c]

\* Boot reads its row in one of these ways.
LEMMA HydratedOne ==
    ASSUME OnePartial, ManagedTypes, NEW c \in Partials
    PROVE  HydratesOne(c, Hydrated)
  <1>1. /\ saved \in Memory /\ ManagedTypeOK /\ c \in Ids /\ c # NoId /\ saved.count \in Nat
    BY OneNumbers DEF ManagedTypes
  <1>2. saved.pend = c \/ saved.pend = NoId
    BY <1>1 DEF Memory, OnePartial
  <1>3. saved.settled \cup {} = saved.settled
    OBVIOUS
  <1>4. PICK n : n = Hydrated
    OBVIOUS
  <1>5. /\ n.count = saved.count + Cardinality(NewsAcked)
        /\ n.settled = saved.settled \cup NewsOver
        /\ n.cool = IF NewsAcked = {} THEN saved.cool ELSE Latest(NewsAcked)
        /\ NewsWaiting # {} => /\ n.pend = Earliest(NewsWaiting)
                               /\ n.pendLots = context[Earliest(NewsWaiting)]
        /\ NewsWaiting = {} => /\ n.pend = IF saved.pend \in NewsAcked THEN NoId ELSE saved.pend
                               /\ n.pendLots = saved.pendLots
    BY <1>1, <1>4, HydratedTracker
  <1>6. \A d \in Partials : d = c
    BY DEF OnePartial
  <1>7. Cardinality({}) = 0 /\ Cardinality({c}) = 1
    BY FS_EmptySet, FS_Singleton
  <1>8. Earliest({c}) = c /\ Latest({c}) = c
    BY EarliestAndLatest
  <1>9. CASE ~News(saved, c)
    <2>1. NewsAcked = {} /\ NewsOver = {} /\ NewsWaiting = {}
      BY <1>6, <1>9 DEF NewsAcked, NewsOver, NewsWaiting
    <2>2. SameTracker(saved, n)
      BY <1>1, <1>3, <1>5, <1>7, <2>1 DEF SameTracker
    <2>3. QED
      BY <1>4, <1>9, <2>2 DEF HydratesOne
  <1>10. CASE News(saved, c) /\ cmd[c] = "acked"
    <2>1. NewsAcked = {c} /\ NewsOver = {c} /\ NewsWaiting = {}
      BY <1>6, <1>10 DEF NewsAcked, NewsOver, NewsWaiting
    <2>2. QED
      BY <1>2, <1>4, <1>5, <1>7, <1>8, <1>10, <2>1 DEF HydratesOne
  <1>11. CASE News(saved, c) /\ cmd[c] = "expired"
    <2>1. NewsAcked = {} /\ NewsOver = {c} /\ NewsWaiting = {}
      BY <1>6, <1>11 DEF NewsAcked, NewsOver, NewsWaiting
    <2>2. QED
      BY <1>1, <1>4, <1>5, <1>7, <1>11, <2>1 DEF HydratesOne
  <1>12. CASE News(saved, c) /\ cmd[c] \notin {"acked", "expired"} /\ saved.pend = NoId
    <2>1. NewsAcked = {} /\ NewsOver = {} /\ NewsWaiting = {c}
      BY <1>6, <1>12 DEF NewsAcked, NewsOver, NewsWaiting
    <2>2. QED
      BY <1>1, <1>3, <1>4, <1>5, <1>7, <1>8, <1>12, <2>1 DEF HydratesOne
  <1>13. CASE News(saved, c) /\ cmd[c] \notin {"acked", "expired"} /\ saved.pend = c
    <2>1. NewsAcked = {} /\ NewsOver = {} /\ NewsWaiting = {}
      BY <1>1, <1>6, <1>13 DEF NewsAcked, NewsOver, NewsWaiting
    <2>2. SameTracker(saved, n)
      BY <1>1, <1>3, <1>5, <1>7, <2>1 DEF SameTracker
    <2>3. QED
      BY <1>4, <1>13, <2>2 DEF HydratesOne
  <1>14. QED
    BY <1>2, <1>9, <1>10, <1>11, <1>12, <1>13

\* Boot recovers what the saved memory missed, and counts nothing twice.
LEMMA OneBoot ==
    ASSUME OnePartial, ManagedTypes, BrokerFacts, NEW c \in Partials, OneHistory(c), Boot
    PROVE  OneHistory(c)'
  <1>1. /\ saved.count \in Nat /\ saved.pendLots \in Nat /\ InitialLots \in Nat
        /\ c \in Ids /\ c # NoId /\ context[c] \in 0..InitialLots
        /\ book \in [lots : 0..InitialLots, new : BOOLEAN, after : SUBSET Ids]
    BY OneNumbers DEF ManagedTypes, ManagedTypeOK
  <1>2. LotsTell(c) /\ CountsTruly(saved, c)
    BY DEF OneHistory
  <1>3. /\ pc = "down" /\ pc' = "purge" /\ mem' = Hydrated /\ saved' = Hydrated
        /\ book' = [book EXCEPT !.new = FALSE]
        /\ UNCHANGED <<lots, cmd, context, bar, view, done>>
    BY DEF Boot
  <1>4. book'.lots = book.lots /\ book'.after = book.after
    BY <1>1, <1>3
  <1>5. LotsTell(c)'
    BY <1>2, <1>3, <1>4 DEF LotsTell
  <1>6. PICK n : n = Hydrated
    OBVIOUS
  <1>7. HydratesOne(c, n)
    BY <1>6, HydratedOne
  <1>8. cmd[c] = "acked" => c \in done.executed
    BY <1>1 DEF BrokerFacts
  <1>9. CountsTruly(n, c)
    <2>1. News(saved, c) => saved.count = 0 /\ cmd[c] # "absent"
      BY <1>1, <1>2 DEF News, CountsTruly
    <2>2. CASE SameTracker(saved, n)
      BY <1>2, <2>2 DEF CountsTruly, SameTracker
    <2>3. CASE News(saved, c) /\ ~SameTracker(saved, n)
      <3>1. /\ n.count = 0 \/ (n.count = 1 /\ cmd[c] = "acked" /\ c \in n.settled
                               /\ n.pend = NoId /\ n.cool = c)
            /\ n.pendLots <= InitialLots
        BY <1>1, <1>2, <1>7, <2>1, <2>3 DEF HydratesOne, CountsTruly
      <3>2. QED
        BY <1>8, <2>1, <2>3, <3>1 DEF CountsTruly
    <2>4. QED
      BY <1>7, <2>2, <2>3 DEF HydratesOne
  <1>10. CountsTruly(mem, c)' /\ CountsTruly(saved, c)'
    BY <1>3, <1>6, <1>9 DEF CountsTruly
  <1>11. ASSUME lots' > 0, done'.retried = {} PROVE NeverForgotten(c)'
    <2>1. NeverForgotten(c)
      BY <1>3, <1>11 DEF OneHistory
    <2>2. n.pend = c => n.pendLots = InitialLots
      BY <1>1, <1>7, <2>1 DEF HydratesOne, NeverForgotten, SameTracker, News
    <2>3. ASSUME cmd[c] = "queued" \/ c \in done.executed PROVE Holds(n, c)
      <3>1. cmd[c] \notin {"absent", "expired"}
        BY <1>1, <2>3 DEF BrokerFacts
      <3>2. Holds(saved, c) \/ News(saved, c)
        BY <1>3, <2>1, <2>3, <3>1 DEF NeverForgotten, News
      <3>3. News(saved, c) => saved.count = 0
        BY <1>1, <1>2 DEF News, CountsTruly
      <3>4. CASE /\ SameTracker(saved, n)
                 /\ \/ ~News(saved, c)
                    \/ cmd[c] \notin {"acked", "expired"} /\ saved.pend = c
        BY <3>2, <3>4 DEF Holds, SameTracker
      <3>5. CASE News(saved, c) /\ n.count = saved.count + 1
        <4>1. n.count = 1
          BY <3>3, <3>5
        <4>2. QED
          BY <4>1 DEF Holds
      <3>6. CASE n.pend = c
        BY <3>6 DEF Holds
      <3>7. QED
        BY <1>7, <3>1, <3>4, <3>5, <3>6 DEF HydratesOne
    <2>4. QED
      BY <1>3, <1>6, <2>1, <2>2, <2>3 DEF NeverForgotten, Holds
  <1>12. QED
    BY <1>5, <1>10, <1>11 DEF OneHistory

\* The startup purge, a crash, and the end of the cooldown.
LEMMA OnePurgeCrashCooldown ==
    ASSUME OnePartial, ManagedTypes, BrokerFacts, NEW c \in Partials, OneHistory(c),
           Purge \/ Crash \/ CooldownOver
    PROVE  OneHistory(c)'
  <1>1. /\ c \in Ids /\ c # NoId /\ InitialLots \in Nat /\ mem \in Memory /\ saved \in Memory
        /\ mem.count \in Nat /\ saved.count \in Nat
    BY OneNumbers
  <1>2. LotsTell(c) /\ CountsTruly(mem, c) /\ CountsTruly(saved, c) /\ ManagedTypeOK
    BY DEF OneHistory, ManagedTypes
  <1>3. CASE Purge
    <2>1. /\ pc = "purge" /\ pc' = "idle"
          /\ UNCHANGED <<lots, context, bar, mem, saved, done>>
          /\ book'.lots = book.lots /\ book'.after \subseteq book.after
          /\ view'.lots = view.lots /\ view'.after \subseteq view.after
      BY <1>2, <1>3, PurgeEffect
    <2>2. /\ cmd'[c] = "absent" => cmd[c] = "absent"
          /\ cmd'[c] # "absent" => cmd[c] # "absent"
          /\ cmd'[c] = "queued" => cmd[c] = "queued"
      BY <1>1, <1>2, <1>3, PurgeEffect
    <2>3. LotsTell(c)'
      BY <1>2, <2>1 DEF LotsTell
    <2>4. CountsTruly(mem, c)' /\ CountsTruly(saved, c)'
      BY <1>2, <2>1, <2>2 DEF CountsTruly
    <2>5. ASSUME lots' > 0, done'.retried = {} PROVE NeverForgotten(c)'
      <3>1. NeverForgotten(c)
        BY <2>1, <2>5 DEF OneHistory
      <3>2. QED
        BY <2>1, <2>2, <3>1 DEF NeverForgotten, Holds
    <2>6. QED
      BY <2>3, <2>4, <2>5 DEF OneHistory
  <1>4. CASE Crash
    <2>1. /\ pc # "down" /\ pc' = "down" /\ mem' = NoMemory /\ view' = NoView
          /\ changed' = [changed EXCEPT !.loop = {}]
          /\ UNCHANGED <<lots, cmd, context, book, bar, saved, done>>
      BY <1>4 DEF Crash
    <2>2. changed'.mark = changed.mark /\ view'.lots = 0
      BY <1>2, <2>1 DEF ManagedTypeOK, NoView
    <2>3. LotsTell(c)'
      BY <1>2, <2>1, <2>2 DEF LotsTell
    <2>4. CountsTruly(mem, c)'
      BY <1>1, <2>1, NoMemoryType DEF CountsTruly
    <2>5. CountsTruly(saved, c)'
      BY <1>2, <2>1 DEF CountsTruly
    <2>6. ASSUME lots' > 0, done'.retried = {} PROVE NeverForgotten(c)'
      <3>1. NeverForgotten(c)
        BY <2>1, <2>6 DEF OneHistory
      <3>2. QED
        BY <1>1, <2>1, <2>2, <3>1, NoMemoryType DEF NeverForgotten, Holds
    <2>7. QED
      BY <2>3, <2>4, <2>5, <2>6 DEF OneHistory
  <1>5. CASE CooldownOver
    <2>1. PICK m \in {mem.cool, saved.cool} \ {NoId} : m.bar < bar
      BY <1>5 DEF CooldownOver
    <2>2. m = c
      BY <1>1, <2>1 DEF Memory, OnePartial
    <2>3. /\ mem' = [mem EXCEPT !.cool = NoId] /\ saved' = [saved EXCEPT !.cool = NoId]
          /\ UNCHANGED <<lots, cmd, context, book, bar, pc, view, changed, done>>
      BY <1>5 DEF CooldownOver
    <2>4. /\ mem'.count = mem.count /\ mem'.pend = mem.pend /\ mem'.pendLots = mem.pendLots
          /\ mem'.settled = mem.settled
          /\ saved'.count = saved.count /\ saved'.pend = saved.pend
          /\ saved'.pendLots = saved.pendLots /\ saved'.settled = saved.settled
      BY <1>1, <2>3 DEF Memory
    <2>5. LotsTell(c)'
      BY <1>2, <2>3 DEF LotsTell
    <2>6. CountsTruly(mem, c)' /\ CountsTruly(saved, c)'
      BY <1>2, <2>1, <2>2, <2>3, <2>4 DEF CountsTruly
    <2>7. ASSUME lots' > 0, done'.retried = {} PROVE NeverForgotten(c)'
      <3>1. NeverForgotten(c)
        BY <2>3, <2>7 DEF OneHistory
      <3>2. QED
        BY <2>3, <2>4, <3>1 DEF NeverForgotten, Holds
    <2>8. QED
      BY <2>5, <2>6, <2>7 DEF OneHistory
  <1>6. QED
    BY <1>3, <1>4, <1>5

\* Every step of the runner, crashes included, keeps the history of the only
\* partial close.
LEMMA OneRunner ==
    ASSUME OnePartial, ManagedTypes, BrokerFacts, NEW c \in Partials, OneHistory(c),
           Cycle \/ Crash \/ CooldownOver
    PROVE  OneHistory(c)'
  <1>1. ManagedTypeOK /\ mem \in Memory /\ c \in Ids
    BY OneNumbers DEF ManagedTypes
  <1>2. SameTracker(mem, mem) /\ SameTracker(saved, saved)
    BY DEF SameTracker
  <1>3. ASSUME NEW d \in Exits, SubmitExit(d) PROVE OneHistory(c)'
    <2>1. /\ pc = "submit" /\ pc' = "save" /\ view' = NoView /\ Accepts(d) /\ Enqueued(d)
          /\ mem' = [mem EXCEPT !.ledger = [mem.ledger EXCEPT ![d] = "pending"]]
          /\ UNCHANGED <<lots, bar, saved>>
      BY <1>3 DEF SubmitExit
    <2>2. SameTracker(mem, mem')
      BY <1>1, <2>1 DEF Memory, SameTracker
    <2>3. /\ done'.executed = done.executed /\ done.retried \subseteq done'.retried
          /\ book'.lots = book.lots /\ book'.after \subseteq book.after
          /\ \/ UNCHANGED <<cmd, context>>
             \/ /\ cmd' = [cmd EXCEPT ![d] = "queued"]
                /\ context' = [context EXCEPT ![d] = view.lots]
      BY <1>1, <2>1, KindsOfIds, EnqueuedEffect
    <2>4. cmd'[c] = cmd[c] /\ context'[c] = context[c]
      <3>1. /\ cmd \in [Ids -> CmdStatus] /\ context \in [Ids -> 0..InitialLots]
            /\ c \in Ids /\ d # c
        BY <1>1, KindsOfIds DEF ManagedTypeOK
      <3>2. QED
        BY <2>3, <3>1
    <2>5. SameTracker(saved, saved') /\ view'.lots = 0
      BY <1>2, <2>1 DEF NoView
    <2>6. QED
      BY <2>1, <2>2, <2>3, <2>4, <2>5, OneSame
  <1>4. CASE SubmitTighten \/ SubmitNothing
    <2>1. /\ pc = "submit" /\ pc' = "save" /\ view' = NoView
          /\ UNCHANGED <<lots, cmd, context, book, bar, mem, saved, changed, done>>
      BY <1>4 DEF SubmitTighten, SubmitNothing
    <2>2. SameTracker(mem, mem') /\ SameTracker(saved, saved') /\ view'.lots = 0
      BY <1>2, <2>1 DEF NoView
    <2>3. QED
      BY <2>1, <2>2, OneSame
  <1>5. CASE LoopRead
    <2>1. /\ pc = "idle" /\ pc' = "reconcile"
          /\ view'.lots = book.lots /\ view'.after = book.after
          /\ book' = [book EXCEPT !.new = FALSE]
          /\ UNCHANGED <<lots, cmd, context, bar, mem, saved, done>>
      BY <1>5 DEF LoopRead
    <2>2. book'.lots = book.lots /\ book'.after = book.after
      BY <1>1, <2>1 DEF ManagedTypeOK
    <2>3. SameTracker(mem, mem') /\ SameTracker(saved, saved')
      BY <1>2, <2>1
    <2>4. QED
      BY <2>1, <2>2, <2>3, OneSame
  <1>6. CASE Save
    <2>1. /\ pc = "save" /\ pc' = "touch" /\ saved' = mem
          /\ UNCHANGED <<lots, cmd, context, book, bar, view, mem, done>>
      BY <1>6 DEF Save
    <2>2. SameTracker(mem, mem') /\ SameTracker(mem, saved')
      BY <1>2, <2>1
    <2>3. QED
      BY <2>1, <2>2, OneSame
  <1>7. CASE Touch
    <2>1. /\ pc = "touch" /\ pc' = "idle"
          /\ UNCHANGED <<lots, cmd, context, book, bar, view, mem, saved, done>>
      BY <1>7 DEF Touch
    <2>2. SameTracker(mem, mem') /\ SameTracker(saved, saved')
      BY <1>2, <2>1
    <2>3. QED
      BY <2>1, <2>2, OneSame
  <1>8. QED
    BY <1>3, <1>4, <1>5, <1>6, <1>7, OneReconcile, OneSubmitPartial, OneBoot,
       OnePurgeCrashCooldown DEF Cycle
-----------------------------------------------------------------------------
(* Both histories together                                                  *)

\* The history is exact while no runner has crashed, and that of a single
\* partial close whatever crashed.
HistoryInvariant ==
    /\ ManagedTypes
    /\ BrokerFacts
    /\ crashes = 0 => ExactHistory
    /\ OnePartial => \A c \in Partials : OneHistory(c)

\* A new runner has nothing to remember.
LEMMA HistoryInit == ManagedInit => HistoryInvariant
  <1> SUFFICES ASSUME ManagedInit PROVE HistoryInvariant
    OBVIOUS
  <1>1. /\ lots = InitialLots /\ book.lots = InitialLots /\ pc = "idle" /\ bar = 1
        /\ mem = NoMemory /\ saved = NoMemory /\ done.executed = {}
        /\ cmd = [c \in Ids |-> "absent"]
    BY DEF ManagedInit
  <1>2. Executed = {} /\ ~Reading /\ NoId \notin Partials
    BY <1>1, ManagedAssumption DEF Executed, Reading, Partials
  <1>3. \A c \in Partials : cmd[c] # "queued"
    BY <1>1, KindsOfIds
  <1>4. WatchedOrPast
    BY <1>1, <1>2, <1>3, NoMemoryType DEF WatchedOrPast
  <1>5. PendingLotsTell
    BY <1>1, <1>2, NoMemoryType DEF PendingLotsTell
  <1>6. CountExact
    <2>1. Executed \ {mem.pend} = {} /\ Cardinality({}) = 0
      BY <1>2, FS_EmptySet
    <2>2. QED
      BY <1>1, <1>2, <2>1, NoMemoryType DEF CountExact
  <1>7. ExactHistory
    BY <1>1, <1>4, <1>5, <1>6 DEF ExactHistory
  <1>8. QED
    BY <1>7, ManagedTypesInit, BrokerFactsInit, OneInit DEF HistoryInvariant

\* Both histories read only these variables.
LEMMA HistoryStutter ==
    ASSUME HistoryInvariant, UNCHANGED managedVars PROVE HistoryInvariant'
  <1>1. /\ lots' = lots /\ cmd' = cmd /\ context' = context /\ owed' = owed /\ book' = book
        /\ bar' = bar /\ pc' = pc /\ view' = view /\ mem' = mem /\ saved' = saved
        /\ changed' = changed /\ crashes' = crashes /\ done' = done
    BY DEF managedVars
  <1>2. ManagedTypes'
    BY ManagedTypesStep DEF HistoryInvariant
  <1>3. BrokerFacts'
    BY <1>1 DEF HistoryInvariant, BrokerFacts, Reading
  <1>4. crashes = 0 => ExactHistory'
    <2>1. SUFFICES ASSUME ExactHistory PROVE ExactHistory'
      BY DEF HistoryInvariant
    <2>2. Executed' = Executed /\ (Reading' <=> Reading) /\ (ClosedInSight' <=> ClosedInSight)
      BY <1>1 DEF Executed, Reading, ClosedInSight
    <2>3. WatchedOrPast'
      BY <1>1, <2>1, <2>2 DEF ExactHistory, WatchedOrPast, Watched
    <2>4. PendingLotsTell' /\ CountExact'
      BY <1>1, <2>1, <2>2 DEF ExactHistory, PendingLotsTell, CountExact
    <2>5. QED
      BY <1>1, <2>1, <2>3, <2>4 DEF ExactHistory
  <1>5. ASSUME OnePartial, NEW c \in Partials PROVE OneHistory(c)'
    <2>1. OneHistory(c)
      BY <1>5 DEF HistoryInvariant
    <2>2. QED
      BY <1>1, <2>1 DEF OneHistory, LotsTell, CountsTruly, NeverForgotten, Holds
  <1>6. QED
    BY <1>1, <1>2, <1>3, <1>4, <1>5 DEF HistoryInvariant, OnePartial

\* Only a crash is counted.
LEMMA CrashesCounted ==
    ASSUME ManagedTypes, ManagedNext
    PROVE  crashes' = 0 => crashes = 0 /\ ~Crash
  <1>1. crashes \in Nat /\ (Crash => crashes' # 0)
    <2>1. crashes \in Nat
      BY ManagedAssumption DEF ManagedTypes, ManagedTypeOK
    <2>2. QED
      BY <2>1 DEF Crash
  <1>2. CASE Cycle
    BY <1>1, <1>2 DEF Cycle, LoopRead, Reconcile, SubmitExit, SubmitPartial, SubmitTighten,
                SubmitNothing, Save, Touch, Boot, Purge
  <1>3. CASE Crash
    BY <1>1, <1>3
  <1>4. CASE \E c \in Ids : Deliver(c) \/ Expire(c)
    BY <1>1, <1>4 DEF Deliver, Expire
  <1>5. CASE AckArrives \/ AckLost \/ StoppedOut \/ PostSnapshot \/ NewBar \/ CooldownOver
    BY <1>1, <1>5 DEF AckArrives, AckLost, StoppedOut, PostSnapshot, NewBar, CooldownOver
  <1>6. QED
    BY <1>2, <1>3, <1>4, <1>5 DEF ManagedNext

\* Every step keeps both histories.
LEMMA HistoryStep == HistoryInvariant /\ [ManagedNext]_managedVars => HistoryInvariant'
  <1> SUFFICES ASSUME HistoryInvariant, ManagedNext PROVE HistoryInvariant'
    BY HistoryStutter
  <1>1. ManagedTypes /\ BrokerFacts
    BY DEF HistoryInvariant
  <1>2. ManagedTypes'
    BY <1>1, ManagedTypesStep
  <1>3. \/ Quiet \/ \E d \in Ids : Executes(d)
        \/ Cycle \/ Crash \/ CooldownOver
    BY <1>1, WorldSteps DEF ManagedNext
  <1>4. BrokerFacts'
    BY <1>1, <1>3, BrokerFactsWorld, BrokerFactsRunner
  <1>5. crashes' = 0 => ExactHistory'
    <2>1. SUFFICES ASSUME crashes' = 0 PROVE ExactHistory'
      OBVIOUS
    <2>2. crashes = 0 /\ ~Crash
      BY <1>1, <2>1, CrashesCounted
    <2>3. ExactHistory
      BY <2>2 DEF HistoryInvariant
    <2>4. CASE Quiet \/ \E d \in Ids : Executes(d)
      BY <1>1, <2>3, <2>4, ExactQuiet, ExactExecutes
    <2>5. CASE Cycle \/ CooldownOver
      BY <1>1, <2>3, <2>5, ExactRunner
    <2>6. QED
      BY <1>3, <2>1, <2>2, <2>4, <2>5
  <1>6. ASSUME OnePartial, NEW c \in Partials PROVE OneHistory(c)'
    <2>1. OneHistory(c)
      BY <1>6 DEF HistoryInvariant
    <2>2. CASE Quiet
      BY <1>1, <2>1, <2>2, OneQuiet
    <2>3. ASSUME NEW d \in Ids, Executes(d) PROVE OneHistory(c)'
      BY <1>1, <1>6, <2>1, <2>3, OneExecutes
    <2>4. CASE Cycle \/ Crash \/ CooldownOver
      BY <1>1, <1>6, <2>1, <2>4, OneRunner
    <2>5. QED
      BY <1>3, <2>2, <2>3, <2>4
  <1>7. QED
    BY <1>2, <1>4, <1>5, <1>6 DEF HistoryInvariant, OnePartial

\* Both histories hold in every state.
THEOREM HistoryInvariantHolds == ManagedSpec => []HistoryInvariant
  BY HistoryInit, HistoryStep, PTL DEF ManagedSpec

\* One identity is the only partial close of an instance that has one.
LEMMA OneOfOne ==
    ASSUME Cardinality(Partials) = 1
    PROVE  OnePartial /\ \E c \in Partials : Partials = {c}
  <1>1. \E c : Partials = {c}
    BY PartialsFinite, FS_Singleton
  <1>2. QED
    BY <1>1 DEF OnePartial

\* No partial close is counted, in memory or in managed_position_state, that
\* the broker did not execute: not by a lost acknowledgement, a lot reduction
\* in a snapshot, an expiry, a retry or, for a single command, a restart.
THEOREM PartialsCountedExecuted == ManagedSpec => []PartialsNotOvercounted
  <1>1. HistoryInvariant => PartialsNotOvercounted
    <2>1. SUFFICES ASSUME HistoryInvariant, HistoryExact
                   PROVE  mem.count <= Cardinality(Executed) /\ saved.count <= Cardinality(Executed)
      BY DEF PartialsNotOvercounted, Executed
    <2>2. /\ mem.count \in Nat /\ saved.count \in Nat /\ Executed \in SUBSET Partials
          /\ Cardinality(Executed) \in Nat
      BY <2>1, HistoryNumbers, CountType DEF HistoryInvariant
    <2>3. CASE crashes = 0
      <3>1. CountExact
        BY <2>1, <2>3 DEF HistoryInvariant, ExactHistory
      <3>2. /\ Cardinality(Executed \ {mem.pend}) <= Cardinality(Executed)
            /\ Cardinality(Executed \ {mem.pend}) \in Nat
        BY <2>2, CountType
      <3>3. QED
        BY <2>2, <3>1, <3>2 DEF CountExact
    <2>4. CASE Cardinality(Partials) = 1
      <3>1. PICK c \in Partials : Partials = {c}
        BY <2>4, OneOfOne
      <3>2. CountsTruly(mem, c) /\ CountsTruly(saved, c)
        BY <2>1, <2>4, OneOfOne DEF HistoryInvariant, OneHistory
      <3>3. CASE c \in done.executed
        <4>1. Executed = {c}
          BY <3>1, <3>3 DEF Executed
        <4>2. Cardinality(Executed) = 1
          BY <4>1, FS_Singleton
        <4>3. QED
          BY <3>2, <4>2 DEF CountsTruly
      <3>4. CASE c \notin done.executed
        <4>1. mem.count = 0 /\ saved.count = 0
          BY <2>2, <3>2, <3>4 DEF CountsTruly
        <4>2. QED
          BY <2>2, <4>1
      <3>5. QED
        BY <3>3, <3>4
    <2>5. QED
      BY <2>1, <2>3, <2>4 DEF HistoryExact
  <1>2. QED
    BY <1>1, HistoryInvariantHolds, PTL

\* Between two cycles, while the position lives, every partial close that the
\* broker executed is counted, or pending, in managed_position_state: the limit
\* max_partial_closes_per_position is never exceeded by a forgotten one.
THEOREM PartialsRemembered == ManagedSpec => []PartialsNotForgotten
  <1>1. HistoryInvariant => PartialsNotForgotten
    <2>1. SUFFICES ASSUME HistoryInvariant, HistoryExact, pc = "idle", lots > 0, done.retried = {}
                   PROVE  Cardinality(Executed)
                              <= saved.count + Cardinality({saved.pend} \cap done.executed)
      BY DEF PartialsNotForgotten, Executed
    <2>2. /\ saved.count \in Nat /\ Executed \in SUBSET Partials
          /\ Cardinality(Executed) \in Nat /\ IsFiniteSet(Executed)
          /\ saved.pend \in Partials \cup {NoId}
      <3>1. ManagedTypes
        BY <2>1 DEF HistoryInvariant
      <3>2. /\ saved \in Memory /\ Executed \in SUBSET Partials
        BY <3>1, HistoryNumbers
      <3>3. QED
        BY <3>2, CountType DEF Memory
    <2>3. /\ Cardinality({}) = 0 /\ Cardinality({saved.pend}) = 1
      BY FS_EmptySet, FS_Singleton
    <2>4. Cardinality({saved.pend} \cap done.executed) =
              IF saved.pend \in done.executed THEN 1 ELSE 0
      <3>1. CASE saved.pend \in done.executed
        <4>1. {saved.pend} \cap done.executed = {saved.pend}
          BY <3>1
        <4>2. QED
          BY <2>3, <3>1, <4>1
      <3>2. CASE saved.pend \notin done.executed
        <4>1. {saved.pend} \cap done.executed = {}
          BY <3>2
        <4>2. QED
          BY <2>3, <3>2, <4>1
      <3>3. QED
        BY <3>1, <3>2
    <2>5. CASE crashes = 0
      <3>1. CountExact
        BY <2>1, <2>5 DEF HistoryInvariant, ExactHistory
      <3>2. saved = mem /\ Cardinality(Executed \ {saved.pend}) <= saved.count
        BY <2>1, <3>1 DEF CountExact
      <3>3. CASE saved.pend \in Executed
        <4>1. Cardinality(Executed \ {saved.pend}) = Cardinality(Executed) - 1
          BY <2>2, <3>3, FS_RemoveElement
        <4>2. saved.pend \in done.executed
          BY <3>3 DEF Executed
        <4>3. QED
          BY <2>2, <2>4, <3>2, <4>1, <4>2
      <3>4. CASE saved.pend \notin Executed
        <4>1. Executed \ {saved.pend} = Executed
          BY <3>4
        <4>2. QED
          BY <2>2, <2>4, <3>2, <4>1
      <3>5. QED
        BY <3>3, <3>4
    <2>6. CASE Cardinality(Partials) = 1
      <3>1. PICK c \in Partials : Partials = {c}
        BY <2>6, OneOfOne
      <3>2. NeverForgotten(c)
        BY <2>1, <2>6, OneOfOne DEF HistoryInvariant, OneHistory
      <3>3. CASE c \in done.executed
        <4>1. Executed = {c}
          BY <3>1, <3>3 DEF Executed
        <4>2. Cardinality(Executed) = 1
          BY <4>1, FS_Singleton
        <4>3. saved.count = 1 \/ saved.pend = c
          BY <2>1, <3>2, <3>3 DEF NeverForgotten, Holds
        <4>4. QED
          BY <2>2, <2>4, <3>3, <4>2, <4>3
      <3>4. CASE c \notin done.executed
        <4>1. Executed = {}
          BY <3>1, <3>4 DEF Executed
        <4>2. QED
          BY <2>2, <2>3, <2>4, <4>1
      <3>5. QED
        BY <3>3, <3>4
    <2>7. QED
      BY <2>1, <2>5, <2>6 DEF HistoryExact
  <1>2. QED
    BY <1>1, HistoryInvariantHolds, PTL
=============================================================================
