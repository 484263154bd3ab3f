--------------------------- MODULE CaptureLedger ---------------------------
(***************************************************************************)
(* The durable ledger of the market-data collector,                        *)
(* tools/capture_ig_mt4_m1_activity_resilient_v3.py over                   *)
(* tools/capture_ig_mt4_m1_activity_resilient.py.  A cycle is reserved in  *)
(* a write-ahead log (the tail registry) before the first GET; its parts,  *)
(* one per UTC hour it touches, are appended to the active journal; a full *)
(* hour becomes an immutable chunk named by a manifest entry.  Each append *)
(* and each finalization is prepared in the log, done, and committed in    *)
(* the log.  The process may die at any write; the next one, started by    *)
(* the watchdog, replays the log before it collects.                       *)
(*                                                                         *)
(* Hashes and sizes are abstracted to the contents they stand for: an      *)
(* entry matches a file when the contents are equal.  The bars and quotes  *)
(* of a cycle are left out; a part is its place in the chain.  One writer  *)
(* at a time (ExclusiveDataWriterLock).  The files start with the genesis  *)
(* record.                                                                 *)
(***************************************************************************)
EXTENDS Integers, FiniteSets, SequencesExt

CONSTANTS MaxCycles,   \* bound: cycles reserved
          MaxKills     \* bound: deaths of the process

ASSUME CaptureAssumption == MaxCycles \in Nat \ {0} /\ MaxKills \in Nat

\* One part of a reserved cycle; a gap part is the evidence recovery writes
\* for a cycle that was interrupted.  newHour: its UTC hour is not the hour
\* of the part before it.
Part == {p \in [cycle : 1..MaxCycles, index : 1..2, of : 1..2,
                newHour : BOOLEAN, gap : BOOLEAN] : p.index <= p.of}

VARIABLES tail,       \* what the tail registry says
          journal,    \* the active journal
          manifest,   \* the manifest: the contents of the chunk each entry names
          chunks,     \* the chunk files, in sequence
          torn,       \* files with half a line, "temp" for a stray temporary file
          receipt,    \* the start-edge receipt exists
          sealed,     \* the post-window receipt exists
          closed,     \* the window has ended
          step,       \* what the process does next
          role,       \* which command runs
          ready,      \* the ledger is open
          plan,       \* parts of the current cycle still to append
          kept,       \* history: parts whose append was committed
          kills       \* deaths so far

captureVars == <<tail, journal, manifest, chunks, torn, receipt, sealed, closed, step,
                 role, ready, plan, kept, kills>>

files == <<journal, manifest, chunks, receipt, sealed>>

NoOp == [op |-> "none"]

NoJournal == [target |-> 0, records |-> <<>>]

Steps == {"down", "redo", "settle", "resolve", "idle", "append", "journal", "commit",
          "finalize", "chunk", "manifest", "clear", "receipt", "refused"}

CaptureTypeOK ==
    /\ tail.entries \in 0..Len(manifest)
    /\ Range(tail.active) \subseteq Part
    /\ tail.pending \in {NoOp, [op |-> "finalize"]}
                          \cup [op : {"append"}, part : Part]
    /\ tail.cycle \in 0..MaxCycles
    /\ {tail.open, tail.first, tail.failed} \subseteq BOOLEAN
    /\ Range(journal.records) \subseteq Part
    /\ journal.target \in 0..(Len(manifest) + 1)
    /\ Len(chunks) \in Len(manifest)..(Len(manifest) + 1)
    /\ torn \subseteq {"wal", "journal", "manifest", "temp"}
    /\ {receipt, sealed, closed, ready} \subseteq BOOLEAN
    /\ step \in Steps
    /\ role \in {"collector", "finalizer"}
    /\ Range(plan) \subseteq Part
    /\ kept \subseteq Part
    /\ kills \in 0..MaxKills

CaptureInit ==
    /\ tail = [entries |-> 0, active |-> <<>>, pending |-> NoOp,
               cycle |-> 0, open |-> FALSE, first |-> FALSE, failed |-> FALSE]
    /\ journal = NoJournal
    /\ manifest = <<>>
    /\ chunks = <<>>
    /\ torn = {}
    /\ receipt = FALSE
    /\ sealed = FALSE
    /\ closed = FALSE
    /\ step = "down"
    /\ role = "collector"
    /\ ready = FALSE
    /\ plan = <<>>
    /\ kept = {}
    /\ kills = 0
-----------------------------------------------------------------------------
(* Append and finalize, in collection and in recovery                       *)

\* What follows when an append or a finalization is over.
Continue(rest) ==
    IF ~ready THEN "redo"
    ELSE IF rest # <<>> THEN "append"
    ELSE IF role = "collector" /\ ~receipt THEN "receipt"
    ELSE "idle"

\* append_cycle in a new hour: the old hour is finalized first.
RollHour ==
    /\ step = "append"
    /\ journal.records # <<>> /\ Head(plan).newHour
    /\ step' = "finalize"
    /\ UNCHANGED <<tail, files, torn, closed, role, ready, plan, kept, kills>>

\* _append_journal_wrapper: the prepare record carries the journal line.
PrepareAppend ==
    /\ step = "append"
    /\ plan # <<>>
    /\ ~(journal.records # <<>> /\ Head(plan).newHour)
    /\ tail' = [tail EXCEPT !.pending = [op |-> "append", part |-> Head(plan)]]
    /\ step' = "journal"
    /\ UNCHANGED <<files, torn, closed, role, ready, plan, kept, kills>>

WriteJournal ==
    /\ step = "journal"
    /\ journal' = [target |-> Len(manifest) + 1,
                   records |-> Append(journal.records, tail.pending.part)]
    /\ step' = "commit"
    /\ UNCHANGED <<tail, manifest, chunks, torn, receipt, sealed, closed, role, ready,
                   plan, kept, kills>>

\* Mutant: the final part does not resolve its cycle.
StillOpenAfterLast(p) == p.index <= p.of

\* _tail_state_for_journal: the final part resolves the cycle.
StillOpen(p) == p.index < p.of

\* _finish_tail_operation for an append.  The first cycle is sealed at once.
CommitAppend ==
    /\ step = "commit"
    /\ tail.pending.op = "append"
    /\ LET p == tail.pending.part
           rest == IF ready THEN Tail(plan) ELSE plan
       IN  /\ tail' = [tail EXCEPT !.pending = NoOp, !.active = Append(@, p),
                                   !.open = @ /\ StillOpen(p)]
           /\ kept' = kept \cup {p}
           /\ plan' = rest
           /\ step' = IF ready /\ manifest = <<>> THEN "finalize" ELSE Continue(rest)
    /\ UNCHANGED <<files, torn, closed, role, ready, kills>>

\* _finalize_active_records.
PrepareFinalize ==
    /\ step = "finalize"
    /\ tail' = [tail EXCEPT !.pending = [op |-> "finalize"]]
    /\ step' = "chunk"
    /\ UNCHANGED <<files, torn, closed, role, ready, plan, kept, kills>>

\* The chunk is published, or the one already there must be the same.
WriteChunk ==
    /\ step = "chunk"
    /\ chunks' = IF Len(chunks) > Len(manifest) THEN chunks
                 ELSE Append(chunks, journal.records)
    /\ step' = IF Last(chunks') = journal.records THEN "manifest" ELSE "refused"
    /\ UNCHANGED <<tail, journal, manifest, torn, receipt, sealed, closed, role, ready,
                   plan, kept, kills>>

WriteManifest ==
    /\ step = "manifest"
    /\ manifest' = Append(manifest, Last(chunks))
    /\ step' = "commit"
    /\ UNCHANGED <<tail, journal, chunks, torn, receipt, sealed, closed, role, ready,
                   plan, kept, kills>>

CommitFinalize ==
    /\ step = "commit"
    /\ tail.pending.op = "finalize"
    /\ tail' = [tail EXCEPT !.pending = NoOp, !.entries = @ + 1, !.active = <<>>]
    /\ step' = "clear"
    /\ UNCHANGED <<files, torn, closed, role, ready, plan, kept, kills>>

\* _clear_active_journal.
ClearJournal ==
    /\ step = "clear"
    /\ journal' = NoJournal
    /\ step' = Continue(plan)
    /\ UNCHANGED <<tail, manifest, chunks, torn, receipt, sealed, closed, role, ready,
                   plan, kept, kills>>
-----------------------------------------------------------------------------
(* Opening the ledger                                                       *)

\* The watchdog, or after the window the operator with --finalize-after-window,
\* starts a process.  Half a line in the manifest or in the registry is
\* refused while the files are read.
Start ==
    /\ step = "down"
    /\ ~sealed
    /\ role' = IF closed THEN "finalizer" ELSE "collector"
    /\ ready' = FALSE
    /\ step' = IF torn \cap {"wal", "manifest"} # {} THEN "refused" ELSE "redo"
    /\ UNCHANGED <<tail, files, torn, closed, plan, kept, kills>>

\* _repair_pending_partial_journal: the rest of the prepared line.
RepairJournal ==
    /\ step = "redo"
    /\ "journal" \in torn
    /\ torn' = torn \ {"journal"}
    /\ journal' = [journal EXCEPT !.records = Append(@, tail.pending.part)]
    /\ UNCHANGED <<tail, manifest, chunks, receipt, sealed, closed, step, role, ready,
                   plan, kept, kills>>

\* _validate_physical_tail_state; a journal that the last entry covers may
\* still be there.
PhysicalMatches ==
    /\ Len(manifest) = tail.entries
    /\ IF tail.active # <<>> THEN journal.records = tail.active
       ELSE journal.records \in {<<>>} \cup (IF manifest = <<>> THEN {} ELSE {Last(manifest)})

\* Mutant: a journal line that was already written is not recognized.
RedoAppendOnlyUnwritten ==
    IF Len(manifest) = tail.entries /\ journal.records = tail.active THEN "journal"
    ELSE "refused"

\* _recover_pending_tail_operation for an append: write the line, or only
\* commit it.
RedoAppend ==
    IF Len(manifest) # tail.entries THEN "refused"
    ELSE IF journal.records = tail.active THEN "journal"
    ELSE IF journal.records = Append(tail.active, tail.pending.part) THEN "commit"
    ELSE "refused"

\* The same for a finalization whose chunk exists.
RedoFinalize ==
    IF journal.records # tail.active \/ Last(chunks) # tail.active THEN "refused"
    ELSE IF Len(manifest) = tail.entries THEN "manifest"
    ELSE "commit"

\* Without a chunk the finalization is taken back.
AbortFinalize ==
    /\ step = "redo"
    /\ tail.pending.op = "finalize"
    /\ Len(chunks) = tail.entries
    /\ tail' = [tail EXCEPT !.pending = NoOp]
    /\ UNCHANGED <<files, torn, closed, step, role, ready, plan, kept, kills>>

Redo ==
    /\ step = "redo"
    /\ "journal" \notin torn
    /\ ~(tail.pending.op = "finalize" /\ Len(chunks) = tail.entries)
    /\ step' = CASE tail.pending.op = "append"   -> RedoAppend
                 [] tail.pending.op = "finalize" -> RedoFinalize
                 [] tail.pending.op = "none"     ->
                      IF PhysicalMatches THEN "settle" ELSE "refused"
    /\ UNCHANGED <<tail, files, torn, closed, role, ready, plan, kept, kills>>

\* Mutant: a journal that the last manifest entry covers is finalized again.
SettledStepAgain == IF journal.records # <<>> THEN "finalize" ELSE "resolve"

\* _recover_active_journal: a covered journal is cleared, another one is
\* finalized.
SettledStep ==
    IF journal.records = <<>> THEN "resolve"
    ELSE IF journal.target = Len(manifest) THEN "clear"
    ELSE "finalize"

Settle ==
    /\ step = "settle"
    /\ step' = SettledStep
    /\ UNCHANGED <<tail, files, torn, closed, role, ready, plan, kept, kills>>
-----------------------------------------------------------------------------
(* Resolving an interrupted cycle                                           *)

Parts(segments) == UNION {Range(segments[i]) : i \in DOMAIN segments}

\* Parts of the unresolved cycle that reached the manifest.
Existing == {p \in Parts(manifest) : p.cycle = tail.cycle}

LastExisting == CHOOSE p \in Existing : \A q \in Existing : q.index <= p.index

\* recover_unresolved_cycle: the parts still missing, as gap evidence.
GapParts ==
    LET of   == IF Existing = {} THEN 1 ELSE LastExisting.of
        done == IF Existing = {} THEN 0 ELSE LastExisting.index
    IN  [i \in 1..(of - done) |->
           [cycle |-> tail.cycle, index |-> done + i, of |-> of,
            newHour |-> FALSE, gap |-> TRUE]]

\* _verify_chunk_tree refuses an orphan chunk and any other file; the collector
\* refuses a first entry without its receipt.
LedgerRefused ==
    \/ "temp" \in torn
    \/ Len(chunks) # Len(manifest)
    \/ role = "collector" /\ manifest # <<>> /\ ~receipt
    \/ tail.failed

\* A cycle with its final part cannot be unresolved.
ResolveRefused ==
    LedgerRefused \/ (tail.open /\ \E p \in Existing : p.index = p.of)

Resolve ==
    /\ step = "resolve"
    /\ LedgerRefused \/ ~(tail.open /\ tail.first)
    /\ ready' = ~ResolveRefused
    /\ plan' = IF ~ResolveRefused /\ tail.open THEN GapParts ELSE <<>>
    /\ step' = IF ResolveRefused THEN "refused"
               ELSE IF tail.open THEN "append" ELSE "idle"
    /\ UNCHANGED <<tail, files, torn, closed, role, kept, kills>>

\* An interrupted first cycle fails the attempt for good.
FailAttempt ==
    /\ step = "resolve"
    /\ ~LedgerRefused
    /\ tail.open /\ tail.first
    /\ tail' = [tail EXCEPT !.open = FALSE, !.failed = TRUE]
    /\ step' = "refused"
    /\ UNCHANGED <<files, torn, closed, role, ready, plan, kept, kills>>
-----------------------------------------------------------------------------
(* Collection                                                               *)

\* reserve_cycle; then the GETs.  The cycle may run over the end of an hour.
ReserveCycle(of, roll) ==
    /\ step = "idle"
    /\ role = "collector"
    /\ ~closed
    /\ tail.cycle < MaxCycles
    /\ tail' = [tail EXCEPT !.cycle = @ + 1, !.open = TRUE,
                            !.first = (manifest = <<>>)]
    /\ plan' = [i \in 1..of |->
                  [cycle |-> tail.cycle + 1, index |-> i, of |-> of,
                   newHour |-> (i > 1 \/ roll), gap |-> FALSE]]
    /\ step' = "append"
    /\ UNCHANGED <<files, torn, closed, role, ready, kept, kills>>

\* StartEdgeDurabilityReceipt.commit after the first cycle, when in time.
CommitReceipt ==
    /\ step = "receipt"
    /\ receipt' = TRUE
    /\ step' = "idle"
    /\ UNCHANGED <<tail, journal, manifest, chunks, torn, sealed, closed, role, ready,
                   plan, kept, kills>>

WindowCloses ==
    /\ ~closed
    /\ closed' = TRUE
    /\ UNCHANGED <<tail, files, torn, step, role, ready, plan, kept, kills>>

\* finalize_active at the end of run_collection and of
\* finalize_capture_after_window.
FinalizeLastHour ==
    /\ step = "idle" /\ closed
    /\ journal.records # <<>>
    /\ step' = "finalize"
    /\ UNCHANGED <<tail, files, torn, closed, role, ready, plan, kept, kills>>

\* The collector exits; the finalizer writes its receipt.
Finish ==
    /\ step = "idle" /\ closed
    /\ journal.records = <<>>
    /\ sealed' = (role = "finalizer" /\ receipt)
    /\ step' = IF role = "finalizer" /\ ~receipt THEN "refused" ELSE "down"
    /\ UNCHANGED <<tail, journal, manifest, chunks, torn, receipt, closed, role, ready,
                   plan, kept, kills>>

\* The next write is a line of the registry.
WritesTail ==
    \/ step \in {"append", "commit", "finalize"}
    \/ step = "idle" /\ role = "collector"
    \/ step = "resolve" /\ tail.open /\ tail.first
    \/ step = "redo" /\ tail.pending.op = "finalize"

\* What a death in the middle of a write leaves behind: half a line of an
\* append, except that the first line of a file is published whole; the
\* temporary file of a chunk.
Damage ==
    CASE WritesTail                                   -> {"wal"}
      [] step = "journal" /\ journal.records # <<>>   -> {"journal"}
      [] step = "manifest" /\ manifest # <<>>         -> {"manifest"}
      [] step = "chunk"                               -> {"temp"}
      [] OTHER                                        -> {}

\* The process dies, or leaves with a refusal after a failed GET.
Kill ==
    /\ step \notin {"down", "refused"}
    /\ kills < MaxKills
    /\ kills' = kills + 1
    /\ torn' \in {torn, torn \cup Damage}
    /\ step' = "down"
    /\ ready' = FALSE
    /\ plan' = <<>>
    /\ UNCHANGED <<tail, files, closed, role, kept>>

\* The process goes on with what it has begun.
Proceed ==
    \/ RollHour \/ PrepareAppend \/ WriteJournal \/ CommitAppend
    \/ PrepareFinalize \/ WriteChunk \/ WriteManifest \/ CommitFinalize \/ ClearJournal
    \/ Start \/ RepairJournal \/ AbortFinalize \/ Redo \/ Settle
    \/ Resolve \/ FailAttempt
    \/ CommitReceipt \/ FinalizeLastHour \/ Finish

CaptureNext ==
    \/ Proceed
    \/ \E of \in 1..2, roll \in BOOLEAN : ReserveCycle(of, roll)
    \/ WindowCloses
    \/ Kill

CaptureSpec == CaptureInit /\ [][CaptureNext]_captureVars
-----------------------------------------------------------------------------
(* Properties                                                               *)

\* The main chain: the manifest and a journal it does not cover.
Segments == IF journal.target > Len(manifest) THEN Append(manifest, journal.records)
                                              ELSE manifest

Chain == Parts(Segments)

Before(p, q) == p.cycle < q.cycle \/ (p.cycle = q.cycle /\ p.index < q.index)

\* Each part once, in the order it was collected, within a segment and from
\* segment to segment.
Ordered(segments) ==
    \A i, j \in DOMAIN segments :
        \A k \in DOMAIN segments[i], l \in DOMAIN segments[j] :
            i < j \/ (i = j /\ k < l) => Before(segments[i][k], segments[j][l])

Complete(c) == \E p \in Chain : p.cycle = c /\ p.index = p.of

\* However often the process dies, at whatever write, and is restarted: each
\* part is in the main chain at most once and in order, a part whose append was
\* committed is never lost, a cycle is taken for resolved only with its final
\* part in the chain, and a sealed capture has all of it in the manifest.
CaptureExact ==
    /\ Ordered(Segments)
    /\ kept \subseteq Chain
    /\ \A c \in 1..tail.cycle :
         c < tail.cycle \/ ~(tail.open \/ tail.failed) => Complete(c)
    /\ sealed => ~tail.open /\ journal = NoJournal

\* "Makes each declared crash window exactly recoverable": the ledger refuses
\* to open only after damage recovery does not handle (half a line in the
\* registry or the manifest, a stray temporary file), or when the first cycle
\* was interrupted before its receipt, or when nothing was collected.  A death
\* between two writes or in a journal write is no reason.
RefusedForAReason ==
    step = "refused" =>
        \/ torn \cap {"wal", "manifest", "temp"} # {}
        \/ tail.failed
        \/ ~receipt /\ (manifest # <<>> \/ role = "finalizer")

\* A reserved cycle does not stay unresolved: its parts or the gap evidence
\* for them become durable, or the capture is refused for good.
CycleResolved == tail.open ~> (~tail.open \/ step = "refused")
=============================================================================
