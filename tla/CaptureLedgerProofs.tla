------------------------- MODULE CaptureLedgerProofs -------------------------
(***************************************************************************)
(* The capture ledger for any number of cycles and deaths.  What the log   *)
(* says and what the files hold are always in one of seven phases, and     *)
(* recovery leads back from each of them.                                  *)
(***************************************************************************)
EXTENDS CaptureLedger, SequenceTheorems, TLAPS

Pending == {NoOp, [op |-> "finalize"]} \cup [op : {"append"}, part : Part]

FilesTyped ==
    /\ tail \in [entries : Nat, active : Seq(Part), pending : Pending,
                 cycle : 0..MaxCycles, open : BOOLEAN, first : BOOLEAN, failed : BOOLEAN]
    /\ journal \in [target : Nat, records : Seq(Part)]
    /\ manifest \in Seq(Seq(Part))
    /\ chunks \in Seq(Seq(Part))
    /\ torn \subseteq {"wal", "journal", "manifest", "temp"}
    /\ plan \in Seq(Part)
    /\ step \in Steps
-----------------------------------------------------------------------------
(* The phases of the log and the files                                      *)

Listed(n) == Len(chunks) = n /\ Len(manifest) = n

\* The journal holds the records the log says, after the manifest.
JournalActive ==
    /\ journal.records = tail.active
    /\ journal.target = IF tail.active = <<>> THEN 0 ELSE tail.entries + 1

\* Nothing is half done.
AtRest ==
    /\ tail.pending = NoOp
    /\ Listed(tail.entries)
    /\ JournalActive

\* The hour is finalized and its journal still there.
Covered ==
    /\ tail.pending = NoOp
    /\ Listed(tail.entries)
    /\ tail.active = <<>>
    /\ manifest # <<>>
    /\ journal.records # <<>>
    /\ journal.records = Last(manifest)
    /\ journal.target = tail.entries

Appending == tail.pending.op = "append" /\ Listed(tail.entries)

\* The prepared line is not in the journal, or it is.
Unwritten == Appending /\ JournalActive
Written ==
    /\ Appending
    /\ journal.records = Append(tail.active, tail.pending.part)
    /\ journal.target = tail.entries + 1

Finalizing ==
    /\ tail.pending.op = "finalize"
    /\ JournalActive
    /\ tail.active # <<>>

\* The chunk is not there; it is, without its entry; both are.
Unpublished == Finalizing /\ Listed(tail.entries)
Published ==
    /\ Finalizing
    /\ Len(chunks) = tail.entries + 1
    /\ Len(manifest) = tail.entries
    /\ Last(chunks) = tail.active
Entered ==
    /\ Finalizing
    /\ Listed(tail.entries + 1)
    /\ Last(chunks) = tail.active
    /\ Last(manifest) = tail.active

InPhase == \/ AtRest \/ Covered \/ Unwritten \/ Written
           \/ Unpublished \/ Published \/ Entered

\* Where the process is tells the phase.
StepAgrees ==
    /\ step \in {"append", "idle", "receipt"} => AtRest
    /\ step = "finalize" => AtRest /\ tail.active # <<>>
    /\ step = "journal" => Unwritten
    /\ step = "commit" => Written \/ Entered
    /\ step = "chunk" => Unpublished
    /\ step = "manifest" => Published
    /\ step = "clear" => Covered
    /\ step = "settle" => AtRest \/ Covered
    /\ step = "resolve" => AtRest /\ tail.active = <<>>

\* Half a line in the journal belongs to the prepared one.
TornAgrees ==
    "journal" \in torn =>
        Unwritten /\ tail.active # <<>> /\ step \in {"down", "redo", "refused"}
-----------------------------------------------------------------------------
(* The cycle being collected                                                *)

\* The parts the log knows of.
Logged == IF Written THEN Chain \ {tail.pending.part} ELSE Chain

Due(p) == p.cycle = tail.cycle /\ \A q \in Logged : Before(q, p)

\* What is left of the cycle: one final part, or both of two.
PlanAgrees ==
    plan = <<>> \/
    /\ Due(plan[1])
    /\ \/ Len(plan) = 1 /\ plan[1].index = plan[1].of
       \/ /\ Len(plan) = 2 /\ plan[1].index = 1 /\ plan[1].of = 2
          /\ plan[2].cycle = tail.cycle /\ plan[2].index = 2 /\ plan[2].of = 2

\* What the log says of the current cycle.
LogAgrees ==
    /\ \A p \in Chain : p.cycle <= tail.cycle
    /\ tail.open => /\ tail.cycle # 0
                    /\ \A p \in Logged : p.cycle = tail.cycle => p.index < p.of
    /\ Appending => tail.open /\ Due(tail.pending.part)

\* What the process has left to do.
ProcessAgrees ==
    /\ ready => ~tail.failed /\ (tail.open <=> plan # <<>>)
    /\ ready /\ Appending => tail.pending.part = plan[1]
    /\ ~ready => plan = <<>>
    /\ step \in {"append", "idle", "receipt"} => ready
    /\ step \in {"redo", "settle", "resolve"} => ~ready
    /\ step = "append" => plan # <<>>
    /\ step \in {"down", "idle", "receipt"} => plan = <<>>
    /\ sealed => step = "down"

CaptureInvariant ==
    /\ FilesTyped
    /\ InPhase
    /\ StepAgrees
    /\ TornAgrees
    /\ LogAgrees
    /\ PlanAgrees
    /\ ProcessAgrees
    /\ CaptureExact
    /\ RefusedForAReason
-----------------------------------------------------------------------------
(* Segments                                                                 *)

\* A part of some segments stands at some place of one of them.
LEMMA InParts ==
    ASSUME NEW ss
    PROVE  \A x : x \in Parts(ss) <=> \E i \in DOMAIN ss : \E k \in DOMAIN ss[i] : x = ss[i][k]
  BY DEF Parts, Range

\* A part that follows every other is added at the end of the chain.
LEMMA PartAdded ==
    ASSUME NEW m \in Seq(Seq(Part)), NEW s \in Seq(Part), NEW p \in Part,
           NEW old, s = <<>> => old = m, s # <<>> => old = Append(m, s),
           Ordered(old), \A q \in Parts(old) : Before(q, p)
    PROVE  /\ Ordered(Append(m, Append(s, p)))
           /\ Parts(Append(m, Append(s, p))) = Parts(old) \cup {p}
  <1> DEFINE n == Len(m)
             t == Append(s, p)
             new == Append(m, t)
  <1>1. /\ t \in Seq(Part) /\ Len(t) = Len(s) + 1 /\ DOMAIN t = 1..(Len(s) + 1)
        /\ DOMAIN s = 1..Len(s) /\ Len(s) \in Nat
        /\ \A k \in 1..Len(s) : t[k] = s[k]
        /\ t[Len(s) + 1] = p
    BY AppendProperties, LenProperties
  <1>2. /\ n \in Nat /\ DOMAIN m = 1..n /\ DOMAIN new = 1..(n + 1)
        /\ \A i \in 1..n : new[i] = m[i]
        /\ new[n + 1] = t
    BY <1>1, AppendProperties, LenProperties
  <1>3. s # <<>> => /\ DOMAIN old = 1..(n + 1)
                    /\ \A i \in 1..n : old[i] = m[i]
                    /\ old[n + 1] = s
    BY AppendProperties, LenProperties
  <1>4. s = <<>> => old = m /\ Len(s) = 0
    OBVIOUS
  <1>5. n + 1 \in DOMAIN new /\ Len(s) + 1 \in DOMAIN t /\ n + 1 \notin 1..n
    BY <1>1, <1>2
  <1> HIDE DEF n, t, new
  <1>6. ASSUME NEW i \in DOMAIN new, NEW k \in DOMAIN new[i], ~(i = n + 1 /\ k = Len(s) + 1)
        PROVE  i \in DOMAIN old /\ k \in DOMAIN old[i] /\ new[i][k] = old[i][k]
    <2>1. CASE i \in 1..n
      BY <1>2, <1>3, <1>4, <2>1
    <2>2. CASE i = n + 1
      <3>1. k \in 1..Len(s)
        BY <1>1, <1>2, <1>6, <2>2
      <3>2. s # <<>>
        BY <1>4, <3>1
      <3>3. QED
        BY <1>1, <1>2, <1>3, <2>2, <3>1, <3>2
    <2>3. QED
      BY <1>2, <2>1, <2>2
  <1>7. ASSUME NEW i \in DOMAIN old, NEW k \in DOMAIN old[i]
        PROVE  i \in DOMAIN new /\ k \in DOMAIN new[i] /\ new[i][k] = old[i][k]
    <2>1. CASE i \in 1..n
      BY <1>2, <1>3, <1>4, <2>1
    <2>2. CASE i = n + 1
      <3>1. s # <<>>
        BY <1>2, <1>4, <1>5, <2>2
      <3>2. k \in 1..Len(s)
        BY <1>1, <1>3, <2>2, <3>1
      <3>3. k \in DOMAIN t
        BY <1>1, <3>2
      <3>4. QED
        BY <1>1, <1>2, <1>3, <1>5, <2>2, <3>1, <3>2, <3>3
    <2>3. QED
      BY <1>2, <1>3, <1>4, <2>1, <2>2
  <1>8. Ordered(new)
    <2> SUFFICES ASSUME NEW i \in DOMAIN new, NEW j \in DOMAIN new,
                        NEW k \in DOMAIN new[i], NEW l \in DOMAIN new[j],
                        i < j \/ (i = j /\ k < l)
                 PROVE  Before(new[i][k], new[j][l])
      BY DEF Ordered
    <2>1. ~(i = n + 1 /\ k = Len(s) + 1)
      <3> SUFFICES ASSUME i = n + 1, k = Len(s) + 1 PROVE FALSE
        OBVIOUS
      <3>1. j = n + 1 /\ k < l
        BY <1>2
      <3>2. l \in 1..(Len(s) + 1)
        BY <1>1, <1>2, <3>1
      <3>3. QED
        BY <1>1, <3>1, <3>2
    <2>2. i \in DOMAIN old /\ k \in DOMAIN old[i] /\ new[i][k] = old[i][k]
      BY <1>6, <2>1
    <2>3. CASE j = n + 1 /\ l = Len(s) + 1
      <3>1. new[j][l] = p
        BY <1>1, <1>2, <2>3
      <3>2. old[i][k] \in Parts(old)
        BY <2>2, InParts
      <3>3. QED
        BY <2>2, <3>1, <3>2
    <2>4. CASE ~(j = n + 1 /\ l = Len(s) + 1)
      <3>1. j \in DOMAIN old /\ l \in DOMAIN old[j] /\ new[j][l] = old[j][l]
        BY <1>6, <2>4
      <3>2. QED
        BY <2>2, <3>1 DEF Ordered
    <2>5. QED
      BY <2>3, <2>4
  <1>9. Parts(new) = Parts(old) \cup {p}
    <2>1. ASSUME NEW x \in Parts(new) PROVE x \in Parts(old) \cup {p}
      <3>1. PICK i \in DOMAIN new : \E k \in DOMAIN new[i] : x = new[i][k]
        BY InParts
      <3>2. PICK k \in DOMAIN new[i] : x = new[i][k]
        BY <3>1
      <3>3. CASE i = n + 1 /\ k = Len(s) + 1
        BY <1>1, <1>2, <3>2, <3>3
      <3>4. CASE ~(i = n + 1 /\ k = Len(s) + 1)
        BY <1>6, <3>2, <3>4, InParts
      <3>5. QED
        BY <3>3, <3>4
    <2>2. ASSUME NEW x \in Parts(old) PROVE x \in Parts(new)
      <3>1. PICK i \in DOMAIN old : \E k \in DOMAIN old[i] : x = old[i][k]
        BY <2>2 DEF Parts, Range
      <3>2. PICK k \in DOMAIN old[i] : x = old[i][k]
        BY <3>1
      <3>3. QED
        BY <1>7, <3>2, InParts
    <2>3. p \in Parts(new)
      <3>1. new[n + 1][Len(s) + 1] = p /\ Len(s) + 1 \in DOMAIN new[n + 1]
        BY <1>1, <1>2, <1>5
      <3>2. QED
        BY <1>5, <3>1, InParts
    <2>4. QED
      BY <2>1, <2>2, <2>3
  <1>10. QED
    BY <1>8, <1>9 DEF new, t
-----------------------------------------------------------------------------
(* Steps that leave the log and the files as they are                       *)

\* With the same log and files the phase and the chain are the same.
LEMMA SameLog ==
    ASSUME UNCHANGED <<tail, journal, manifest, chunks>>
    PROVE  /\ AtRest' <=> AtRest
           /\ Covered' <=> Covered
           /\ Unwritten' <=> Unwritten
           /\ Written' <=> Written
           /\ Unpublished' <=> Unpublished
           /\ Published' <=> Published
           /\ Entered' <=> Entered
           /\ Appending' <=> Appending
           /\ Segments' = Segments /\ Chain' = Chain
           /\ Logged' = Logged
  <1>1. /\ Appending' <=> Appending
        /\ Finalizing' <=> Finalizing
        /\ JournalActive' <=> JournalActive
        /\ \A n : (Len(chunks') = n /\ Len(manifest') = n) <=> Listed(n)
    BY DEF Appending, Finalizing, JournalActive, Listed
  <1>2. Segments' = Segments /\ Chain' = Chain
    BY DEF Segments, Chain
  <1>3. Written' <=> Written
    BY <1>1 DEF Written
  <1>4. Logged' = Logged
    BY <1>2, <1>3 DEF Logged
  <1>5. /\ AtRest' <=> AtRest
        /\ Covered' <=> Covered
        /\ Unwritten' <=> Unwritten
        /\ Unpublished' <=> Unpublished
        /\ Published' <=> Published
        /\ Entered' <=> Entered
    BY <1>1 DEF AtRest, Covered, Unwritten, Unpublished, Published, Entered, Listed
  <1>6. QED
    BY <1>1, <1>2, <1>3, <1>4, <1>5

\* The phases that the pending operation tells apart.
LEMMA PhaseOf ==
    ASSUME FilesTyped
    PROVE  /\ AtRest \/ Covered => tail.pending.op = "none"
           /\ Unwritten \/ Written => tail.pending.op = "append" /\ tail.pending.part \in Part
           /\ Unpublished \/ Published \/ Entered => tail.pending.op = "finalize"
           /\ Appending => tail.pending.op = "append" /\ tail.pending.part \in Part
           /\ ~(Unwritten /\ Written)
  <1>1. tail.pending \in Pending /\ tail.active \in Seq(Part)
    BY DEF FilesTyped
  <1>2. tail.pending.op = "append" => tail.pending.part \in Part
    BY <1>1 DEF Pending, NoOp
  <1>3. ~(Unwritten /\ Written)
    <2> SUFFICES ASSUME Unwritten, Written PROVE FALSE
      OBVIOUS
    <2>1. tail.active = Append(tail.active, tail.pending.part)
      BY DEF Unwritten, Written, JournalActive
    <2>2. tail.pending.part \in Part
      BY <1>2 DEF Unwritten, Appending
    <2>3. Len(tail.active) = Len(tail.active) + 1 /\ Len(tail.active) \in Nat
      BY <1>1, <2>1, <2>2, AppendProperties, LenProperties
    <2>4. QED
      BY <2>3
  <1>4. QED
    BY <1>2, <1>3 DEF AtRest, Covered, Unwritten, Written, Appending, Unpublished, Published,
          Entered, Finalizing, NoOp

\* What is true of log and chain stays true; what is left of the invariant is
\* about the process.
LEMMA QuietStep ==
    ASSUME CaptureInvariant, UNCHANGED <<tail, journal, manifest, chunks, kept>>,
           sealed' = sealed,
           torn' \subseteq {"wal", "journal", "manifest", "temp"}, plan' \in Seq(Part),
           step' \in Steps,
           StepAgrees', TornAgrees', PlanAgrees', ProcessAgrees', RefusedForAReason'
    PROVE  CaptureInvariant'
  <1>1. FilesTyped'
    BY DEF CaptureInvariant, FilesTyped
  <1>2. InPhase'
    BY SameLog DEF CaptureInvariant, InPhase
  <1>3. LogAgrees'
    BY SameLog DEF CaptureInvariant, LogAgrees, Due
  <1>4. CaptureExact'
    BY SameLog DEF CaptureInvariant, CaptureExact, Complete
  <1>5. QED
    BY <1>1, <1>2, <1>3, <1>4 DEF CaptureInvariant

\* The same for a step that leaves the plan alone too.
LEMMA StepOnly ==
    ASSUME CaptureInvariant, UNCHANGED <<tail, journal, manifest, chunks, kept, plan, ready>>,
           sealed' = sealed, torn' = torn,
           step' \in Steps, StepAgrees',
           "journal" \in torn => step' \in {"down", "redo", "refused"},
           step' \in {"append", "idle", "receipt"} => ready,
           step' \in {"redo", "settle", "resolve"} => ~ready,
           step' = "append" => plan # <<>>,
           step' \in {"down", "idle", "receipt"} => plan = <<>>,
           sealed => step' = "down",
           RefusedForAReason'
    PROVE  CaptureInvariant'
  <1>1. PlanAgrees'
    BY SameLog DEF CaptureInvariant, PlanAgrees, Due
  <1>2. TornAgrees'
    BY SameLog DEF CaptureInvariant, TornAgrees
  <1>3. ProcessAgrees'
    BY SameLog DEF CaptureInvariant, ProcessAgrees
  <1>4. torn' \subseteq {"wal", "journal", "manifest", "temp"} /\ plan' \in Seq(Part)
    BY DEF CaptureInvariant, FilesTyped
  <1>5. QED
    BY <1>1, <1>2, <1>3, <1>4, QuietStep

\* append_cycle in a new hour finds a journal to finalize.
LEMMA RollHourKeeps == CaptureInvariant /\ RollHour => CaptureInvariant'
  <1> SUFFICES ASSUME CaptureInvariant, RollHour PROVE CaptureInvariant'
    OBVIOUS
  <1> USE DEF files
  <1>1. step = "append" /\ step' = "finalize"
    BY DEF RollHour
  <1>2. AtRest /\ tail.active # <<>>
    BY <1>1 DEF CaptureInvariant, StepAgrees, AtRest, JournalActive, RollHour
  <1>3. StepAgrees'
    BY <1>1, <1>2, SameLog DEF StepAgrees, RollHour
  <1>4. QED
    BY <1>1, <1>3, StepOnly DEF RollHour, CaptureInvariant, TornAgrees, ProcessAgrees,
       RefusedForAReason, Steps

\* So does finalize_active after the window.
LEMMA FinalizeLastHourKeeps == CaptureInvariant /\ FinalizeLastHour => CaptureInvariant'
  <1> SUFFICES ASSUME CaptureInvariant, FinalizeLastHour PROVE CaptureInvariant'
    OBVIOUS
  <1> USE DEF files
  <1>1. step = "idle" /\ step' = "finalize"
    BY DEF FinalizeLastHour
  <1>2. AtRest /\ tail.active # <<>>
    BY <1>1 DEF CaptureInvariant, StepAgrees, AtRest, JournalActive, FinalizeLastHour
  <1>3. StepAgrees'
    BY <1>1, <1>2, SameLog DEF StepAgrees, FinalizeLastHour
  <1>4. QED
    BY <1>1, <1>3, StepOnly DEF FinalizeLastHour, CaptureInvariant, TornAgrees, ProcessAgrees,
       RefusedForAReason, Steps

\* _recover_active_journal takes a covered journal for covered and no other.
LEMMA SettleKeeps == CaptureInvariant /\ Settle => CaptureInvariant'
  <1> SUFFICES ASSUME CaptureInvariant, Settle PROVE CaptureInvariant'
    OBVIOUS
  <1> USE DEF files
  <1>1. step = "settle" /\ step' = SettledStep
    BY DEF Settle
  <1>2. AtRest \/ Covered
    BY <1>1 DEF CaptureInvariant, StepAgrees
  <1>3. tail.entries \in Nat
    BY DEF CaptureInvariant, FilesTyped
  <1>4. \/ step' = "resolve" /\ AtRest /\ tail.active = <<>>
        \/ step' = "clear" /\ Covered
        \/ step' = "finalize" /\ AtRest /\ tail.active # <<>>
    <2>1. CASE AtRest
      BY <1>1, <1>3, <2>1 DEF SettledStep, AtRest, JournalActive, Listed
    <2>2. CASE Covered
      BY <1>1, <1>3, <2>2 DEF SettledStep, Covered, Listed
    <2>3. QED
      BY <1>2, <2>1, <2>2
  <1>5. StepAgrees'
    BY <1>4, SameLog DEF StepAgrees, Settle
  <1>6. QED
    BY <1>1, <1>4, <1>5, StepOnly DEF Settle, CaptureInvariant, TornAgrees, ProcessAgrees,
       RefusedForAReason, Steps

\* _recover_pending_tail_operation recognizes each phase and refuses none.
LEMMA RedoKeeps == CaptureInvariant /\ Redo => CaptureInvariant'
  <1> SUFFICES ASSUME CaptureInvariant, Redo PROVE CaptureInvariant'
    OBVIOUS
  <1> USE DEF files
  <1>1. step = "redo" /\ "journal" \notin torn
    BY DEF Redo
  <1>2. FilesTyped /\ InPhase /\ tail.entries \in Nat
    BY DEF CaptureInvariant, FilesTyped
  <1>3. \/ step' = "journal" /\ Unwritten
        \/ step' = "commit" /\ (Written \/ Entered)
        \/ step' = "manifest" /\ Published
        \/ step' = "settle" /\ (AtRest \/ Covered)
    <2>1. CASE AtRest \/ Covered
      <3>1. tail.pending.op = "none"
        BY <1>2, <2>1, PhaseOf
      <3>2. step' = IF PhysicalMatches THEN "settle" ELSE "refused"
        BY <3>1 DEF Redo
      <3>3. PhysicalMatches
        BY <2>1 DEF AtRest, Covered, PhysicalMatches, JournalActive, Listed
      <3>4. QED
        BY <2>1, <3>2, <3>3
    <2>2. CASE Unwritten \/ Written
      <3>1. tail.pending.op = "append"
        BY <1>2, <2>2, PhaseOf
      <3>2. step' = RedoAppend
        BY <3>1 DEF Redo
      <3>3. CASE Unwritten
        BY <3>2, <3>3 DEF Unwritten, Appending, JournalActive, Listed, RedoAppend
      <3>4. CASE Written
        <4>1. journal.records # tail.active
          <5>1. tail.active \in Seq(Part) /\ tail.pending.part \in Part
            BY <1>2, <3>4, PhaseOf DEF FilesTyped
          <5>2. Len(Append(tail.active, tail.pending.part)) = Len(tail.active) + 1
                /\ Len(tail.active) \in Nat
            BY <5>1, AppendProperties, LenProperties
          <5>3. QED
            BY <3>4, <5>2 DEF Written
        <4>2. QED
          BY <3>2, <3>4, <4>1 DEF Written, Appending, Listed, RedoAppend
      <3>5. QED
        BY <2>2, <3>3, <3>4
    <2>3. CASE Unpublished \/ Published \/ Entered
      <3>1. tail.pending.op = "finalize"
        BY <1>2, <2>3, PhaseOf
      <3>2. step' = RedoFinalize /\ Len(chunks) # tail.entries
        BY <3>1 DEF Redo
      <3>3. ~Unpublished
        BY <3>2 DEF Unpublished, Listed
      <3>4. CASE Published
        BY <3>2, <3>4 DEF Published, Finalizing, JournalActive, RedoFinalize
      <3>5. CASE Entered
        BY <1>2, <3>2, <3>5 DEF Entered, Finalizing, JournalActive, Listed, RedoFinalize
      <3>6. QED
        BY <2>3, <3>3, <3>4, <3>5
    <2>4. QED
      BY <1>2, <2>1, <2>2, <2>3 DEF InPhase
  <1>4. StepAgrees'
    BY <1>3, SameLog DEF StepAgrees, Redo
  <1>5. QED
    BY <1>1, <1>3, <1>4, StepOnly DEF Redo, CaptureInvariant, TornAgrees, ProcessAgrees,
       RefusedForAReason, Steps

\* The end of the window changes nothing that is stored.
LEMMA WindowClosesKeeps == CaptureInvariant /\ WindowCloses => CaptureInvariant'
  <1> SUFFICES ASSUME CaptureInvariant, WindowCloses PROVE CaptureInvariant'
    OBVIOUS
  <1> USE DEF files
  <1>1. StepAgrees'
    BY SameLog DEF StepAgrees, WindowCloses, CaptureInvariant
  <1>2. QED
    BY <1>1, StepOnly DEF WindowCloses, CaptureInvariant, TornAgrees, ProcessAgrees,
       RefusedForAReason, FilesTyped

\* Nor does the start-edge receipt.
LEMMA CommitReceiptKeeps == CaptureInvariant /\ CommitReceipt => CaptureInvariant'
  <1> SUFFICES ASSUME CaptureInvariant, CommitReceipt PROVE CaptureInvariant'
    OBVIOUS
  <1>1. step = "receipt" /\ step' = "idle"
    BY DEF CommitReceipt
  <1>2. StepAgrees'
    BY <1>1, SameLog DEF StepAgrees, CommitReceipt, CaptureInvariant
  <1>3. QED
    BY <1>1, <1>2, StepOnly DEF CommitReceipt, CaptureInvariant, TornAgrees, ProcessAgrees,
       RefusedForAReason, Steps

\* A new process begins with an empty plan.
LEMMA StartKeeps == CaptureInvariant /\ Start => CaptureInvariant'
  <1> SUFFICES ASSUME CaptureInvariant, Start PROVE CaptureInvariant'
    OBVIOUS
  <1> USE DEF files
  <1>1. step = "down" /\ step' \in {"refused", "redo"} /\ ~ready' /\ ~sealed
    BY DEF Start
  <1>2. StepAgrees'
    BY <1>1, SameLog DEF StepAgrees
  <1>3. plan = <<>>
    BY <1>1 DEF CaptureInvariant, ProcessAgrees
  <1>4. TornAgrees'
    BY <1>1, SameLog DEF Start, CaptureInvariant, TornAgrees
  <1>5. PlanAgrees' /\ plan' \in Seq(Part)
    BY <1>3 DEF Start, PlanAgrees, CaptureInvariant, FilesTyped
  <1>6. ProcessAgrees'
    BY <1>1, <1>3 DEF Start, ProcessAgrees, CaptureInvariant
  <1>7. RefusedForAReason'
    BY DEF Start, RefusedForAReason
  <1>8. QED
    BY <1>1, <1>2, <1>4, <1>5, <1>6, <1>7, QuietStep DEF Start, CaptureInvariant, FilesTyped, Steps

\* A death leaves half a journal line only behind a prepared one.
LEMMA KillKeeps == CaptureInvariant /\ Kill => CaptureInvariant'
  <1> SUFFICES ASSUME CaptureInvariant, Kill PROVE CaptureInvariant'
    OBVIOUS
  <1> USE DEF files
  <1>1. step' = "down" /\ ~ready' /\ plan' = <<>> /\ step \notin {"down", "refused"}
    BY DEF Kill
  <1>2. StepAgrees'
    BY <1>1, SameLog DEF StepAgrees
  <1>3. /\ Damage \subseteq {"wal", "journal", "manifest", "temp"}
        /\ "journal" \in Damage => step = "journal" /\ journal.records # <<>>
    BY DEF Damage
  <1>4. "journal" \in torn' => Unwritten /\ tail.active # <<>>
    <2>1. CASE "journal" \in torn
      BY <2>1 DEF CaptureInvariant, TornAgrees
    <2>2. CASE step = "journal" /\ journal.records # <<>>
      BY <2>2 DEF CaptureInvariant, StepAgrees, Unwritten, JournalActive
    <2>3. QED
      BY <1>3, <2>1, <2>2 DEF Kill
  <1>5. TornAgrees'
    BY <1>1, <1>4, SameLog DEF TornAgrees, Kill
  <1>6. PlanAgrees' /\ plan' \in Seq(Part)
    BY <1>1 DEF PlanAgrees
  <1>7. ProcessAgrees'
    BY <1>1 DEF ProcessAgrees, CaptureInvariant, Kill
  <1>8. torn' \subseteq {"wal", "journal", "manifest", "temp"}
    BY <1>3 DEF Kill, CaptureInvariant, FilesTyped
  <1>9. QED
    BY <1>1, <1>2, <1>5, <1>6, <1>7, <1>8, QuietStep DEF Kill, RefusedForAReason, Steps

\* A function on 1..n is a sequence of length n.
LEMMA IsSequence ==
    ASSUME NEW S, NEW n \in Nat, NEW f \in [1..n -> S]
    PROVE  f \in Seq(S) /\ Len(f) = n
  <1>1. f \in Seq(S)
    BY SeqDef, Zenon
  <1>2. QED
    BY <1>1, LenProperties

\* The same for a function on 1..1.
LEMMA Single ==
    ASSUME NEW S, NEW f, DOMAIN f = 1..1, f = [i \in DOMAIN f |-> f[i]], f[1] \in S
    PROVE  f \in Seq(S) /\ Len(f) = 1 /\ f # <<>>
  <1>1. f \in [1..1 -> S]
    OBVIOUS
  <1>2. f \in Seq(S) /\ Len(f) = 1
    BY <1>1, IsSequence
  <1>3. QED
    BY <1>2

\* What recovery writes for an interrupted cycle is what is missing of it.
LEMMA GapsAreDue ==
    ASSUME CaptureInvariant, step = "resolve", tail.open, ~ResolveRefused
    PROVE  GapParts \in Seq(Part) /\ Len(GapParts) = 1 /\ GapParts # <<>> /\ GapParts[1].index = GapParts[1].of
           /\ Due(GapParts[1])
  <1>1. /\ AtRest /\ tail.active = <<>>
        /\ tail.cycle \in 0..MaxCycles /\ MaxCycles \in Nat
        /\ tail.entries \in Nat /\ FilesTyped
    BY CaptureAssumption DEF CaptureInvariant, StepAgrees, FilesTyped
  <1>2. Segments = manifest /\ Chain = Parts(manifest)
    BY <1>1 DEF AtRest, JournalActive, Listed, Segments, Chain
  <1>3. Logged = Chain
    BY <1>1, PhaseOf DEF Logged
  <1>4. Parts(manifest) \subseteq Part
    <2>1. manifest \in Seq(Seq(Part))
      BY <1>1 DEF FilesTyped
    <2>2. ASSUME NEW i \in DOMAIN manifest, NEW k \in DOMAIN manifest[i] PROVE manifest[i][k] \in Part
      BY <2>1
    <2>3. QED
      BY <2>2, InParts
  <1>5. \A p \in Chain : p.cycle <= tail.cycle
    BY DEF CaptureInvariant, LogAgrees
  <1>6. \A p \in Existing : p \in Part /\ p.index = 1 /\ p.of = 2
    <2>1. \A p \in Existing : p \in Part /\ p.index < p.of
      BY <1>2, <1>3, <1>4 DEF CaptureInvariant, LogAgrees, Existing
    <2>2. QED
      BY <2>1 DEF Part
  <1>7. tail.cycle \in 1..MaxCycles
    BY <1>1 DEF CaptureInvariant, LogAgrees
  <1>8. CASE Existing = {}
    <2> DEFINE g == [cycle |-> tail.cycle, index |-> 1, of |-> 1, newHour |-> FALSE, gap |-> TRUE]
    <2>1. GapParts = [i \in 1..1 |-> [cycle |-> tail.cycle, index |-> 0 + i, of |-> 1,
                                      newHour |-> FALSE, gap |-> TRUE]]
      BY <1>8 DEF GapParts
    <2>2. g \in Part
      BY <1>7 DEF Part, g
    <2>3. /\ DOMAIN GapParts = 1..1 /\ GapParts[1] = g
          /\ GapParts = [i \in DOMAIN GapParts |-> GapParts[i]]
      BY <2>1
    <2> HIDE DEF g
    <2>4. \A q \in Chain : Before(q, g)
      <3> SUFFICES ASSUME NEW q \in Chain PROVE Before(q, g)
        OBVIOUS
      <3>1. q \in Part /\ q.cycle # tail.cycle /\ q.cycle <= tail.cycle
        BY <1>2, <1>4, <1>5, <1>8 DEF Existing
      <3>2. QED
        BY <1>1, <3>1 DEF Before, Part, g
    <2>5. g.cycle = tail.cycle /\ g.index = g.of
      BY DEF g
    <2>6. GapParts \in Seq(Part) /\ Len(GapParts) = 1 /\ GapParts # <<>>
      BY <2>2, <2>3, <2>4, Single
    <2>7. Due(g)
      BY <1>3, <2>5, <2>2, <2>3, <2>4 DEF Due
    <2>8. QED
      BY <2>2, <2>3, <2>4, <2>5, <2>6, <2>7
  <1>9. CASE Existing # {}
    <2> DEFINE g == [cycle |-> tail.cycle, index |-> 2, of |-> 2, newHour |-> FALSE, gap |-> TRUE]
    <2>1. LastExisting \in Existing
      <3>1. \E p \in Existing : \A q \in Existing : q.index <= p.index
        BY <1>6, <1>9
      <3>2. QED
        BY <3>1 DEF LastExisting
    <2>2. LastExisting.index = 1 /\ LastExisting.of = 2
      BY <1>6, <2>1
    <2>3. GapParts = [i \in 1..(2 - 1) |-> [cycle |-> tail.cycle, index |-> 1 + i, of |-> 2,
                                            newHour |-> FALSE, gap |-> TRUE]]
      BY <1>9, <2>2 DEF GapParts
    <2>4. /\ DOMAIN GapParts = 1..1 /\ GapParts[1] = g
          /\ GapParts = [i \in DOMAIN GapParts |-> GapParts[i]]
      BY <2>3
    <2> HIDE DEF g
    <2>5. g \in Part
      BY <1>7 DEF Part, g
    <2>6. \A q \in Chain : Before(q, g)
      <3> SUFFICES ASSUME NEW q \in Chain PROVE Before(q, g)
        OBVIOUS
      <3>1. q \in Part /\ q.cycle <= tail.cycle /\ (q.cycle = tail.cycle => q.index = 1)
        BY <1>2, <1>4, <1>5, <1>6 DEF Existing
      <3>2. QED
        BY <1>1, <3>1 DEF Before, Part, g
    <2>7. g.cycle = tail.cycle /\ g.index = g.of
      BY DEF g
    <2>8. GapParts \in Seq(Part) /\ Len(GapParts) = 1 /\ GapParts # <<>>
      BY <2>4, <2>5, <2>6, Single
    <2>9. Due(g)
      BY <1>3, <2>7, <2>4, <2>5, <2>6 DEF Due
    <2>10. QED
      BY <2>4, <2>5, <2>6, <2>7, <2>8, <2>9
  <1>10. QED
    BY <1>8, <1>9

\* recover_unresolved_cycle opens the ledger with what is missing, or refuses
\* for a reason.
LEMMA ResolveKeeps == CaptureInvariant /\ Resolve => CaptureInvariant'
  <1> SUFFICES ASSUME CaptureInvariant, Resolve PROVE CaptureInvariant'
    OBVIOUS
  <1> USE DEF files
  <1>1. step = "resolve" /\ ~sealed /\ sealed' = sealed /\ torn' = torn
    BY DEF Resolve, CaptureInvariant, ProcessAgrees
  <1>2. AtRest /\ tail.active = <<>> /\ FilesTyped /\ ~Unwritten /\ ~Appending
    BY <1>1, PhaseOf DEF CaptureInvariant, StepAgrees
  <1>3. "journal" \notin torn
    BY <1>2 DEF CaptureInvariant, TornAgrees
  <1>4. CASE ResolveRefused
    <2>1. step' = "refused" /\ ~ready' /\ plan' = <<>>
      BY <1>4 DEF Resolve
    <2>2. ~(tail.open /\ \E p \in Existing : p.index = p.of)
      <3> SUFFICES ASSUME tail.open, NEW p \in Existing, p.index = p.of PROVE FALSE
        OBVIOUS
      <3>1. Logged = Chain /\ Chain = Parts(manifest)
        BY <1>2, PhaseOf DEF Logged, AtRest, JournalActive, Listed, Segments, Chain, FilesTyped
      <3>2. p \in Logged /\ p.cycle = tail.cycle /\ p \in Parts(manifest)
        BY <3>1 DEF Existing
      <3>3. p.index < p.of
        BY <3>2 DEF CaptureInvariant, LogAgrees
      <3>4. PICK i \in DOMAIN manifest : \E k \in DOMAIN manifest[i] : p = manifest[i][k]
        BY <3>2, InParts
      <3>5. manifest \in Seq(Seq(Part))
        BY <1>2 DEF FilesTyped
      <3>6. p \in Part
        BY <3>4, <3>5
      <3>7. QED
        BY <3>3, <3>6 DEF Part
    <2>3. LedgerRefused
      BY <1>4, <2>2 DEF ResolveRefused
    <2>4. RefusedForAReason'
      BY <1>2, <2>3 DEF RefusedForAReason, LedgerRefused, AtRest, Listed, Resolve
    <2>5. StepAgrees' /\ TornAgrees' /\ PlanAgrees' /\ ProcessAgrees'
      BY <1>1, <1>3, <2>1 DEF StepAgrees, TornAgrees, PlanAgrees, ProcessAgrees
    <2>6. QED
      BY <1>1, <1>2, <2>1, <2>4, <2>5, QuietStep DEF Resolve, FilesTyped, Steps
  <1>5. CASE ~ResolveRefused /\ tail.open
    <2>1. step' = "append" /\ ready' /\ plan' = GapParts /\ ~tail.failed
      BY <1>5 DEF Resolve, ResolveRefused, LedgerRefused
    <2>2. /\ plan' \in Seq(Part) /\ Len(plan') = 1
          /\ plan'[1].index = plan'[1].of /\ Due(plan'[1])
      BY <1>1, <1>5, <2>1, GapsAreDue
    <2>3. plan' # <<>>
      BY <1>1, <1>5, <2>1, GapsAreDue
    <2>4. StepAgrees' /\ TornAgrees'
      BY <1>1, <1>2, <1>3, <2>1, SameLog DEF StepAgrees, TornAgrees, Resolve
    <2>5. PlanAgrees'
      BY <2>2, SameLog DEF PlanAgrees, Due, Resolve
    <2>6. ProcessAgrees'
      <3>1. ~Appending' /\ tail' = tail
        BY <1>2, SameLog DEF Resolve
      <3>2. QED
        BY <1>1, <1>5, <2>1, <2>3, <3>1 DEF ProcessAgrees
    <2>7. RefusedForAReason'
      BY <2>1 DEF RefusedForAReason
    <2>8. QED
      BY <1>1, <1>2, <2>1, <2>2, <2>4, <2>5, <2>6, <2>7, QuietStep DEF Resolve, FilesTyped, Steps
  <1>6. CASE ~ResolveRefused /\ ~tail.open
    <2>1. step' = "idle" /\ ready' /\ plan' = <<>> /\ ~tail.failed
      BY <1>6 DEF Resolve, ResolveRefused, LedgerRefused
    <2>2. ~Appending' /\ tail' = tail
      BY <1>2, SameLog DEF Resolve
    <2>3. StepAgrees' /\ TornAgrees' /\ PlanAgrees' /\ ProcessAgrees' /\ RefusedForAReason'
      BY <1>1, <1>2, <1>3, <1>6, <2>1, <2>2, SameLog
         DEF StepAgrees, TornAgrees, PlanAgrees, ProcessAgrees, RefusedForAReason, Resolve
    <2>4. QED
      BY <1>1, <1>2, <2>1, <2>3, QuietStep DEF Resolve, FilesTyped, Steps
  <1>7. QED
    BY <1>4, <1>5, <1>6

\* The capture is sealed only with everything in the manifest.
LEMMA FinishKeeps == CaptureInvariant /\ Finish => CaptureInvariant'
  <1> SUFFICES ASSUME CaptureInvariant, Finish PROVE CaptureInvariant'
    OBVIOUS
  <1>1. step = "idle" /\ step' \in {"refused", "down"} /\ journal.records = <<>>
        /\ (sealed' => step' = "down")
    BY DEF Finish
  <1>2. AtRest /\ FilesTyped /\ ~Appending /\ ~Unwritten /\ ready /\ plan = <<>> /\ ~tail.open
    BY <1>1, PhaseOf DEF CaptureInvariant, StepAgrees, ProcessAgrees
  <1>3. journal = NoJournal
    <2>1. journal \in [target : Nat, records : Seq(Part)] /\ journal.target = 0
      BY <1>1, <1>2 DEF AtRest, JournalActive, FilesTyped
    <2>2. QED
      BY <1>1, <2>1 DEF NoJournal
  <1>4. FilesTyped'
    BY <1>1, <1>2 DEF Finish, FilesTyped, Steps
  <1>5. InPhase' /\ LogAgrees'
    BY SameLog DEF Finish, CaptureInvariant, InPhase, LogAgrees, Due
  <1>6. StepAgrees' /\ PlanAgrees' /\ ProcessAgrees'
    <2>1. StepAgrees'
      BY <1>1 DEF StepAgrees
    <2>2. PlanAgrees'
      BY <1>2 DEF Finish, PlanAgrees
    <2>3. ProcessAgrees'
      BY <1>1, <1>2, SameLog DEF Finish, ProcessAgrees, CaptureInvariant
    <2>4. QED
      BY <2>1, <2>2, <2>3
  <1>7. TornAgrees'
    BY <1>2 DEF TornAgrees, CaptureInvariant, Finish
  <1>8. CaptureExact'
    BY <1>2, <1>3, SameLog DEF Finish, CaptureInvariant, CaptureExact, Complete
  <1>9. RefusedForAReason'
    BY DEF Finish, RefusedForAReason
  <1>10. QED
    BY <1>4, <1>5, <1>6, <1>7, <1>8, <1>9 DEF CaptureInvariant
-----------------------------------------------------------------------------
(* Steps that leave the chain and the state of the cycle as they are        *)

\* What is true of the cycle stays true; what is left is about the phase.
LEMMA LogKept ==
    ASSUME CaptureInvariant, Segments' = Segments, ~Written, ~Written',
           tail'.cycle = tail.cycle, tail'.open = tail.open, tail'.failed = tail.failed,
           UNCHANGED <<kept, plan, ready>>, ~sealed',
           FilesTyped', InPhase', StepAgrees', TornAgrees',
           Appending' => /\ tail.open
                         /\ Due(tail'.pending.part)
                         /\ ready => tail'.pending.part = plan[1],
           step' \in {"append", "idle", "receipt"} => ready,
           step' \in {"redo", "settle", "resolve"} => ~ready,
           step' = "append" => plan # <<>>,
           step' \in {"down", "idle", "receipt"} => plan = <<>>,
           RefusedForAReason'
    PROVE  CaptureInvariant'
  <1>1. Chain' = Chain /\ Logged' = Chain' /\ Logged = Chain
    BY DEF Chain, Logged
  <1>2. LogAgrees'
    BY <1>1 DEF CaptureInvariant, LogAgrees, Due
  <1>3. PlanAgrees'
    BY <1>1 DEF CaptureInvariant, PlanAgrees, Due
  <1>4. ProcessAgrees'
    BY DEF CaptureInvariant, ProcessAgrees
  <1>5. CaptureExact'
    BY <1>1 DEF CaptureInvariant, CaptureExact, Complete
  <1>6. QED
    BY <1>2, <1>3, <1>4, <1>5 DEF CaptureInvariant

\* A journal with one more line is another journal.
LEMMA Longer ==
    ASSUME NEW s \in Seq(Part), NEW p \in Part
    PROVE  Append(s, p) # s /\ Append(s, p) # <<>> /\ Append(s, p) \in Seq(Part)
  <1>1. Len(Append(s, p)) = Len(s) + 1 /\ Len(s) \in Nat /\ Append(s, p) \in Seq(Part)
    BY AppendProperties, LenProperties
  <1>2. QED
    BY <1>1

\* The chain is in the journal and the manifest.
LEMMA SameSegments ==
    ASSUME UNCHANGED <<journal, manifest>> PROVE Segments' = Segments /\ Chain' = Chain
  BY DEF Segments, Chain

\* The prepared part is the next one of the plan.
LEMMA PrepareAppendKeeps == CaptureInvariant /\ PrepareAppend => CaptureInvariant'
  <1> SUFFICES ASSUME CaptureInvariant, PrepareAppend PROVE CaptureInvariant'
    OBVIOUS
  <1> USE DEF files
  <1>1. step = "append" /\ step' = "journal" /\ plan # <<>> /\ FilesTyped /\ AtRest /\ ready
        /\ ~sealed
    BY DEF PrepareAppend, CaptureInvariant, StepAgrees, ProcessAgrees
  <1>2. Head(plan) = plan[1] /\ Head(plan) \in Part /\ ~Written /\ ~Unwritten
    BY <1>1, PhaseOf DEF FilesTyped
  <1>3. [op |-> "append", part |-> Head(plan)] \in Pending
    BY <1>2 DEF Pending
  <1>4. /\ tail' \in [entries : Nat, active : Seq(Part), pending : Pending,
                 cycle : 0..MaxCycles, open : BOOLEAN, first : BOOLEAN, failed : BOOLEAN]
        /\ tail'.pending = [op |-> "append", part |-> Head(plan)]
        /\ tail'.entries = tail.entries /\ tail'.active = tail.active
        /\ tail'.cycle = tail.cycle /\ tail'.open = tail.open /\ tail'.failed = tail.failed
    BY <1>1, <1>3 DEF PrepareAppend, FilesTyped
  <1>5. FilesTyped'
    BY <1>1, <1>4 DEF PrepareAppend, FilesTyped, Steps
  <1>6. Unwritten' /\ Appending'
    BY <1>1, <1>4 DEF PrepareAppend, AtRest, Unwritten, Appending, Listed, JournalActive
  <1>7. ~Written'
    <2>1. Append(tail.active, Head(plan)) # tail.active
      BY <1>1, <1>2, Longer DEF FilesTyped
    <2>2. journal'.records = tail.active
      BY <1>1 DEF PrepareAppend, AtRest, JournalActive
    <2>3. QED
      BY <1>4, <2>1, <2>2 DEF Written
  <1>8. tail.open /\ Due(plan[1])
    BY <1>1 DEF CaptureInvariant, PlanAgrees, ProcessAgrees
  <1>9. StepAgrees' /\ TornAgrees' /\ InPhase' /\ RefusedForAReason'
    BY <1>1, <1>2, <1>6 DEF StepAgrees, TornAgrees, InPhase, RefusedForAReason, PrepareAppend,
       CaptureInvariant
  <1>10. tail'.pending.part = plan[1]
    BY <1>2, <1>4
  <1>11. QED
    BY <1>1, <1>2, <1>4, <1>5, <1>7, <1>8, <1>9, <1>10, LogKept, SameSegments DEF PrepareAppend

\* Only a journal with records is prepared for finalization.
LEMMA PrepareFinalizeKeeps == CaptureInvariant /\ PrepareFinalize => CaptureInvariant'
  <1> SUFFICES ASSUME CaptureInvariant, PrepareFinalize PROVE CaptureInvariant'
    OBVIOUS
  <1> USE DEF files
  <1>1. step = "finalize" /\ step' = "chunk" /\ FilesTyped /\ AtRest /\ tail.active # <<>>
        /\ ~sealed
    BY DEF PrepareFinalize, CaptureInvariant, StepAgrees, ProcessAgrees
  <1>2. ~Written /\ ~Unwritten
    BY <1>1, PhaseOf
  <1>3. [op |-> "finalize"] \in Pending
    BY DEF Pending
  <1>4. /\ tail' \in [entries : Nat, active : Seq(Part), pending : Pending,
                 cycle : 0..MaxCycles, open : BOOLEAN, first : BOOLEAN, failed : BOOLEAN]
        /\ tail'.pending = [op |-> "finalize"]
        /\ tail'.entries = tail.entries /\ tail'.active = tail.active
        /\ tail'.cycle = tail.cycle /\ tail'.open = tail.open /\ tail'.failed = tail.failed
    BY <1>1, <1>3 DEF PrepareFinalize, FilesTyped
  <1>5. FilesTyped'
    BY <1>1, <1>4 DEF PrepareFinalize, FilesTyped, Steps
  <1>6. tail'.pending.op = "finalize" /\ tail'.pending.op # "append"
    BY <1>4
  <1>7. Unpublished' /\ ~Appending' /\ ~Written'
    BY <1>1, <1>4, <1>6 DEF PrepareFinalize, AtRest, Unpublished, Finalizing, Appending, Listed,
       JournalActive, Written
  <1>8. StepAgrees' /\ TornAgrees' /\ InPhase' /\ RefusedForAReason'
    BY <1>1, <1>2, <1>7 DEF StepAgrees, TornAgrees, InPhase, RefusedForAReason, PrepareFinalize,
       CaptureInvariant
  <1>9. QED
    BY <1>1, <1>2, <1>4, <1>5, <1>7, <1>8, LogKept, SameSegments DEF PrepareFinalize

\* A finalization without a chunk is taken back to rest.
LEMMA AbortFinalizeKeeps == CaptureInvariant /\ AbortFinalize => CaptureInvariant'
  <1> SUFFICES ASSUME CaptureInvariant, AbortFinalize PROVE CaptureInvariant'
    OBVIOUS
  <1> USE DEF files
  <1>1. /\ step = "redo" /\ step' = step /\ FilesTyped /\ InPhase /\ ~sealed
        /\ tail.pending.op = "finalize" /\ Len(chunks) = tail.entries /\ tail.entries \in Nat
    BY DEF AbortFinalize, CaptureInvariant, ProcessAgrees, FilesTyped
  <1>2. ~Written /\ ~Unwritten
    BY <1>1, PhaseOf
  <1>3. Unpublished
    BY <1>1, <1>2, PhaseOf DEF InPhase, Published, Entered, Listed
  <1>4. /\ tail' \in [entries : Nat, active : Seq(Part), pending : Pending,
                 cycle : 0..MaxCycles, open : BOOLEAN, first : BOOLEAN, failed : BOOLEAN]
        /\ tail'.pending = NoOp
        /\ tail'.entries = tail.entries /\ tail'.active = tail.active
        /\ tail'.cycle = tail.cycle /\ tail'.open = tail.open /\ tail'.failed = tail.failed
    BY <1>1 DEF AbortFinalize, FilesTyped, Pending
  <1>5. FilesTyped'
    BY <1>1, <1>4 DEF AbortFinalize, FilesTyped, Steps
  <1>6. tail'.pending.op # "append"
    BY <1>4 DEF NoOp
  <1>7. AtRest' /\ ~Appending' /\ ~Written'
    BY <1>3, <1>4, <1>6 DEF AbortFinalize, AtRest, Unpublished, Finalizing, Appending, Listed,
       JournalActive, Written
  <1>8. StepAgrees' /\ TornAgrees' /\ InPhase' /\ RefusedForAReason'
    BY <1>1, <1>2, <1>7 DEF StepAgrees, TornAgrees, InPhase, RefusedForAReason, AbortFinalize,
       CaptureInvariant
  <1>9. QED
    BY <1>1, <1>2, <1>4, <1>5, <1>7, <1>8, LogKept, SameSegments
       DEF AbortFinalize, CaptureInvariant, ProcessAgrees

\* After the commit the last entry covers the journal.
LEMMA CommitFinalizeKeeps == CaptureInvariant /\ CommitFinalize => CaptureInvariant'
  <1> SUFFICES ASSUME CaptureInvariant, CommitFinalize PROVE CaptureInvariant'
    OBVIOUS
  <1> USE DEF files
  <1>1. /\ step = "commit" /\ step' = "clear" /\ FilesTyped /\ ~sealed
        /\ tail.pending.op = "finalize" /\ tail.entries \in Nat
    BY DEF CommitFinalize, CaptureInvariant, ProcessAgrees, FilesTyped
  <1>2. ~Written /\ ~Unwritten
    BY <1>1, PhaseOf
  <1>3. Entered
    BY <1>1, <1>2 DEF CaptureInvariant, StepAgrees
  <1>4. /\ tail' \in [entries : Nat, active : Seq(Part), pending : Pending,
                 cycle : 0..MaxCycles, open : BOOLEAN, first : BOOLEAN, failed : BOOLEAN]
        /\ tail'.pending = NoOp
        /\ tail'.entries = tail.entries + 1 /\ tail'.active = <<>>
        /\ tail'.cycle = tail.cycle /\ tail'.open = tail.open /\ tail'.failed = tail.failed
    <2>1. tail.entries + 1 \in Nat /\ NoOp \in Pending /\ <<>> \in Seq(Part)
      BY <1>1 DEF Pending
    <2>2. QED
      BY <1>1, <2>1 DEF CommitFinalize, FilesTyped
  <1>5. FilesTyped'
    BY <1>1, <1>4 DEF CommitFinalize, FilesTyped, Steps
  <1>6. tail'.pending.op # "append"
    BY <1>4 DEF NoOp
  <1>7. Covered' /\ ~Appending' /\ ~Written'
    <2>1. manifest # <<>>
      BY <1>1, <1>3 DEF Entered, Listed
    <2>2. QED
      BY <1>3, <1>4, <1>6, <2>1 DEF CommitFinalize, Entered, Covered, Finalizing, Appending, Listed,
         JournalActive, Written
  <1>8. StepAgrees' /\ TornAgrees' /\ InPhase' /\ RefusedForAReason'
    BY <1>1, <1>2, <1>7 DEF StepAgrees, TornAgrees, InPhase, RefusedForAReason, CommitFinalize,
       CaptureInvariant
  <1>9. QED
    BY <1>1, <1>2, <1>4, <1>5, <1>7, <1>8, LogKept, SameSegments DEF CommitFinalize

\* The last element after an append.
LEMMA LastOfAppend ==
    ASSUME NEW S, NEW s \in Seq(S), NEW x \in S
    PROVE  Append(s, x) \in Seq(S) /\ Len(Append(s, x)) = Len(s) + 1 /\ Last(Append(s, x)) = x
  BY AppendProperties, LenProperties DEF Last

\* The published chunk holds the journal and is never refused.
LEMMA WriteChunkKeeps == CaptureInvariant /\ WriteChunk => CaptureInvariant'
  <1> SUFFICES ASSUME CaptureInvariant, WriteChunk PROVE CaptureInvariant'
    OBVIOUS
  <1>1. step = "chunk" /\ FilesTyped /\ Unpublished /\ ~sealed /\ tail.entries \in Nat
    BY DEF WriteChunk, CaptureInvariant, StepAgrees, ProcessAgrees, FilesTyped
  <1>2. ~Written /\ ~Unwritten /\ tail.pending.op = "finalize"
    BY <1>1, PhaseOf
  <1>3. Len(chunks) = tail.entries /\ Len(manifest) = tail.entries
        /\ journal.records = tail.active /\ journal.records \in Seq(Part)
        /\ chunks \in Seq(Seq(Part))
    BY <1>1 DEF Unpublished, Listed, Finalizing, JournalActive, FilesTyped
  <1>4. chunks' = Append(chunks, journal.records)
    BY <1>1, <1>3 DEF WriteChunk
  <1>5. chunks' \in Seq(Seq(Part)) /\ Len(chunks') = tail.entries + 1 /\ Last(chunks') = tail.active
    BY <1>3, <1>4, LastOfAppend
  <1>6. step' = "manifest" /\ sealed' = sealed
    BY <1>3, <1>5 DEF WriteChunk
  <1>7. FilesTyped'
    BY <1>1, <1>5, <1>6 DEF WriteChunk, FilesTyped, Steps
  <1>8. Published' /\ ~Appending' /\ ~Written'
    BY <1>1, <1>2, <1>3, <1>5 DEF WriteChunk, Unpublished, Published, Finalizing, Appending,
       JournalActive, Written
  <1>9. StepAgrees' /\ TornAgrees' /\ InPhase' /\ RefusedForAReason'
    BY <1>2, <1>6, <1>8 DEF StepAgrees, TornAgrees, InPhase, RefusedForAReason, WriteChunk,
       CaptureInvariant
  <1>10. QED
    BY <1>1, <1>2, <1>6, <1>7, <1>8, <1>9, LogKept, SameSegments DEF WriteChunk

\* The entry takes the place of the journal in the chain.
LEMMA WriteManifestKeeps == CaptureInvariant /\ WriteManifest => CaptureInvariant'
  <1> SUFFICES ASSUME CaptureInvariant, WriteManifest PROVE CaptureInvariant'
    OBVIOUS
  <1>1. step = "manifest" /\ step' = "commit" /\ FilesTyped /\ Published /\ ~sealed
        /\ tail.entries \in Nat /\ manifest \in Seq(Seq(Part)) /\ tail.active \in Seq(Part)
    BY DEF WriteManifest, CaptureInvariant, StepAgrees, ProcessAgrees, FilesTyped
  <1>2. ~Written /\ ~Unwritten /\ tail.pending.op = "finalize"
    BY <1>1, PhaseOf
  <1>3. manifest' = Append(manifest, tail.active)
    BY <1>1 DEF WriteManifest, Published
  <1>4. manifest' \in Seq(Seq(Part)) /\ Len(manifest') = tail.entries + 1
        /\ Last(manifest') = tail.active
    BY <1>1, <1>3, LastOfAppend DEF Published
  <1>5. FilesTyped'
    BY <1>1, <1>4 DEF WriteManifest, FilesTyped, Steps
  <1>6. Entered' /\ ~Appending' /\ ~Written'
    BY <1>1, <1>2, <1>4 DEF WriteManifest, Published, Entered, Finalizing, Appending, Listed,
       JournalActive, Written
  <1>7. Segments' = Segments
    BY <1>1, <1>3, <1>4 DEF WriteManifest, Segments, Published, Finalizing, JournalActive
  <1>8. StepAgrees' /\ TornAgrees' /\ InPhase' /\ RefusedForAReason'
    BY <1>1, <1>2, <1>6 DEF StepAgrees, TornAgrees, InPhase, RefusedForAReason, WriteManifest,
       CaptureInvariant
  <1>9. QED
    BY <1>1, <1>2, <1>5, <1>6, <1>7, <1>8, LogKept DEF WriteManifest

\* Clearing a covered journal takes nothing out of the chain.
LEMMA ClearJournalKeeps == CaptureInvariant /\ ClearJournal => CaptureInvariant'
  <1> SUFFICES ASSUME CaptureInvariant, ClearJournal PROVE CaptureInvariant'
    OBVIOUS
  <1>1. step = "clear" /\ step' = Continue(plan) /\ FilesTyped /\ Covered /\ ~sealed
        /\ tail.entries \in Nat
    BY DEF ClearJournal, CaptureInvariant, StepAgrees, ProcessAgrees, FilesTyped
  <1>2. ~Written /\ ~Unwritten /\ tail.pending.op = "none"
    BY <1>1, PhaseOf
  <1>3. \/ step' = "redo" /\ ~ready
        \/ step' = "append" /\ ready /\ plan # <<>>
        \/ step' \in {"receipt", "idle"} /\ ready /\ plan = <<>>
    BY <1>1 DEF Continue
  <1>4. journal' \in [target : Nat, records : Seq(Part)] /\ journal'.target = 0
        /\ journal'.records = <<>>
    BY DEF ClearJournal, NoJournal
  <1>5. FilesTyped'
    BY <1>1, <1>3, <1>4 DEF ClearJournal, FilesTyped, Steps
  <1>6. AtRest' /\ ~Appending' /\ ~Written'
    BY <1>1, <1>2, <1>4 DEF ClearJournal, Covered, AtRest, Appending, Listed, JournalActive, Written
  <1>7. Segments' = Segments
    BY <1>1, <1>4 DEF ClearJournal, Segments, Covered, Listed
  <1>8. StepAgrees' /\ TornAgrees' /\ InPhase' /\ RefusedForAReason'
    BY <1>1, <1>2, <1>3, <1>6 DEF StepAgrees, TornAgrees, InPhase, RefusedForAReason, ClearJournal,
       CaptureInvariant
  <1>9. QED
    BY <1>1, <1>2, <1>3, <1>5, <1>6, <1>7, <1>8, LogKept DEF ClearJournal
-----------------------------------------------------------------------------
(* Steps of the cycle                                                       *)

\* A failed first cycle is closed as failed, not as resolved.
LEMMA FailAttemptKeeps == CaptureInvariant /\ FailAttempt => CaptureInvariant'
  <1> SUFFICES ASSUME CaptureInvariant, FailAttempt PROVE CaptureInvariant'
    OBVIOUS
  <1> USE DEF files
  <1>1. step = "resolve" /\ step' = "refused" /\ FilesTyped /\ AtRest /\ ~sealed /\ ~ready
    BY DEF FailAttempt, CaptureInvariant, StepAgrees, ProcessAgrees
  <1>2. ~Written /\ ~Unwritten /\ tail.pending.op = "none" /\ plan = <<>>
    BY <1>1, PhaseOf DEF CaptureInvariant, ProcessAgrees
  <1>3. /\ tail' \in [entries : Nat, active : Seq(Part), pending : Pending,
                 cycle : 0..MaxCycles, open : BOOLEAN, first : BOOLEAN, failed : BOOLEAN]
        /\ tail'.pending = tail.pending
        /\ tail'.entries = tail.entries /\ tail'.active = tail.active
        /\ tail'.cycle = tail.cycle /\ tail'.open = FALSE /\ tail'.failed = TRUE
    BY <1>1 DEF FailAttempt, FilesTyped
  <1>4. FilesTyped'
    BY <1>1, <1>3 DEF FailAttempt, FilesTyped, Steps
  <1>5. AtRest' /\ ~Appending' /\ ~Written'
    BY <1>1, <1>2, <1>3 DEF FailAttempt, AtRest, Appending, Listed, JournalActive, Written
  <1>6. Segments' = Segments /\ Chain' = Chain
    BY SameSegments DEF FailAttempt
  <1>7. /\ InPhase' /\ StepAgrees' /\ TornAgrees' /\ LogAgrees' /\ PlanAgrees' /\ ProcessAgrees'
    <2>1. InPhase' /\ StepAgrees' /\ TornAgrees'
      BY <1>1, <1>2, <1>5 DEF InPhase, StepAgrees, TornAgrees, CaptureInvariant, FailAttempt
    <2>2. LogAgrees'
      BY <1>3, <1>5, <1>6 DEF LogAgrees, CaptureInvariant
    <2>3. PlanAgrees' /\ ProcessAgrees'
      BY <1>1, <1>2 DEF PlanAgrees, ProcessAgrees, FailAttempt
    <2>4. QED
      BY <2>1, <2>2, <2>3
  <1>8. CaptureExact'
    BY <1>1, <1>3, <1>6 DEF CaptureInvariant, CaptureExact, Complete, FailAttempt
  <1>9. RefusedForAReason'
    BY <1>3 DEF RefusedForAReason
  <1>10. QED
    BY <1>4, <1>7, <1>8, <1>9 DEF CaptureInvariant

\* The parts of a cycle that is about to be collected.
LEMMA PlanOfCycle ==
    ASSUME NEW c, NEW of \in 1..2, NEW s \in [1..of -> Part],
           \A i \in 1..of : s[i].cycle = c /\ s[i].index = i /\ s[i].of = of
    PROVE  /\ s \in Seq(Part) /\ s # <<>> /\ s[1].cycle = c
           /\ \/ Len(s) = 1 /\ s[1].index = s[1].of
              \/ /\ Len(s) = 2 /\ s[1].index = 1 /\ s[1].of = 2
                 /\ s[2].cycle = c /\ s[2].index = 2 /\ s[2].of = 2
  <1>1. of \in Nat
    OBVIOUS
  <1>2. s \in Seq(Part) /\ Len(s) = of
    BY <1>1, IsSequence
  <1>3. s # <<>>
    BY <1>2
  <1>4. s[1].cycle = c /\ s[1].index = 1 /\ s[1].of = of
    OBVIOUS
  <1>5. of = 2 => s[2].cycle = c /\ s[2].index = 2 /\ s[2].of = 2
    OBVIOUS
  <1>6. QED
    BY <1>2, <1>3, <1>4, <1>5

\* The chain holds parts.
LEMMA ChainTyped == FilesTyped => Chain \subseteq Part
  <1> SUFFICES ASSUME FilesTyped PROVE Chain \subseteq Part
    OBVIOUS
  <1>1. manifest \in Seq(Seq(Part)) /\ journal.records \in Seq(Part)
    BY DEF FilesTyped
  <1>2. Segments \in Seq(Seq(Part))
    BY <1>1, LastOfAppend DEF Segments
  <1>3. ASSUME NEW i \in DOMAIN Segments, NEW k \in DOMAIN Segments[i]
        PROVE  Segments[i][k] \in Part
    BY <1>2
  <1>4. QED
    BY <1>3, InParts DEF Chain

\* A cycle is reserved when all earlier ones are complete.
LEMMA ReserveCycleKeeps ==
    ASSUME NEW of \in 1..2, NEW roll \in BOOLEAN, CaptureInvariant, ReserveCycle(of, roll)
    PROVE  CaptureInvariant'
  <1> USE DEF files
  <1>1. /\ step = "idle" /\ step' = "append" /\ FilesTyped /\ AtRest /\ ~sealed /\ ready
        /\ ~tail.failed /\ plan = <<>> /\ ~tail.open /\ tail.cycle \in 0..MaxCycles
        /\ tail.cycle < MaxCycles /\ MaxCycles \in Nat
    BY CaptureAssumption DEF ReserveCycle, CaptureInvariant, StepAgrees, ProcessAgrees, FilesTyped
  <1>2. ~Written /\ ~Unwritten /\ tail.pending.op = "none"
    BY <1>1, PhaseOf
  <1>3. tail.cycle + 1 \in 1..MaxCycles /\ tail.cycle + 1 \in 0..MaxCycles
    BY <1>1
  <1>4. /\ tail' \in [entries : Nat, active : Seq(Part), pending : Pending,
                 cycle : 0..MaxCycles, open : BOOLEAN, first : BOOLEAN, failed : BOOLEAN]
        /\ tail'.pending = tail.pending
        /\ tail'.entries = tail.entries /\ tail'.active = tail.active
        /\ tail'.cycle = tail.cycle + 1 /\ tail'.open = TRUE /\ tail'.failed = tail.failed
    BY <1>1, <1>3 DEF ReserveCycle, FilesTyped
  <1>5. /\ plan' \in Seq(Part) /\ plan' # <<>> /\ plan'[1].cycle = tail.cycle + 1
        /\ \/ Len(plan') = 1 /\ plan'[1].index = plan'[1].of
           \/ /\ Len(plan') = 2 /\ plan'[1].index = 1 /\ plan'[1].of = 2
              /\ plan'[2].cycle = tail.cycle + 1 /\ plan'[2].index = 2 /\ plan'[2].of = 2
    <2>1. plan' = [i \in 1..of |-> [cycle |-> tail.cycle + 1, index |-> i, of |-> of,
                                    newHour |-> (i > 1 \/ roll), gap |-> FALSE]]
      BY DEF ReserveCycle
    <2> DEFINE c == tail.cycle + 1
    <2>2. c \in 1..MaxCycles
      BY <1>3
    <2>3. plan' = [i \in 1..of |-> [cycle |-> c, index |-> i, of |-> of,
                                    newHour |-> (i > 1 \/ roll), gap |-> FALSE]]
      BY <2>1
    <2> HIDE DEF c
    <2>4. /\ plan' \in [1..of -> Part]
          /\ \A i \in 1..of : plan'[i].cycle = c /\ plan'[i].index = i /\ plan'[i].of = of
      BY <2>2, <2>3 DEF Part
    <2>5. /\ plan' \in Seq(Part) /\ plan' # <<>> /\ plan'[1].cycle = c
          /\ \/ Len(plan') = 1 /\ plan'[1].index = plan'[1].of
             \/ /\ Len(plan') = 2 /\ plan'[1].index = 1 /\ plan'[1].of = 2
                /\ plan'[2].cycle = c /\ plan'[2].index = 2 /\ plan'[2].of = 2
      BY <2>4, PlanOfCycle
    <2>6. QED
      BY <2>5 DEF c
  <1>6. FilesTyped'
    BY <1>1, <1>4, <1>5 DEF ReserveCycle, FilesTyped, Steps
  <1>7. AtRest' /\ ~Appending' /\ ~Written'
    BY <1>1, <1>2, <1>4 DEF ReserveCycle, AtRest, Appending, Listed, JournalActive, Written
  <1>8. Segments' = Segments /\ Chain' = Chain /\ Logged' = Chain
    BY <1>7, SameSegments DEF ReserveCycle, Logged
  <1>9. \A p \in Chain : p.cycle <= tail.cycle /\ p.cycle \in Int
    BY <1>1, ChainTyped DEF CaptureInvariant, LogAgrees, Part
  <1>10. LogAgrees'
    <2>1. \A p \in Chain : p.cycle < tail.cycle + 1
      BY <1>1, <1>9
    <2>2. QED
      BY <1>1, <1>4, <1>7, <1>8, <1>9, <2>1 DEF LogAgrees
  <1>11. PlanAgrees'
    <2>1. \A p \in Chain : Before(p, plan'[1])
      BY <1>1, <1>5, <1>9 DEF Before
    <2>2. QED
      BY <1>4, <1>5, <1>8, <2>1 DEF PlanAgrees, Due
  <1>12. ProcessAgrees'
    BY <1>1, <1>4, <1>5, <1>7 DEF ReserveCycle, ProcessAgrees
  <1>13. CaptureExact'
    <2>1. \A c \in 1..(tail.cycle + 1) : c < tail.cycle + 1 => Complete(c)
      BY <1>1 DEF CaptureInvariant, CaptureExact
    <2>2. QED
      BY <1>1, <1>4, <1>8, <2>1 DEF CaptureInvariant, CaptureExact, Complete, ReserveCycle
  <1>14. InPhase' /\ StepAgrees' /\ TornAgrees' /\ RefusedForAReason'
    BY <1>1, <1>2, <1>7 DEF InPhase, StepAgrees, TornAgrees, RefusedForAReason, CaptureInvariant,
       ReserveCycle
  <1>15. QED
    BY <1>6, <1>10, <1>11, <1>12, <1>13, <1>14 DEF CaptureInvariant

\* The prepared line gets into the journal, at once or by its repair.
LEMMA LineWritten ==
    ASSUME CaptureInvariant, Unwritten, UNCHANGED <<tail, manifest, chunks, plan, kept, ready>>,
           ~sealed, sealed' = sealed,
           journal' \in [target : Nat, records : Seq(Part)],
           journal'.records = Append(journal.records, tail.pending.part),
           journal'.target = Len(manifest) + 1
    PROVE  /\ Written' /\ ~Unwritten'
           /\ LogAgrees' /\ PlanAgrees' /\ CaptureExact'
  <1> DEFINE p == tail.pending.part
  <1>1. /\ FilesTyped /\ tail.pending.op = "append" /\ p \in Part /\ ~Written
        /\ manifest \in Seq(Seq(Part)) /\ journal.records \in Seq(Part)
        /\ tail.entries \in Nat /\ Len(manifest) = tail.entries
        /\ journal.records = tail.active /\ Appending
        /\ journal.target = IF journal.records = <<>> THEN 0 ELSE Len(manifest) + 1
    BY PhaseOf DEF CaptureInvariant, FilesTyped, Unwritten, Appending, Listed, JournalActive
  <1>2. Written' /\ ~Unwritten'
    <2>1. journal'.records # tail'.active
      BY <1>1, Longer
    <2>2. QED
      BY <1>1, <2>1 DEF Unwritten, Written, Appending, Listed, JournalActive
  <1>3. Logged = Chain /\ tail.open /\ Due(p)
    BY <1>1 DEF Logged, CaptureInvariant, LogAgrees
  <1>4. /\ journal.records = <<>> => Segments = manifest
        /\ journal.records # <<>> => Segments = Append(manifest, journal.records)
    BY <1>1 DEF Segments
  <1>5. Segments' = Append(manifest, Append(journal.records, p))
    BY <1>1 DEF Segments
  <1>6. Ordered(Segments) /\ \A q \in Parts(Segments) : Before(q, p)
    BY <1>3 DEF CaptureInvariant, CaptureExact, Due, Chain
  <1> HIDE DEF p
  <1>7. Ordered(Segments') /\ Chain' = Chain \cup {p}
    <2>1. /\ Ordered(Append(manifest, Append(journal.records, p)))
          /\ Parts(Append(manifest, Append(journal.records, p))) = Parts(Segments) \cup {p}
      <3>1. manifest \in Seq(Seq(Part)) /\ journal.records \in Seq(Part) /\ p \in Part
        BY <1>1
      <3>2. QED
        BY <1>4, <1>6, <3>1, PartAdded
    <2>2. QED
      BY <1>5, <2>1 DEF Chain
  <1>8. p \notin Chain
    <2>1. p.cycle \in Int /\ p.index \in Int
      BY <1>1 DEF Part
    <2>2. ~Before(p, p)
      BY <2>1 DEF Before
    <2>3. QED
      BY <1>6, <2>2 DEF Chain
  <1>9. Logged' = Chain
    BY <1>2, <1>7, <1>8 DEF Logged, p
  <1>10. Appending' /\ p.cycle = tail.cycle
    BY <1>1, <1>3 DEF Appending, Listed, Due
  <1>11. LogAgrees'
    BY <1>1, <1>3, <1>7, <1>9, <1>10 DEF LogAgrees, CaptureInvariant, Due, FilesTyped
  <1>12. PlanAgrees'
    BY <1>3, <1>9 DEF PlanAgrees, CaptureInvariant, Due
  <1>13. CaptureExact'
    BY <1>7 DEF CaptureExact, CaptureInvariant, Complete
  <1>14. QED
    BY <1>2, <1>11, <1>12, <1>13

\* The line is written once.
LEMMA WriteJournalKeeps == CaptureInvariant /\ WriteJournal => CaptureInvariant'
  <1> SUFFICES ASSUME CaptureInvariant, WriteJournal PROVE CaptureInvariant'
    OBVIOUS
  <1>1. step = "journal" /\ step' = "commit" /\ Unwritten /\ FilesTyped /\ ~sealed
    BY DEF WriteJournal, CaptureInvariant, StepAgrees, ProcessAgrees
  <1>2. /\ journal' \in [target : Nat, records : Seq(Part)]
        /\ journal'.records = Append(journal.records, tail.pending.part)
        /\ journal'.target = Len(manifest) + 1
    <2>1. tail.pending.part \in Part /\ journal.records \in Seq(Part) /\ Len(manifest) \in Nat
      BY <1>1, PhaseOf, LenProperties DEF FilesTyped
    <2>2. Append(journal.records, tail.pending.part) \in Seq(Part)
      BY <2>1, Longer
    <2>3. QED
      BY <2>1, <2>2 DEF WriteJournal
  <1>3. Written' /\ ~Unwritten' /\ LogAgrees' /\ PlanAgrees' /\ CaptureExact'
    BY <1>1, <1>2, LineWritten DEF WriteJournal
  <1>4. FilesTyped'
    BY <1>1, <1>2 DEF WriteJournal, FilesTyped, Steps
  <1>5. Appending' => Appending
    BY DEF Appending, Listed, WriteJournal
  <1>6. ProcessAgrees'
    BY <1>1, <1>5 DEF WriteJournal, ProcessAgrees, CaptureInvariant
  <1>7. InPhase' /\ StepAgrees' /\ TornAgrees' /\ RefusedForAReason'
    BY <1>1, <1>3 DEF InPhase, StepAgrees, TornAgrees, RefusedForAReason, CaptureInvariant,
       WriteJournal
  <1>8. QED
    BY <1>3, <1>4, <1>6, <1>7 DEF CaptureInvariant

\* The repair writes the same line.
LEMMA RepairJournalKeeps == CaptureInvariant /\ RepairJournal => CaptureInvariant'
  <1> SUFFICES ASSUME CaptureInvariant, RepairJournal PROVE CaptureInvariant'
    OBVIOUS
  <1>1. step = "redo" /\ step' = step /\ Unwritten /\ FilesTyped /\ ~sealed /\ tail.active # <<>>
    BY DEF RepairJournal, CaptureInvariant, TornAgrees, ProcessAgrees
  <1>2. /\ journal' \in [target : Nat, records : Seq(Part)]
        /\ journal'.records = Append(journal.records, tail.pending.part)
        /\ journal'.target = Len(manifest) + 1
    <2>1. tail.pending.part \in Part /\ journal.records \in Seq(Part)
          /\ journal.target = Len(manifest) + 1
      BY <1>1, PhaseOf DEF FilesTyped, Unwritten, Appending, Listed, JournalActive
    <2>2. Append(journal.records, tail.pending.part) \in Seq(Part)
      BY <2>1, Longer
    <2>3. QED
      BY <1>1, <2>1, <2>2 DEF RepairJournal, FilesTyped
  <1>3. Written' /\ ~Unwritten' /\ LogAgrees' /\ PlanAgrees' /\ CaptureExact'
    BY <1>1, <1>2, LineWritten DEF RepairJournal
  <1>4. FilesTyped'
    BY <1>1, <1>2 DEF RepairJournal, FilesTyped
  <1>5. Appending' => Appending
    BY DEF Appending, Listed, RepairJournal
  <1>6. ProcessAgrees'
    BY <1>1, <1>5 DEF RepairJournal, ProcessAgrees, CaptureInvariant
  <1>7. InPhase' /\ StepAgrees' /\ TornAgrees' /\ RefusedForAReason'
    BY <1>1, <1>3 DEF InPhase, StepAgrees, TornAgrees, RefusedForAReason, CaptureInvariant,
       RepairJournal
  <1>8. QED
    BY <1>3, <1>4, <1>6, <1>7 DEF CaptureInvariant

\* The order of parts is transitive.
LEMMA Follows ==
    ASSUME NEW p \in Part, NEW q \in Part, NEW r \in Part, Before(p, q), Before(q, r)
    PROVE  Before(p, r)
  BY DEF Before, Part

\* The commit resolves the cycle with its final part and leaves the rest planned.
LEMMA CommitAppendKeeps == CaptureInvariant /\ CommitAppend => CaptureInvariant'
  <1> SUFFICES ASSUME CaptureInvariant, CommitAppend PROVE CaptureInvariant'
    OBVIOUS
  <1> USE DEF files
  <1> DEFINE p == tail.pending.part
             rest == IF ready THEN Tail(plan) ELSE plan
  <1>1. step = "commit" /\ tail.pending.op = "append" /\ FilesTyped /\ ~sealed
    BY DEF CommitAppend, CaptureInvariant, ProcessAgrees
  <1>2. Written
    <2>1. ~Entered
      BY <1>1 DEF Entered, Finalizing
    <2>2. QED
      BY <1>1, <2>1 DEF CaptureInvariant, StepAgrees
  <1>3. /\ p \in Part /\ ~Unwritten /\ Appending /\ Len(manifest) = tail.entries
        /\ tail.entries \in Nat /\ tail.active \in Seq(Part) /\ manifest \in Seq(Seq(Part))
        /\ journal.records = Append(tail.active, p) /\ journal.target = tail.entries + 1
        /\ journal.records # <<>> /\ journal.records \in Seq(Part)
    <2>1. p \in Part /\ ~Unwritten /\ Appending
      BY <1>1, <1>2, PhaseOf DEF Written
    <2>2. tail.active \in Seq(Part)
      BY <1>1 DEF FilesTyped
    <2>3. Append(tail.active, p) # <<>>
      BY <2>1, <2>2, Longer
    <2>4. QED
      BY <1>1, <1>2, <2>1, <2>2, <2>3 DEF Written, Appending, Listed, FilesTyped
  <1>4. p \in Chain
    <2>1. Segments = Append(manifest, journal.records)
      BY <1>3 DEF Segments
    <2>2. /\ Len(manifest) + 1 \in DOMAIN Segments
          /\ Segments[Len(manifest) + 1] = journal.records
      BY <1>3, <2>1, AppendProperties, LenProperties
    <2>3. /\ Len(tail.active) + 1 \in DOMAIN journal.records
          /\ journal.records[Len(tail.active) + 1] = p
      BY <1>3, AppendProperties, LenProperties
    <2>4. QED
      BY <2>2, <2>3, InParts DEF Chain
  <1>5. tail.open /\ Due(p) /\ Logged = Chain \ {p}
    BY <1>2, <1>3 DEF CaptureInvariant, LogAgrees, Logged
  <1>6. /\ tail' \in [entries : Nat, active : Seq(Part), pending : Pending,
                 cycle : 0..MaxCycles, open : BOOLEAN, first : BOOLEAN, failed : BOOLEAN]
        /\ tail'.pending = NoOp
        /\ tail'.entries = tail.entries /\ tail'.active = journal.records
        /\ tail'.cycle = tail.cycle /\ tail'.open = (p.index < p.of)
        /\ tail'.failed = tail.failed
    <2>1. tail' = [tail EXCEPT !.pending = NoOp, !.active = journal.records,
                               !.open = (p.index < p.of)]
      BY <1>1, <1>3, <1>5 DEF CommitAppend, StillOpen, FilesTyped
    <2>2. NoOp \in Pending /\ (p.index < p.of) \in BOOLEAN
      BY DEF Pending
    <2>3. QED
      BY <1>1, <1>3, <2>1, <2>2 DEF FilesTyped
  <1>7. kept' = kept \cup {p} /\ plan' = rest /\ ready' = ready
        /\ step' = IF ready /\ manifest = <<>> THEN "finalize" ELSE Continue(rest)
    BY DEF CommitAppend
  <1>8. tail'.pending.op # "append"
    BY <1>6 DEF NoOp
  <1>9. AtRest' /\ ~Appending' /\ ~Written' /\ tail'.active # <<>>
    BY <1>2, <1>3, <1>6, <1>8 DEF CommitAppend, AtRest, Written, Appending, Listed, JournalActive
  <1>10. Segments' = Segments /\ Chain' = Chain /\ Logged' = Chain
    BY <1>9, SameSegments DEF CommitAppend, Logged
  <1>11. Chain \subseteq Part /\ plan \in Seq(Part)
    BY <1>1, ChainTyped DEF FilesTyped
  <1>12. /\ rest \in Seq(Part)
         /\ ready => ((p.index < p.of) <=> rest # <<>>)
         /\ ~ready => rest = <<>>
         /\ rest # <<>> => /\ Len(rest) = 1 /\ rest[1].index = rest[1].of
                           /\ rest[1].cycle = tail.cycle /\ Before(p, rest[1])
    <2>1. CASE ~ready
      BY <1>11, <2>1 DEF CaptureInvariant, ProcessAgrees
    <2>2. CASE ready
      <3>1. plan # <<>> /\ p = plan[1] /\ p.cycle = tail.cycle
        BY <1>3, <1>5, <2>2 DEF CaptureInvariant, ProcessAgrees, Due
      <3>2. /\ rest \in Seq(Part) /\ Len(rest) = Len(plan) - 1 /\ Len(plan) \in Nat
            /\ \A i \in 1..Len(rest) : rest[i] = plan[i + 1]
        BY <1>11, <2>2, <3>1, HeadTailProperties, LenProperties
      <3> HIDE DEF rest
      <3>3. CASE Len(plan) = 1 /\ plan[1].index = plan[1].of
        <4>1. rest = <<>>
          BY <3>2, <3>3
        <4>2. p.index \in Int
          BY <1>3 DEF Part
        <4>3. QED
          BY <2>2, <3>1, <3>2, <3>3, <4>1, <4>2
      <3>4. CASE /\ Len(plan) = 2 /\ plan[1].index = 1 /\ plan[1].of = 2
                 /\ plan[2].cycle = tail.cycle /\ plan[2].index = 2 /\ plan[2].of = 2
        <4>1. Len(rest) = 1 /\ rest[1] = plan[2] /\ rest # <<>>
          <5>1. Len(rest) = 1
            BY <3>2, <3>4
          <5>2. 1 \in 1..Len(rest) /\ 1 + 1 = 2
            BY <5>1
          <5>3. \A i \in 1..Len(rest) : rest[i] = plan[i + 1]
            BY <3>2
          <5>4. rest[1] = plan[1 + 1]
            BY <5>2, <5>3, Zenon
          <5>5. rest[1] = plan[2]
            BY <5>2, <5>4, Zenon
          <5>6. rest # <<>>
            BY <5>1
          <5>7. QED
            BY <5>1, <5>5, <5>6
        <4>2. Before(p, plan[2])
          BY <3>1, <3>4 DEF Before
        <4>3. QED
          BY <2>2, <3>1, <3>2, <3>4, <4>1, <4>2
      <3>5. QED
        BY <3>1, <3>3, <3>4 DEF CaptureInvariant, PlanAgrees
    <2>3. QED
      BY <2>1, <2>2
  <1> HIDE DEF rest, p
  <1>13. \/ step' = "redo" /\ ~ready
         \/ step' = "append" /\ ready /\ rest # <<>>
         \/ step' \in {"receipt", "idle"} /\ ready /\ rest = <<>>
         \/ step' = "finalize"
    BY <1>7 DEF Continue
  <1>14. FilesTyped'
    BY <1>1, <1>6, <1>7, <1>12, <1>13 DEF CommitAppend, FilesTyped, Steps
  <1>15. LogAgrees'
    <2>1. \A q \in Chain : q.cycle <= tail.cycle
      BY DEF CaptureInvariant, LogAgrees
    <2>2. p.index < p.of => \A q \in Chain : q.cycle = tail.cycle => q.index < q.of
      BY <1>5 DEF CaptureInvariant, LogAgrees
    <2>3. tail.cycle # 0
      BY <1>5 DEF CaptureInvariant, LogAgrees
    <2>4. QED
      BY <1>6, <1>9, <1>10, <2>1, <2>2, <2>3 DEF LogAgrees
  <1>16. PlanAgrees'
    <2>1. CASE rest = <<>>
      BY <1>7, <2>1 DEF PlanAgrees
    <2>2. CASE rest # <<>>
      <3>1. rest[1] \in Part
        BY <1>12, <2>2
      <3>2. \A q \in Chain : Before(q, rest[1])
        <4> SUFFICES ASSUME NEW q \in Chain PROVE Before(q, rest[1])
          OBVIOUS
        <4>1. q = p \/ Before(q, p)
          BY <1>5 DEF Due
        <4>2. QED
          BY <1>3, <1>11, <1>12, <2>2, <3>1, <4>1, Follows
      <3>3. QED
        BY <1>6, <1>7, <1>10, <1>12, <2>2, <3>2 DEF PlanAgrees, Due
    <2>3. QED
      BY <2>1, <2>2
  <1>17. ProcessAgrees'
    <2>1. ready => ~tail'.failed /\ (tail'.open <=> plan' # <<>>)
      <3>1. tail'.open <=> p.index < p.of
        BY <1>6
      <3>2. ready => ~tail'.failed
        BY <1>6 DEF CaptureInvariant, ProcessAgrees
      <3>3. QED
        BY <1>7, <1>12, <3>1, <3>2
    <2>2. ~sealed'
      BY <1>1 DEF CommitAppend
    <2>3. QED
      BY <1>7, <1>9, <1>12, <1>13, <2>1, <2>2 DEF ProcessAgrees
  <1>18. CaptureExact'
    <2>1. p.index < p.of \/ Complete(tail.cycle)
      <3>1. p.index < p.of \/ p.index = p.of
        BY <1>3 DEF Part
      <3>2. p.cycle = tail.cycle
        BY <1>5 DEF Due
      <3>3. QED
        BY <1>4, <3>1, <3>2 DEF Complete
    <2>2. \A c \in 1..tail.cycle : c < tail.cycle \/ ~(p.index < p.of) => Complete(c)
      <3>1. \A c \in 1..tail.cycle : c < tail.cycle \/ c = tail.cycle
        BY <1>1 DEF FilesTyped
      <3>2. \A c \in 1..tail.cycle : c < tail.cycle => Complete(c)
        BY DEF CaptureInvariant, CaptureExact
      <3>3. QED
        BY <2>1, <3>1, <3>2
    <2>3. Ordered(Segments') /\ kept' \subseteq Chain'
      BY <1>4, <1>7, <1>10 DEF CaptureInvariant, CaptureExact
    <2>4. \A c : Complete(c) => Complete(c)'
      BY <1>10 DEF Complete
    <2>5. ~sealed'
      BY <1>1 DEF CommitAppend
    <2>6. QED
      BY <1>6, <2>2, <2>3, <2>4, <2>5 DEF CaptureExact
  <1>19. StepAgrees'
    BY <1>9, <1>13 DEF StepAgrees
  <1>20. InPhase' /\ TornAgrees' /\ RefusedForAReason'
    BY <1>3, <1>9, <1>13 DEF InPhase, TornAgrees, RefusedForAReason, CaptureInvariant, CommitAppend
  <1>21. QED
    BY <1>14, <1>15, <1>16, <1>17, <1>18, <1>19, <1>20 DEF CaptureInvariant
-----------------------------------------------------------------------------
(* Theorems                                                                 *)

\* An empty ledger is at rest.
LEMMA CaptureInvariantInit == CaptureInit => CaptureInvariant
  <1> SUFFICES ASSUME CaptureInit PROVE CaptureInvariant
    OBVIOUS
  <1>1. /\ tail.entries = 0 /\ tail.active = <<>> /\ tail.pending = NoOp /\ tail.cycle = 0
        /\ tail.open = FALSE /\ tail.first = FALSE /\ tail.failed = FALSE
        /\ journal.target = 0 /\ journal.records = <<>> /\ manifest = <<>> /\ chunks = <<>>
    BY DEF CaptureInit, NoJournal
  <1>2. FilesTyped
    <2>1. 0 \in 0..MaxCycles /\ NoOp \in Pending /\ <<>> \in Seq(Part) /\ <<>> \in Seq(Seq(Part))
      BY CaptureAssumption DEF Pending
    <2>2. tail \in [entries : Nat, active : Seq(Part), pending : Pending,
                 cycle : 0..MaxCycles, open : BOOLEAN, first : BOOLEAN, failed : BOOLEAN]
      BY <2>1 DEF CaptureInit
    <2>3. QED
      BY <2>1, <2>2 DEF CaptureInit, FilesTyped, NoJournal, Steps
  <1>3. AtRest
    BY <1>1 DEF AtRest, Listed, JournalActive
  <1>4. ~Appending
    BY <1>2, <1>3, PhaseOf
  <1>5. Segments = <<>> /\ Chain = {}
    <2>1. Segments = <<>>
      BY <1>1 DEF Segments
    <2>2. QED
      BY <2>1 DEF Chain, Parts
  <1>6. InPhase /\ StepAgrees /\ TornAgrees /\ PlanAgrees /\ RefusedForAReason
    BY <1>3 DEF CaptureInit, InPhase, StepAgrees, TornAgrees, PlanAgrees, RefusedForAReason
  <1>7. LogAgrees /\ ProcessAgrees
    BY <1>1, <1>4, <1>5 DEF CaptureInit, LogAgrees, ProcessAgrees
  <1>8. CaptureExact
    <2>1. Ordered(<<>>)
      BY DEF Ordered
    <2>2. QED
      BY <1>1, <1>5, <2>1 DEF CaptureInit, CaptureExact
  <1>9. QED
    BY <1>2, <1>6, <1>7, <1>8 DEF CaptureInvariant

\* Every write and every death keeps the invariant.
LEMMA CaptureInvariantStep == CaptureInvariant /\ [CaptureNext]_captureVars => CaptureInvariant'
  <1> SUFFICES ASSUME CaptureInvariant, [CaptureNext]_captureVars PROVE CaptureInvariant'
    OBVIOUS
  <1>1. CASE Proceed
    BY <1>1, RollHourKeeps, PrepareAppendKeeps, WriteJournalKeeps, CommitAppendKeeps,
       PrepareFinalizeKeeps, WriteChunkKeeps, WriteManifestKeeps, CommitFinalizeKeeps,
       ClearJournalKeeps, StartKeeps, RepairJournalKeeps, AbortFinalizeKeeps, RedoKeeps,
       SettleKeeps, ResolveKeeps, FailAttemptKeeps, CommitReceiptKeeps, FinalizeLastHourKeeps,
       FinishKeeps DEF Proceed
  <1>2. CASE \E of \in 1..2, roll \in BOOLEAN : ReserveCycle(of, roll)
    BY <1>2, ReserveCycleKeeps
  <1>3. CASE WindowCloses \/ Kill
    BY <1>3, WindowClosesKeeps, KillKeeps
  <1>4. CASE UNCHANGED captureVars
    <2>1. StepAgrees'
      BY <1>4, SameLog DEF captureVars, StepAgrees, CaptureInvariant
    <2>2. QED
      BY <1>4, <2>1, StepOnly DEF captureVars, CaptureInvariant, TornAgrees, ProcessAgrees,
         RefusedForAReason, FilesTyped
  <1>5. QED
    BY <1>1, <1>2, <1>3, <1>4 DEF CaptureNext

\* Log and files agree: whatever death interrupted, they are in one of the
\* phases that _recover_pending_tail_operation and _recover_active_journal
\* lead back from.
THEOREM CaptureInvariantHolds == CaptureSpec => []CaptureInvariant
  BY CaptureInvariantInit, CaptureInvariantStep, PTL DEF CaptureSpec

\* Each part is in the main chain once and in order, nothing committed is lost,
\* a resolved cycle has its final part, and a sealed capture is complete.
THEOREM CaptureExactHolds == CaptureSpec => []CaptureExact
  <1>1. CaptureInvariant => CaptureExact
    BY DEF CaptureInvariant
  <1>2. QED
    BY <1>1, CaptureInvariantHolds, PTL

\* The ledger refuses to open only for damage that recovery does not handle.
THEOREM RefusedHolds == CaptureSpec => []RefusedForAReason
  <1>1. CaptureInvariant => RefusedForAReason
    BY DEF CaptureInvariant
  <1>2. QED
    BY <1>1, CaptureInvariantHolds, PTL
-----------------------------------------------------------------------------
(* Types                                                                    *)

\* The flags, the role and the histories, which the phases say nothing of.
FlagsTyped ==
    /\ receipt \in BOOLEAN /\ sealed \in BOOLEAN /\ closed \in BOOLEAN /\ ready \in BOOLEAN
    /\ role \in {"collector", "finalizer"}
    /\ kept \subseteq Part
    /\ kills \in 0..MaxKills

\* They hold of an empty ledger.
LEMMA FlagsTypedInit == CaptureInit => FlagsTyped
  <1>1. 0 \in 0..MaxKills
    BY CaptureAssumption
  <1>2. QED
    BY <1>1, Zenon DEF CaptureInit, FlagsTyped

\* Every step keeps them; a committed part is the prepared one.
LEMMA FlagsTypedStep ==
    CaptureInvariant /\ FlagsTyped /\ [CaptureNext]_captureVars => FlagsTyped'
  <1> SUFFICES ASSUME CaptureInvariant, FlagsTyped, [CaptureNext]_captureVars PROVE FlagsTyped'
    OBVIOUS
  <1> USE DEF FlagsTyped, files
  <1>1. CASE RollHour \/ PrepareAppend \/ WriteJournal \/ PrepareFinalize \/ WriteChunk
             \/ WriteManifest \/ CommitFinalize \/ ClearJournal \/ RepairJournal
             \/ AbortFinalize \/ Redo \/ Settle \/ FailAttempt \/ FinalizeLastHour
             \/ UNCHANGED captureVars
    <2>1. UNCHANGED <<receipt, sealed, closed, ready, role, kept, kills>>
      BY <1>1 DEF RollHour, PrepareAppend, WriteJournal, PrepareFinalize, WriteChunk,
                  WriteManifest, CommitFinalize, ClearJournal, RepairJournal, AbortFinalize,
                  Redo, Settle, FailAttempt, FinalizeLastHour, captureVars
    <2>2. QED
      BY <2>1
  <1>2. CASE CommitAppend
    <2>1. tail.pending \in Pending /\ tail.pending.op = "append"
      BY <1>2 DEF CommitAppend, CaptureInvariant, FilesTyped
    <2>2. tail.pending.part \in Part
      BY <2>1 DEF Pending, NoOp
    <2>3. /\ kept' = kept \cup {tail.pending.part}
          /\ UNCHANGED <<receipt, sealed, closed, ready, role, kills>>
      BY <1>2 DEF CommitAppend
    <2>4. QED
      BY <2>2, <2>3
  <1>3. CASE Start \/ Finish \/ CommitReceipt \/ WindowCloses
    BY <1>3 DEF Start, Finish, CommitReceipt, WindowCloses
  <1>4. CASE Resolve
    BY <1>4 DEF Resolve
  <1>5. ASSUME NEW of \in 1..2, NEW roll \in BOOLEAN, ReserveCycle(of, roll) PROVE FlagsTyped'
    BY <1>5 DEF ReserveCycle
  <1>6. CASE Kill
    <2>1. /\ kills < MaxKills /\ kills' = kills + 1 /\ ready' = FALSE
          /\ UNCHANGED <<receipt, sealed, closed, role, kept>>
      BY <1>6 DEF Kill
    <2>2. kills' \in 0..MaxKills
      BY <2>1, CaptureAssumption
    <2>3. QED
      BY <2>1, <2>2
  <1>7. QED
    BY <1>1, <1>2, <1>3, <1>4, <1>5, <1>6 DEF CaptureNext, Proceed

\* The phases bound the lengths that the log, the journal, the manifest and the
\* chunks may have apart.
LEMMA PhasesTyped == CaptureInvariant /\ FlagsTyped => CaptureTypeOK
  <1> SUFFICES ASSUME CaptureInvariant, FlagsTyped PROVE CaptureTypeOK
    OBVIOUS
  <1>1. FilesTyped /\ InPhase
    BY DEF CaptureInvariant
  <1>2. /\ tail \in [entries : Nat, active : Seq(Part), pending : Pending,
                     cycle : 0..MaxCycles, open : BOOLEAN, first : BOOLEAN, failed : BOOLEAN]
        /\ journal \in [target : Nat, records : Seq(Part)]
        /\ manifest \in Seq(Seq(Part)) /\ chunks \in Seq(Seq(Part)) /\ plan \in Seq(Part)
        /\ torn \subseteq {"wal", "journal", "manifest", "temp"} /\ step \in Steps
    BY <1>1 DEF FilesTyped
  <1>3. /\ tail.entries \in Nat /\ tail.active \in Seq(Part) /\ tail.pending \in Pending
        /\ tail.cycle \in 0..MaxCycles
        /\ tail.open \in BOOLEAN /\ tail.first \in BOOLEAN /\ tail.failed \in BOOLEAN
        /\ journal.target \in Nat /\ journal.records \in Seq(Part)
    BY <1>2
  <1>4. Len(manifest) \in Nat /\ Len(chunks) \in Nat
    BY <1>2
  <1>5. /\ tail.entries \in 0..Len(manifest)
        /\ journal.target \in 0..(Len(manifest) + 1)
        /\ Len(chunks) \in Len(manifest)..(Len(manifest) + 1)
    BY <1>1, <1>3, <1>4
       DEF InPhase, AtRest, Covered, Unwritten, Written, Unpublished, Published, Entered,
           Appending, Finalizing, Listed, JournalActive
  <1>6. /\ Range(tail.active) \subseteq Part /\ Range(journal.records) \subseteq Part
        /\ Range(plan) \subseteq Part
    BY <1>2, <1>3 DEF Range
  <1>7. /\ {tail.open, tail.first, tail.failed} \subseteq BOOLEAN
        /\ {receipt, sealed, closed, ready} \subseteq BOOLEAN
    BY <1>3 DEF FlagsTyped
  <1>8. QED
    BY <1>2, <1>3, <1>5, <1>6, <1>7 DEF CaptureTypeOK, FlagsTyped, Pending

\* The ledger keeps its types, for any number of cycles and deaths: the log is
\* never ahead of the manifest, the chunks are at most one ahead of it.
THEOREM CaptureTyped == CaptureSpec => []CaptureTypeOK
  <1>1. CaptureInit => CaptureInvariant /\ FlagsTyped
    BY CaptureInvariantInit, FlagsTypedInit
  <1>2. (CaptureInvariant /\ FlagsTyped) /\ [CaptureNext]_captureVars
            => (CaptureInvariant /\ FlagsTyped)'
    BY CaptureInvariantStep, FlagsTypedStep
  <1>3. QED
    BY <1>1, <1>2, PhasesTyped, PTL DEF CaptureSpec
=============================================================================
