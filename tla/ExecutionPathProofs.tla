------------------------- MODULE ExecutionPathProofs -------------------------
(***************************************************************************)
(* The way of a command to the broker and back, for every set of commands, *)
(* any number of send attempts and restarts: what the store's queue, the   *)
(* EA and the two requests between them guarantee together.                *)
(***************************************************************************)
EXTENDS ExecutionPath, CommandStoreProofs

\* A command in hand is a command, and past the broker it has an outcome.
HandShape ==
    /\ hand.pc # "idle" => hand.cmd \in Commands
    /\ hand.pc \in {"journal", "queue", "post"} => hand.ack \in Ack

\* Acknowledgement a of command c is somewhere: due in the EA's hand, owed by
\* it, in its journal, or with the row.
Known(c, a) ==
    \/ hand.pc \in {"journal", "queue", "post"} /\ hand.cmd = c /\ hand.ack = a
    \/ \E f \in outbox \cup kept : f.cmd = c /\ f.ack = a
    \/ journal[c] = a
    \/ row[c].sem = a

\* What the classifier takes for an attested success took effect, and what is
\* reported as not attempted did not.
TrueReport(c, a) ==
    /\ EffectiveStatus(Verb[c], a) = "acked" => executed[c] = 1
    /\ a.mutation = "not_attempted" => executed[c] = 0

\* An effect needs a delivery, an acknowledgement too, and every
\* acknowledgement but those of a bulk close is true.
ReportsTrue ==
    /\ \A c \in Commands : executed[c] <= polls[c]
    /\ \A c \in Commands : \A a \in Ack : Known(c, a) =>
          polls[c] > 0 /\ (c \in Bulk \/ TrueReport(c, a))

\* A command at the broker was handed out, has had no effect and is not
\* reported on yet.
FreshAtBroker ==
    hand.pc = "broker" =>
        /\ polls[hand.cmd] > 0
        /\ executed[hand.cmd] = 0
        /\ \A a \in Ack : ~Known(hand.cmd, a)

PathInvariant ==
    /\ StoreInvariant
    /\ EA!EATypeOK
    /\ HandShape
    /\ ReportsTrue
    /\ FreshAtBroker
-----------------------------------------------------------------------------
(* The store's side                                                        *)

\* A step of the store that nobody's request causes keeps the deliveries and
\* writes no acknowledgement.
SemKept == \A c \in Commands : row'[c].sem = row[c].sem \/ row'[c].sem = NoAck

\* Expiry and quarantine change no verdict.
LEMMA RestatusKeepsSem ==
    ASSUME row \in [Commands -> Row], NEW S,
           Restatus(S, ExpiredStatus) \/ Restatus(S, QuarantinedStatus)
    PROVE  SemKept
  <1>1. ASSUME NEW c \in Commands
        PROVE  row'[c].sem = row[c].sem
    <2>1. \/ row'[c] = row[c]
          \/ row'[c] = [row[c] EXCEPT !.status = ExpiredStatus(row[c])]
          \/ row'[c] = [row[c] EXCEPT !.status = QuarantinedStatus(row[c])]
      BY DEF Restatus
    <2>2. row[c] \in Row
      OBVIOUS
    <2>3. QED
      BY <2>1, <2>2 DEF Row
  <1>2. QED
    BY <1>1 DEF SemKept

\* The store on its own delivers nothing and resolves nothing.
LEMMA BackgroundKeeps ==
    ASSUME StoreInvariant, Background
    PROVE  StoreInvariant' /\ polls' = polls /\ SemKept
  <1>0. row \in [Commands -> Row]
    BY DEF StoreInvariant, TypeOK
  <1>1. StoreInvariant'
    BY StoreInvariantStep DEF Next
  <1>2. polls' = polls
    BY DEF Background, Enqueue, Requeue, TimePasses, CleanupExpired,
       QuarantineStaleDelivered, RecordSnapshot, PurgePending, DisableEgress,
       AuthorityStep, SnapshotStale
  <1>3. ASSUME NEW c \in Commands, Enqueue(c)
        PROVE  SemKept
    <2> DEFINE new == [EmptyRow EXCEPT !.status = "queued",
                         !.revision = IF Entry(c) THEN auth.revision ELSE 0]
    <2>1. row' = [row EXCEPT ![c] = new]
      BY <1>3 DEF Enqueue
    <2>2. new.sem = NoAck
      BY DEF EmptyRow
    <2> HIDE DEF new
    <2>3. QED
      BY <1>0, <2>1, <2>2 DEF SemKept
  <1>4. ASSUME NEW c \in Commands, Requeue(c) \/ TimePasses(c)
        PROVE  SemKept
    BY <1>0, <1>4 DEF Requeue, TimePasses, Row, SemKept
  <1>5. ASSUME CleanupExpired PROVE SemKept
    BY <1>0, <1>5, RestatusKeepsSem DEF CleanupExpired
  <1>6. ASSUME NEW S \in SUBSET Commands, QuarantineStaleDelivered(S)
        PROVE  SemKept
    BY <1>0, <1>6, RestatusKeepsSem DEF QuarantineStaleDelivered
  <1>7. ASSUME NEW p \in BOOLEAN, NEW d \in BOOLEAN, NEW e \in BOOLEAN, PurgePending(p, d, e)
        PROVE  SemKept
    BY <1>0, <1>7, RestatusKeepsSem DEF PurgePending
  <1>8. ASSUME NEW p \in BOOLEAN, DisableEgress(p)
        PROVE  SemKept
    BY <1>0, <1>8, RestatusKeepsSem DEF DisableEgress
  <1>9. ASSUME AuthorityStep \/ SnapshotStale PROVE SemKept
    BY <1>9 DEF AuthorityStep, SnapshotStale, SemKept
  <1>10. ASSUME NEW S \in SUBSET Commands, RecordSnapshot(S)
         PROVE  SemKept
    BY <1>10 DEF RecordSnapshot, SemKept
  <1>11. SemKept
    BY <1>3, <1>4, <1>5, <1>6, <1>7, <1>8, <1>9, <1>10 DEF Background
  <1>12. QED
    BY <1>1, <1>2, <1>11

\* A poll that delivers nothing keeps the invariant of the store and every verdict.
LEMMA PollKeeps ==
    ASSUME StoreInvariant, NEW vetoed \in SUBSET Candidates,
           PollBegin \/ PollClosed \/ PollNothing(vetoed)
    PROVE  StoreInvariant' /\ polls' = polls /\ SemKept
  <1>0. row \in [Commands -> Row]
    BY DEF StoreInvariant, TypeOK
  <1>1. StoreInvariant'
    BY StoreInvariantStep DEF Next, Poll
  <1>2. polls' = polls
    BY DEF PollBegin, PollClosed, PollNothing
  <1>3. SemKept
    BY <1>0, RestatusKeepsSem DEF PollBegin, PollClosed, PollNothing
  <1>4. QED
    BY <1>1, <1>2, <1>3

\* A delivered command had never been handed out.
LEMMA DeliverKeeps ==
    ASSUME StoreInvariant, NEW vetoed \in SUBSET Candidates, NEW c \in Candidates,
           PollDeliver(c, vetoed)
    PROVE  /\ StoreInvariant'
           /\ c \in Commands
           /\ polls[c] = 0 /\ polls'[c] = 1
           /\ \A d \in Commands : polls'[d] >= polls[d]
           /\ SemKept
  <1>0. /\ row \in [Commands -> Row] /\ polls \in [Commands -> Nat]
        /\ c \in Commands /\ row[c].status = "queued"
    BY DEF StoreInvariant, TypeOK, Candidates, WithStatus
  <1>1. StoreInvariant'
    BY <1>0, DeliverPreserves
  <1>2. polls[c] = 0
    BY <1>0 DEF StoreInvariant, RowHistory
  <1>3. polls' = [polls EXCEPT ![c] = polls[c] + 1]
    BY DEF PollDeliver
  <1>4. polls'[c] = 1 /\ \A d \in Commands : polls'[d] >= polls[d]
    BY <1>0, <1>2, <1>3
  <1>5. SemKept
    BY <1>0 DEF PollDeliver, Row, SemKept
  <1>6. QED
    BY <1>0, <1>1, <1>2, <1>4, <1>5

\* An acknowledgement is stored with the row of its command, or nowhere.
LEMMA AnswerKeeps ==
    ASSUME StoreInvariant, NEW f, f.cmd \in Commands, f.ack \in Ack,
           StoreAnswers(f) \/ UNCHANGED vars
    PROVE  /\ StoreInvariant' /\ polls' = polls
           /\ \A c \in Commands : \/ row'[c].sem = row[c].sem
                                  \/ c = f.cmd /\ row'[c].sem = f.ack
  <1>0. row \in [Commands -> Row]
    BY DEF StoreInvariant, TypeOK
  <1>1. CASE UNCHANGED vars
    <2>1. StoreInvariant'
      BY <1>1, StoreInvariantStep
    <2>2. QED
      BY <1>1, <2>1 DEF vars
  <1>2. CASE AckCommand(f.cmd, f.ack)
    <2>1. StoreInvariant'
      BY <1>2, AckPreserves
    <2>2. polls' = polls /\ row' = [row EXCEPT ![f.cmd] = AckedRow(f.cmd, f.ack)]
      BY <1>2 DEF AckCommand
    <2>3. AckedRow(f.cmd, f.ack).sem = f.ack
      BY <1>0 DEF AckedRow, Row
    <2>4. QED
      BY <1>0, <2>1, <2>2, <2>3
  <1>3. QED
    BY <1>1, <1>2 DEF StoreAnswers
-----------------------------------------------------------------------------
(* The EA's side                                                           *)

\* The EA and the store mean the same acknowledgements and verbs.
LEMMA SameAcks ==
    /\ EA!Outcome = Ack \cup {EA!NoOutcome}
    /\ EA!File = [cmd : Commands, ack : Ack]
    /\ EA!EntryVerbs = EntryVerbs
  <1>1. EA!Ack = Ack
    BY DEF Ack, EA!Ack, AckStatus, EA!AckStatus, ResolvedStatus, EA!ResolvedStatus
  <1>2. QED
    BY <1>1 DEF EA!Outcome, EA!File, EntryVerbs, EA!EntryVerbs

\* An acknowledgement is not the absence of one.
LEMMA NothingIsNoAck == \A a \in Ack : a # NoAck /\ a # EA!NoOutcome
  BY DEF Ack, AckStatus, ResolvedStatus, NoAck, EA!NoOutcome

\* What the EA reports is an acknowledgement, and what it says.
LEMMA EAReports ==
    /\ EA!Refusal \in Ack /\ EA!Refusal.status = "failed"
    /\ EA!Ambiguous \in Ack /\ EA!Ambiguous.status = "reconcile_required"
    /\ EA!Ambiguous.mutation = "unknown"
    /\ \A t \in Tickets \cup {0} :
          /\ EA!Attempted(t) \in Ack /\ EA!Attempted(t).status = "reconcile_required"
          /\ EA!Attempted(t).mutation = "attempted"
    /\ \A t \in Tickets :
          EA!Attested(t) \in Ack /\ EA!Attested(t).mutation = "confirmed"
  BY DEF EA!Refusal, EA!Ambiguous, EA!Attested, EA!Attempted, EA!Report, Ack, AckStatus,
         ResolvedStatus

\* Only a report of success is ever classified as one.
LEMMA SuccessIsReported ==
    ASSUME NEW a \in Ack, NEW v, EffectiveStatus(v, a) = "acked"
    PROVE  a.status = "acked" /\ a.mutation = "confirmed"
  BY DEF EffectiveStatus, SuccessAttested, RefusalConclusive

\* The EA with no command in hand.
LEMMA IdleShape ==
    /\ EA!Idle \in EA!Hand
    /\ EA!Idle.pc = "idle"
  <1>1. 0 \in 0 .. SendAttempts - 1
    BY PathAssumption
  <1>2. QED
    BY <1>1 DEF EA!Idle, EA!Hand, EA!Outcome

\* The EA about to journal an outcome.
LEMMA AckingShape ==
    ASSUME NEW c \in Commands, NEW ack \in Ack
    PROVE  /\ EA!Acking(c, ack) \in EA!Hand
           /\ EA!Acking(c, ack).pc = "journal"
           /\ EA!Acking(c, ack).cmd = c
           /\ EA!Acking(c, ack).ack = ack
  <1>1. EA!Idle \in EA!Hand /\ ack \in EA!Outcome
    BY IdleShape, SameAcks
  <1>2. QED
    BY <1>1 DEF EA!Acking, EA!Hand

\* A step without effect at the broker: what is known afterwards was known, or
\* is a true report of a delivered command.
LEMMA WithoutEffect ==
    ASSUME PathInvariant, StoreInvariant', EA!EATypeOK', HandShape', FreshAtBroker',
           executed' = executed,
           \A c \in Commands : polls'[c] >= polls[c],
           \A c \in Commands : \A a \in Ack : Known(c, a)' =>
              \/ Known(c, a)
              \/ polls'[c] > 0 /\ (c \in Bulk \/ TrueReport(c, a))
    PROVE  PathInvariant'
  <1>1. \A c \in Commands : polls[c] \in Nat /\ polls'[c] \in Nat /\ executed[c] \in Nat
    BY DEF PathInvariant, StoreInvariant, TypeOK, EA!EATypeOK
  <1>2. \A c \in Commands : executed'[c] <= polls'[c]
    BY <1>1 DEF PathInvariant, ReportsTrue
  <1>3. \A c, a : TrueReport(c, a) => TrueReport(c, a)'
    BY DEF TrueReport
  <1>4. ASSUME NEW c \in Commands, NEW a \in Ack, Known(c, a)'
        PROVE  polls'[c] > 0 /\ (c \in Bulk \/ TrueReport(c, a)')
    <2>1. \/ Known(c, a)
          \/ polls'[c] > 0 /\ (c \in Bulk \/ TrueReport(c, a))
      BY <1>4
    <2>2. Known(c, a) => polls[c] > 0 /\ (c \in Bulk \/ TrueReport(c, a))
      BY DEF PathInvariant, ReportsTrue
    <2>3. QED
      BY <1>1, <1>3, <2>1, <2>2
  <1>5. ReportsTrue'
    BY <1>2, <1>4 DEF ReportsTrue
  <1>6. QED
    BY <1>5 DEF PathInvariant

\* A step of the store alone.
LEMMA StoreSide ==
    ASSUME PathInvariant, UNCHANGED eaVars, StoreInvariant', SemKept,
           \A c \in Commands : polls'[c] >= polls[c]
    PROVE  PathInvariant'
  <1>1. UNCHANGED <<hand, seen, kept, blocked, journal, outbox, torn, called, executed, restarts>>
    BY DEF eaVars
  <1>2. EA!EATypeOK' /\ HandShape'
    BY <1>1 DEF PathInvariant, EA!EATypeOK, HandShape
  <1>3. \A c \in Commands : \A a \in Ack : Known(c, a)' => Known(c, a)
    BY <1>1, NothingIsNoAck DEF Known, SemKept
  <1>4. FreshAtBroker'
    <2> SUFFICES ASSUME hand.pc = "broker"
                 PROVE  /\ polls'[hand.cmd] > 0
                        /\ executed[hand.cmd] = 0
                        /\ \A a \in Ack : ~Known(hand.cmd, a)'
      BY <1>1 DEF FreshAtBroker, Known
    <2>1. hand.cmd \in Commands
      BY DEF PathInvariant, HandShape
    <2>2. polls[hand.cmd] \in Nat /\ polls'[hand.cmd] \in Nat
      BY <2>1 DEF PathInvariant, StoreInvariant, TypeOK
    <2>3. polls[hand.cmd] > 0 /\ executed[hand.cmd] = 0 /\ \A a \in Ack : ~Known(hand.cmd, a)
      BY DEF PathInvariant, FreshAtBroker
    <2>4. ASSUME NEW a \in Ack PROVE ~Known(hand.cmd, a)'
      <3> DEFINE c0 == hand.cmd
      <3>1. Known(c0, a)' => Known(hand.cmd, a)
        BY <1>1, <1>3, <2>1 DEF Known
      <3>2. QED
        BY <2>3, <3>1
    <2>5. QED
      BY <2>1, <2>2, <2>3, <2>4
  <1>5. QED
    BY <1>1, <1>2, <1>3, <1>4, WithoutEffect

\* A command arrives: it was never in hand before, so nothing is known of it.
LEMMA HandedOver ==
    ASSUME PathInvariant, NEW vetoed \in SUBSET Candidates, NEW c \in Candidates,
           Deliver(c, vetoed)
    PROVE  PathInvariant'
  <1>1. PollDeliver(c, vetoed) /\ EA!HandleCmd(c)
    BY DEF Deliver
  <1>2. /\ StoreInvariant' /\ c \in Commands /\ polls[c] = 0 /\ polls'[c] = 1
        /\ \A d \in Commands : polls'[d] >= polls[d]
        /\ SemKept
    BY <1>1, DeliverKeeps DEF PathInvariant
  <1>3. (\A a \in Ack : ~Known(c, a)) /\ executed[c] = 0
    BY <1>2 DEF PathInvariant, ReportsTrue, StoreInvariant, TypeOK, EA!EATypeOK
  <1>4. journal[c] = EA!NoOutcome
    <2>1. journal[c] \in EA!Outcome
      BY <1>2 DEF PathInvariant, EA!EATypeOK
    <2>2. QED
      BY <1>3, <2>1, SameAcks DEF Known
  <1>5. /\ hand = EA!Idle
        /\ UNCHANGED <<kept, outbox, torn, blocked, journal, called, executed, restarts>>
        /\ seen' \subseteq Commands
    BY <1>1, <1>2, <1>4
       DEF EA!HandleCmd, EA!AllowsPolling, EA!ReplayOutcome, EA!RefuseAmbiguous, EA!Execute,
           PathInvariant, EA!EATypeOK
  <1>6. \/ hand' = EA!Acking(c, EA!Ambiguous)
        \/ hand' = EA!Acking(c, EA!Refusal)
        \/ hand' = [EA!Idle EXCEPT !.pc = "broker", !.cmd = c]
    BY <1>1, <1>4 DEF EA!HandleCmd, EA!ReplayOutcome, EA!RefuseAmbiguous, EA!Execute
  <1>7. /\ hand' \in EA!Hand /\ hand'.cmd = c
        /\ hand'.pc \in {"broker", "journal"}
        /\ hand'.pc = "journal" => hand'.ack \in {EA!Ambiguous, EA!Refusal}
    <2>1. CASE hand' = EA!Acking(c, EA!Ambiguous) \/ hand' = EA!Acking(c, EA!Refusal)
      BY <1>2, <2>1, AckingShape, EAReports
    <2>2. CASE hand' = [EA!Idle EXCEPT !.pc = "broker", !.cmd = c]
      BY <1>2, <2>2, IdleShape DEF EA!Hand
    <2>3. QED
      BY <1>6, <2>1, <2>2
  <1>8. EA!EATypeOK' /\ HandShape'
    BY <1>2, <1>5, <1>7, EAReports DEF PathInvariant, EA!EATypeOK, HandShape
  <1>9. ASSUME NEW d \in Commands, NEW a \in Ack, Known(d, a)', ~Known(d, a)
        PROVE  hand'.pc = "journal" /\ d = c /\ a \in {EA!Ambiguous, EA!Refusal}
    BY <1>2, <1>5, <1>7, <1>9, NothingIsNoAck DEF Known, SemKept
  <1>10. \A a \in {EA!Ambiguous, EA!Refusal} : TrueReport(c, a)
    BY <1>3, EAReports, SuccessIsReported DEF TrueReport
  <1>11. FreshAtBroker'
    <2>1. ASSUME hand'.pc = "broker", NEW a \in Ack
          PROVE  ~Known(c, a)'
      BY <1>2, <1>3, <1>9, <2>1
    <2>2. ASSUME hand'.pc = "broker", NEW a \in Ack
          PROVE  ~Known(hand.cmd, a)'
      BY <1>7, <2>1, <2>2 DEF Known
    <2>3. QED
      BY <1>2, <1>3, <1>5, <1>7, <2>2 DEF FreshAtBroker
  <1>12. QED
    BY <1>2, <1>5, <1>8, <1>9, <1>10, <1>11, WithoutEffect

\* Nothing new is known of a command after a post: what the row now carries
\* was in the outbox.
LEMMA Posted ==
    ASSUME PathInvariant, NEW f \in outbox, NEW accepted \in BOOLEAN,
           StoreAnswers(f) \/ UNCHANGED vars, EA!PostAck(f, accepted)
    PROVE  PathInvariant'
  <1>1. f.cmd \in Commands /\ f.ack \in Ack
    <2>1. outbox \subseteq [cmd : Commands, ack : Ack]
      BY SameAcks DEF PathInvariant, EA!EATypeOK
    <2>2. QED
      BY <2>1
  <1>2. /\ StoreInvariant' /\ polls' = polls
        /\ \A c \in Commands : \/ row'[c].sem = row[c].sem
                               \/ c = f.cmd /\ row'[c].sem = f.ack
    BY <1>1, AnswerKeeps DEF PathInvariant
  <1>3. /\ hand' = EA!Idle /\ outbox' \subseteq outbox
        /\ UNCHANGED <<seen, kept, blocked, journal, torn, called, executed, restarts>>
    BY DEF EA!PostAck
  <1>4. hand' \in EA!Hand /\ hand'.pc = "idle"
    BY <1>3, IdleShape
  <1>5. EA!EATypeOK' /\ HandShape' /\ FreshAtBroker'
    BY <1>3, <1>4 DEF PathInvariant, EA!EATypeOK, HandShape, FreshAtBroker
  <1>6. ASSUME NEW c \in Commands, NEW a \in Ack, Known(c, a)'
        PROVE  Known(c, a)
    BY <1>2, <1>3, <1>4, <1>6 DEF Known
  <1>7. \A c \in Commands : polls'[c] >= polls[c]
    BY <1>2 DEF PathInvariant, StoreInvariant, TypeOK
  <1>8. QED
    BY <1>2, <1>3, <1>5, <1>6, <1>7, WithoutEffect

\* The journal, the outbox and the acknowledgements kept in memory hold what
\* was in hand, and a restart loses only what was in memory.
LEMMA Reported ==
    ASSUME PathInvariant, UNCHANGED vars,
           \/ \E written, matches \in BOOLEAN : EA!PersistOutcome(written, matches)
           \/ \E durable \in BOOLEAN : EA!QueueAck(durable)
           \/ \E f \in kept, durable \in BOOLEAN : EA!FlushKept(f, durable)
           \/ EA!Restart
    PROVE  PathInvariant'
  <1> DEFINE Goal ==
        /\ hand'.pc # "broker" /\ executed' = executed
        /\ EA!EATypeOK' /\ HandShape'
        /\ \A c \in Commands : \A a \in Ack : Known(c, a)' => Known(c, a)
  <1>1. StoreInvariant' /\ UNCHANGED <<row, polls>>
    <2>1. StoreInvariant'
      BY StoreInvariantStep DEF PathInvariant
    <2>2. QED
      BY <2>1 DEF vars
  <1>2. EA!EATypeOK /\ HandShape
    BY DEF PathInvariant
  <1>3. ASSUME NEW written \in BOOLEAN, NEW matches \in BOOLEAN,
               EA!PersistOutcome(written, matches)
        PROVE  Goal
    <2>1. /\ hand.pc = "journal" /\ hand \in EA!Hand
          /\ hand' = [hand EXCEPT !.pc = "queue"]
          /\ UNCHANGED <<seen, kept, outbox, torn, called, executed, restarts>>
          /\ journal' \in {journal, [journal EXCEPT ![hand.cmd] = hand.ack]}
          /\ blocked' = (blocked \/ ~matches)
      BY <1>2, <1>3 DEF EA!PersistOutcome, EA!Journalled, EA!EATypeOK
    <2>2. hand.cmd \in Commands /\ hand.ack \in Ack /\ journal \in [Commands -> EA!Outcome]
      BY <1>2, <2>1 DEF HandShape, EA!EATypeOK
    <2>3. /\ hand' \in EA!Hand /\ hand'.pc = "queue"
          /\ hand'.cmd = hand.cmd /\ hand'.ack = hand.ack
      BY <2>1 DEF EA!Hand
    <2>4. journal' \in [Commands -> EA!Outcome]
      BY <2>1, <2>2, SameAcks
    <2>5. blocked' \in BOOLEAN
      BY <2>1
    <2>6. EA!EATypeOK' /\ HandShape'
      BY <1>2, <2>1, <2>2, <2>3, <2>4, <2>5 DEF EA!EATypeOK, HandShape
    <2>7. ASSUME NEW c \in Commands, NEW a \in Ack, Known(c, a)'
          PROVE  Known(c, a)
      BY <1>1, <2>1, <2>2, <2>3, <2>7 DEF Known
    <2>8. QED
      BY <2>1, <2>3, <2>6, <2>7
  <1>4. ASSUME NEW durable \in BOOLEAN, EA!QueueAck(durable)
        PROVE  Goal
    <2>1. /\ hand.pc = "queue" /\ hand \in EA!Hand
          /\ hand' \in {EA!Idle, [hand EXCEPT !.pc = "post"]}
          /\ UNCHANGED <<seen, blocked, journal, called, executed, restarts>>
          /\ outbox' \subseteq outbox \cup {EA!InHand}
          /\ kept' \subseteq kept \cup {EA!InHand}
          /\ torn' \in Nat
      BY <1>2, <1>4 DEF EA!QueueAck, EA!EATypeOK, EA!Persisted, EA!NotPersisted, EA!TornWrite,
         EA!Retained
    <2>2. hand.cmd \in Commands /\ hand.ack \in Ack
      BY <1>2, <2>1 DEF HandShape
    <2>3. /\ hand' \in EA!Hand /\ hand'.pc \in {"idle", "post"}
          /\ hand'.pc = "post" => hand'.cmd = hand.cmd /\ hand'.ack = hand.ack
      BY <2>1, IdleShape DEF EA!Hand
    <2>4. /\ EA!InHand \in EA!File
          /\ EA!InHand.cmd = hand.cmd /\ EA!InHand.ack = hand.ack
      BY <2>2, SameAcks DEF EA!InHand
    <2>5. EA!EATypeOK' /\ HandShape'
      BY <1>2, <2>1, <2>2, <2>3, <2>4 DEF EA!EATypeOK, HandShape
    <2>6. ASSUME NEW c \in Commands, NEW a \in Ack, Known(c, a)'
          PROVE  Known(c, a)
      BY <1>1, <2>1, <2>3, <2>4, <2>6 DEF Known
    <2>7. QED
      BY <2>1, <2>3, <2>5, <2>6
  <1>5. ASSUME NEW f \in kept, NEW durable \in BOOLEAN, EA!FlushKept(f, durable)
        PROVE  Goal
    <2>1. /\ hand' = hand /\ hand = EA!Idle
          /\ UNCHANGED <<seen, blocked, journal, called, executed, restarts>>
          /\ outbox' \cup kept' = outbox \cup kept
          /\ kept' \subseteq kept /\ outbox' \subseteq EA!File /\ torn' \in Nat
      BY <1>2, <1>5 DEF EA!FlushKept, EA!EATypeOK, EA!Persisted, EA!TornWrite
    <2>2. EA!EATypeOK' /\ HandShape' /\ hand'.pc # "broker"
      BY <1>2, <2>1, IdleShape DEF EA!EATypeOK, HandShape
    <2>3. ASSUME NEW c \in Commands, NEW a \in Ack, Known(c, a)'
          PROVE  Known(c, a)
      BY <1>1, <2>1, <2>3 DEF Known
    <2>4. QED
      BY <2>1, <2>2, <2>3
  <1>6. ASSUME EA!Restart
        PROVE  Goal
    <2>1. /\ hand' = EA!Idle /\ seen' = {} /\ kept' = {} /\ blocked' = FALSE
          /\ restarts < MaxRestarts /\ restarts' = restarts + 1
          /\ UNCHANGED <<journal, outbox, torn, called, executed>>
      BY <1>6 DEF EA!Restart
    <2>2. restarts' \in 0 .. MaxRestarts
      BY <1>2, <2>1, PathAssumption DEF EA!EATypeOK
    <2>3. EA!EATypeOK' /\ HandShape' /\ hand'.pc = "idle"
      BY <1>2, <2>1, <2>2, IdleShape DEF EA!EATypeOK, HandShape
    <2>4. ASSUME NEW c \in Commands, NEW a \in Ack, Known(c, a)'
          PROVE  Known(c, a)
      BY <1>1, <2>1, <2>3, <2>4 DEF Known
    <2>5. QED
      BY <2>1, <2>3, <2>4
  <1>7. Goal
    BY <1>3, <1>4, <1>5, <1>6
  <1>8. FreshAtBroker'
    BY <1>7 DEF FreshAtBroker
  <1>9. \A c \in Commands : polls'[c] >= polls[c]
    BY <1>1 DEF PathInvariant, StoreInvariant, TypeOK
  <1>10. QED
    BY <1>1, <1>7, <1>8, <1>9, WithoutEffect

\* A call of the broker for the command in hand: the EA tries again, after a
\* call without effect, or it has an outcome and at most one effect more, and
\* outside a bulk close the report says which.
LEMMA BrokerCalled ==
    ASSUME EA!EATypeOK, HandShape, EA!CallBroker
    PROVE  /\ hand.pc = "broker" /\ hand.cmd \in Commands
           /\ UNCHANGED <<seen, kept, blocked, journal, outbox, torn, restarts>>
           /\ hand' \in EA!Hand /\ hand'.cmd = hand.cmd
           /\ called' \in [Commands -> Nat] /\ executed' \in [Commands -> Nat]
           /\ \A c \in Commands : c # hand.cmd => executed'[c] = executed[c]
           /\ \/ hand'.pc = "broker" /\ executed' = executed
              \/ /\ hand'.pc = "journal" /\ hand'.ack \in Ack
                 /\ executed'[hand.cmd] \in {executed[hand.cmd], executed[hand.cmd] + 1}
                 /\ \/ hand.cmd \in Bulk
                    \/ /\ hand'.ack.mutation = "confirmed" =>
                            executed'[hand.cmd] = executed[hand.cmd] + 1
                       /\ hand'.ack.mutation = "not_attempted" =>
                            executed'[hand.cmd] = executed[hand.cmd]
  <1> DEFINE c0 == hand.cmd
  <1> DEFINE Counted ==
        /\ called' \in [Commands -> Nat] /\ executed' \in [Commands -> Nat]
        /\ \A c \in Commands : c # c0 => executed'[c] = executed[c]
        /\ executed'[c0] \in {executed[c0], executed[c0] + 1}
  <1> DEFINE Concluded(ack) ==
        /\ hand' \in EA!Hand /\ hand'.cmd = c0
        /\ hand'.pc = "journal" /\ hand'.ack = ack
  <1> DEFINE Retried ==
        /\ hand' \in EA!Hand /\ hand'.cmd = c0
        /\ hand'.pc = "broker" /\ executed' = executed
  <1> DEFINE Faithful(ack) ==
        \/ c0 \in Bulk
        \/ /\ ack.mutation = "confirmed" => executed'[c0] = executed[c0] + 1
           /\ ack.mutation = "not_attempted" => executed'[c0] = executed[c0]
  <1> DEFINE Goal == Counted /\ (Retried \/ \E ack \in Ack : Concluded(ack) /\ Faithful(ack))
  <1>1. EA!InBroker /\ EA!Untouched
    BY DEF EA!CallBroker, EA!PreSendRefused, EA!DeadlinePassed, EA!SendRetryable,
           EA!CallUnknown, EA!CallSucceeds, EA!CallBulk
  <1>2. /\ hand.pc = "broker" /\ hand \in EA!Hand
        /\ c0 \in Commands /\ executed[c0] \in Nat /\ called[c0] \in Nat
    BY <1>1 DEF EA!InBroker, HandShape, EA!EATypeOK
  <1>3. UNCHANGED <<called, executed>> => Counted /\ executed'[c0] = executed[c0]
    BY <1>2 DEF EA!EATypeOK
  <1>4. ASSUME NEW effect \in BOOLEAN, EA!Call(effect)
        PROVE  /\ Counted
               /\ effect = FALSE => executed' = executed
               /\ effect = TRUE => executed'[c0] = executed[c0] + 1
    <2>1. (IF effect THEN 1 ELSE 0) \in {0, 1}
      OBVIOUS
    <2>2. /\ called' = [called EXCEPT ![c0] = called[c0] + 1]
          /\ executed' = [executed EXCEPT ![c0] = executed[c0] + IF effect THEN 1 ELSE 0]
      BY <1>4 DEF EA!Call
    <2>3. Counted
      BY <1>2, <2>1, <2>2 DEF EA!EATypeOK
    <2>4. ASSUME effect = FALSE PROVE executed' = executed
      <3>1. executed[c0] + (IF effect THEN 1 ELSE 0) = executed[c0]
        BY <1>2, <2>4
      <3>2. QED
        BY <2>2, <3>1 DEF EA!EATypeOK
    <2>5. ASSUME effect = TRUE PROVE executed'[c0] = executed[c0] + 1
      BY <1>2, <2>2, <2>5 DEF EA!EATypeOK
    <2>6. QED
      BY <2>3, <2>4, <2>5
  <1>5. ASSUME NEW ack \in Ack, EA!Conclude(ack)
        PROVE  Concluded(ack)
    BY <1>2, <1>5, AckingShape DEF EA!Conclude
  <1>6. ASSUME ~EA!LastTry, executed' = executed,
               \/ hand' = [hand EXCEPT !.tries = @ + 1]
               \/ hand' = [hand EXCEPT !.tries = @ + 1, !.attempted = TRUE]
        PROVE  Retried
    <2>1. hand.tries \in 0 .. SendAttempts - 1
      BY <1>2 DEF EA!Hand
    <2>2. hand.tries + 1 \in 0 .. SendAttempts - 1
      BY <1>6, <2>1, PathAssumption DEF EA!LastTry
    <2>3. hand' \in EA!Hand
      BY <1>2, <1>6, <2>2 DEF EA!Hand
    <2>4. QED
      BY <1>2, <1>6, <2>3 DEF EA!Hand
  <1>7. \A b \in BOOLEAN : EA!Unsent(b) \in {EA!Attempted(0), EA!Refusal}
    BY DEF EA!Unsent
  <1>8. /\ EA!Unsent(TRUE) = EA!Attempted(0)
        /\ EA!Unsent(FALSE) = EA!Refusal
    BY DEF EA!Unsent
  <1>9. ASSUME EA!Conclude(EA!Refusal) \/ EA!Conclude(EA!Attempted(0)), executed' = executed
        PROVE  \E ack \in Ack : Concluded(ack) /\ Faithful(ack)
    <2>1. EA!Refusal \in Ack /\ EA!Attempted(0) \in Ack
          /\ EA!Refusal.mutation = "not_attempted" /\ EA!Attempted(0).mutation = "attempted"
      BY EAReports DEF EA!Refusal, EA!Report
    <2>2. QED
      BY <1>5, <1>9, <2>1
  <1>10. ASSUME NEW t \in Tickets \cup {0}, EA!Conclude(EA!Attempted(t))
         PROVE  \E ack \in Ack : Concluded(ack) /\ Faithful(ack)
    <2>1. EA!Attempted(t) \in Ack /\ EA!Attempted(t).mutation = "attempted"
      BY EAReports
    <2>2. QED
      BY <1>5, <1>10, <2>1
  <1>11. ASSUME NEW transient \in BOOLEAN, EA!PreSendRefused(transient)
         PROVE  Goal
    <2>1. hand.attempted \in BOOLEAN
      BY <1>2 DEF EA!Hand
    <2>2. /\ UNCHANGED <<called, executed>>
          /\ \/ ~EA!LastTry /\ hand' = [hand EXCEPT !.tries = @ + 1]
             \/ EA!Conclude(EA!Unsent(hand.attempted))
      BY <1>11 DEF EA!PreSendRefused
    <2>3. CASE ~EA!LastTry /\ hand' = [hand EXCEPT !.tries = @ + 1]
      BY <1>3, <1>6, <2>2, <2>3
    <2>4. CASE EA!Conclude(EA!Unsent(hand.attempted))
      <3>1. EA!Conclude(EA!Refusal) \/ EA!Conclude(EA!Attempted(0))
        BY <1>7, <2>1, <2>4
      <3>2. QED
        BY <1>3, <1>9, <2>2, <3>1
    <2>5. QED
      BY <2>2, <2>3, <2>4
  <1>12. ASSUME EA!DeadlinePassed PROVE Goal
    <2>1. UNCHANGED <<called, executed>> /\ EA!Conclude(EA!Refusal)
      BY <1>8, <1>12 DEF EA!DeadlinePassed
    <2>2. QED
      BY <1>3, <1>9, <2>1
  <1>13. ASSUME EA!SendRetryable PROVE Goal
    <2>1. Counted /\ executed' = executed
      BY <1>4, <1>13 DEF EA!SendRetryable
    <2>2. \/ EA!Conclude(EA!Attempted(0))
          \/ ~EA!LastTry /\ hand' = [hand EXCEPT !.tries = @ + 1, !.attempted = TRUE]
      BY <1>8, <1>13 DEF EA!SendRetryable
    <2>3. CASE EA!Conclude(EA!Attempted(0))
      BY <1>9, <2>1, <2>3
    <2>4. CASE ~EA!LastTry /\ hand' = [hand EXCEPT !.tries = @ + 1, !.attempted = TRUE]
      BY <1>6, <2>1, <2>4
    <2>5. QED
      BY <2>2, <2>3, <2>4
  <1>14. ASSUME NEW effect \in BOOLEAN, EA!CallUnknown(effect)
         PROVE  Goal
    <2>1. Counted
      BY <1>4, <1>14 DEF EA!CallUnknown
    <2>2. \E t \in Tickets \cup {0} : EA!Conclude(EA!Attempted(t))
      BY <1>8, <1>14 DEF EA!CallUnknown
    <2>3. QED
      BY <1>10, <2>1, <2>2
  <1>15. ASSUME EA!CallSucceeds PROVE Goal
    <2>1. Counted /\ executed'[c0] = executed[c0] + 1
      BY <1>4, <1>15 DEF EA!CallSucceeds
    <2>2. PICK t \in Tickets : EA!Conclude(EA!Attested(t)) \/ EA!Conclude(EA!Attempted(t))
      BY <1>15 DEF EA!CallSucceeds
    <2>3. CASE EA!Conclude(EA!Attested(t))
      <3>1. EA!Attested(t) \in Ack /\ EA!Attested(t).mutation = "confirmed"
        BY EAReports
      <3>2. QED
        BY <1>5, <2>1, <2>3, <3>1
    <2>4. CASE EA!Conclude(EA!Attempted(t))
      BY <1>10, <2>1, <2>4
    <2>5. QED
      BY <2>2, <2>3, <2>4
  <1>16. ASSUME NEW effect \in BOOLEAN, NEW ok \in BOOLEAN, EA!CallBulk(effect, ok)
         PROVE  Goal
    <2>1. Counted
      BY <1>3, <1>4, <1>16 DEF EA!CallBulk
    <2>2. EA!Conclude(EA!BulkReport(ok)) /\ c0 \in Bulk
      BY <1>16 DEF EA!CallBulk
    <2>3. EA!BulkReport(ok) \in Ack
      BY EAReports DEF EA!BulkReport, EA!Report, Ack, AckStatus, ResolvedStatus
    <2>4. QED
      BY <1>5, <2>1, <2>2, <2>3
  <1>17. Goal
    BY <1>11, <1>12, <1>13, <1>14, <1>15, <1>16 DEF EA!CallBroker
  <1>18. QED
    BY <1>1, <1>2, <1>17 DEF EA!Untouched

\* The broker is called for a command nothing is known of, so its first report
\* is the only one, and true.
LEMMA Called ==
    ASSUME PathInvariant, UNCHANGED vars, EA!CallBroker
    PROVE  PathInvariant'
  <1> DEFINE c0 == hand.cmd
  <1>1. EA!EATypeOK /\ HandShape /\ FreshAtBroker /\ ReportsTrue
    BY DEF PathInvariant
  <1>2. StoreInvariant' /\ UNCHANGED <<row, polls>>
    <2>1. StoreInvariant'
      BY StoreInvariantStep DEF PathInvariant
    <2>2. QED
      BY <2>1 DEF vars
  <1>3. /\ hand.pc = "broker" /\ c0 \in Commands
        /\ UNCHANGED <<seen, kept, blocked, journal, outbox, torn, restarts>>
        /\ hand' \in EA!Hand /\ hand'.cmd = c0
        /\ called' \in [Commands -> Nat] /\ executed' \in [Commands -> Nat]
        /\ \A c \in Commands : c # c0 => executed'[c] = executed[c]
    BY <1>1, BrokerCalled
  <1>4. \/ hand'.pc = "broker" /\ executed' = executed
        \/ /\ hand'.pc = "journal" /\ hand'.ack \in Ack
           /\ executed'[c0] \in {executed[c0], executed[c0] + 1}
           /\ \/ c0 \in Bulk
              \/ /\ hand'.ack.mutation = "confirmed" => executed'[c0] = executed[c0] + 1
                 /\ hand'.ack.mutation = "not_attempted" => executed'[c0] = executed[c0]
    BY <1>1, BrokerCalled
  <1>5. /\ executed[c0] = 0 /\ polls[c0] > 0 /\ polls[c0] \in Nat
        /\ \A a \in Ack : ~Known(c0, a)
    BY <1>1, <1>3 DEF FreshAtBroker, PathInvariant, StoreInvariant, TypeOK
  <1>6. EA!EATypeOK' /\ HandShape'
    BY <1>1, <1>3, <1>4 DEF EA!EATypeOK, HandShape
  <1>7. CASE hand'.pc = "broker" /\ executed' = executed
    <2>1. ASSUME NEW c \in Commands, NEW a \in Ack, Known(c, a)'
          PROVE  Known(c, a)
      BY <1>2, <1>3, <1>7, <2>1 DEF Known
    <2>2. ASSUME NEW a \in Ack PROVE ~Known(hand.cmd, a)'
      <3>1. Known(hand.cmd, a)' => Known(c0, a)
        BY <1>2, <1>3, <1>7 DEF Known
      <3>2. QED
        BY <1>5, <3>1
    <2>3. FreshAtBroker'
      BY <1>2, <1>3, <1>5, <1>7, <2>2 DEF FreshAtBroker
    <2>4. \A c \in Commands : polls'[c] >= polls[c]
      BY <1>2 DEF PathInvariant, StoreInvariant, TypeOK
    <2>5. QED
      BY <1>2, <1>6, <1>7, <2>1, <2>3, <2>4, WithoutEffect
  <1>8. CASE /\ hand'.pc = "journal" /\ hand'.ack \in Ack
             /\ executed'[c0] \in {executed[c0], executed[c0] + 1}
             /\ \/ c0 \in Bulk
                \/ /\ hand'.ack.mutation = "confirmed" => executed'[c0] = executed[c0] + 1
                   /\ hand'.ack.mutation = "not_attempted" => executed'[c0] = executed[c0]
    <2>1. \A c \in Commands : executed'[c] <= polls'[c]
      <3>1. ASSUME NEW c \in Commands PROVE executed'[c] <= polls'[c]
        <4>1. CASE c = c0
          BY <1>2, <1>5, <1>8, <4>1
        <4>2. CASE c # c0
          BY <1>1, <1>2, <1>3, <4>2 DEF ReportsTrue
        <4>3. QED
          BY <4>1, <4>2
      <3>2. QED
        BY <3>1
    <2>2. ASSUME NEW c \in Commands, NEW a \in Ack, Known(c, a)'
          PROVE  polls'[c] > 0 /\ (c \in Bulk \/ TrueReport(c, a)')
      <3>1. CASE c = c0
        <4>1. a = hand'.ack
          BY <1>2, <1>3, <1>5, <1>8, <2>2, <3>1 DEF Known
        <4>2. ASSUME EffectiveStatus(Verb[c], a) = "acked", c0 \notin Bulk
              PROVE  executed'[c] = 1
          <5>1. a.mutation = "confirmed"
            BY <4>2, SuccessIsReported
          <5>2. QED
            BY <1>5, <1>8, <3>1, <4>1, <4>2, <5>1
        <4>3. ASSUME a.mutation = "not_attempted", c0 \notin Bulk
              PROVE  executed'[c] = 0
          BY <1>5, <1>8, <3>1, <4>1, <4>3
        <4>4. QED
          BY <1>2, <1>5, <3>1, <4>2, <4>3 DEF TrueReport
      <3>2. CASE c # c0
        <4>1. Known(c, a)
          BY <1>2, <1>3, <2>2, <3>2 DEF Known
        <4>2. polls[c] > 0 /\ (c \in Bulk \/ TrueReport(c, a))
          BY <1>1, <4>1 DEF ReportsTrue
        <4>3. executed'[c] = executed[c]
          BY <1>3, <3>2
        <4>4. QED
          BY <1>2, <4>2, <4>3 DEF TrueReport
      <3>3. QED
        BY <3>1, <3>2
    <2>3. ReportsTrue'
      BY <2>1, <2>2 DEF ReportsTrue
    <2>4. FreshAtBroker'
      BY <1>8 DEF FreshAtBroker
    <2>5. QED
      BY <1>2, <1>6, <2>3, <2>4 DEF PathInvariant
  <1>9. QED
    BY <1>4, <1>7, <1>8

\* A command dropped from memory keeps the invariant of the path.
LEMMA Forgotten ==
    ASSUME PathInvariant, UNCHANGED vars, NEW c \in Commands, EA!Forget(c)
    PROVE  PathInvariant'
  <1>1. StoreInvariant' /\ UNCHANGED <<row, polls>>
    <2>1. StoreInvariant'
      BY StoreInvariantStep DEF PathInvariant
    <2>2. QED
      BY <2>1 DEF vars
  <1>2. /\ UNCHANGED <<hand, kept, blocked, journal, outbox, torn, called, executed, restarts>>
        /\ seen' \subseteq seen
    BY DEF EA!Forget
  <1>3. EA!EATypeOK'
    BY <1>2 DEF PathInvariant, EA!EATypeOK
  <1>4. HandShape' /\ ReportsTrue' /\ FreshAtBroker'
    BY <1>1, <1>2 DEF PathInvariant, HandShape, ReportsTrue, FreshAtBroker, Known, TrueReport
  <1>5. QED
    BY <1>1, <1>3, <1>4 DEF PathInvariant

\* Every step of store, EA and network keeps the invariant.
LEMMA PathInvariantStep == PathInvariant /\ [PathNext]_pathVars => PathInvariant'
  <1> SUFFICES ASSUME PathInvariant, [PathNext]_pathVars PROVE PathInvariant'
    OBVIOUS
  <1>0. StoreInvariant /\ \A c \in Commands : polls[c] \in Nat
    BY DEF PathInvariant, StoreInvariant, TypeOK
  <1>1. CASE Background /\ UNCHANGED eaVars
    BY <1>0, <1>1, BackgroundKeeps, StoreSide
  <1>2. CASE Request
    <2>1. {} \in SUBSET Candidates /\ PollBegin /\ UNCHANGED eaVars
      BY <1>2 DEF Request
    <2>2. StoreInvariant' /\ polls' = polls /\ SemKept
      BY <1>0, <2>1, PollKeeps
    <2>3. QED
      BY <1>0, <2>1, <2>2, StoreSide
  <1>3. ASSUME NEW vetoed \in SUBSET Candidates, DeliverNothing(vetoed)
        PROVE  PathInvariant'
    <2>1. (PollClosed \/ PollNothing(vetoed)) /\ UNCHANGED eaVars
      BY <1>3 DEF DeliverNothing
    <2>2. StoreInvariant' /\ polls' = polls /\ SemKept
      BY <1>0, <2>1, PollKeeps
    <2>3. QED
      BY <1>0, <2>1, <2>2, StoreSide
  <1>4. ASSUME NEW vetoed \in SUBSET Candidates, NEW c \in Candidates, LoseCommand(c, vetoed)
        PROVE  PathInvariant'
    <2>1. PollDeliver(c, vetoed) /\ UNCHANGED eaVars
      BY <1>4 DEF LoseCommand
    <2>2. /\ StoreInvariant' /\ SemKept
          /\ \A d \in Commands : polls'[d] >= polls[d]
      BY <1>0, <2>1, DeliverKeeps
    <2>3. QED
      BY <2>1, <2>2, StoreSide
  <1>5. CASE PollResponse
    BY <1>3, <1>4, <1>5, HandedOver DEF PollResponse
  <1>6. ASSUME NEW f \in outbox, PostAnswered(f) \/ PostUnanswered(f)
        PROVE  PathInvariant'
    <2>1. \E accepted \in BOOLEAN : EA!PostAck(f, accepted)
      BY <1>6 DEF PostAnswered, PostUnanswered
    <2>2. StoreAnswers(f) \/ UNCHANGED vars
      BY <1>6 DEF PostAnswered, PostUnanswered
    <2>3. QED
      BY <2>1, <2>2, Posted
  <1>7. CASE EALocal
    <2>1. UNCHANGED vars /\ (EA!EAStep \/ EA!Restart \/ \E c \in Commands : EA!Forget(c))
      BY <1>7 DEF EALocal
    <2>2. CASE EA!CallBroker
      BY <2>1, <2>2, Called
    <2>3. CASE \E c \in Commands : EA!Forget(c)
      BY <2>1, <2>3, Forgotten
    <2>4. CASE \/ \E written, matches \in BOOLEAN : EA!PersistOutcome(written, matches)
               \/ \E durable \in BOOLEAN : EA!QueueAck(durable)
               \/ \E f \in kept, durable \in BOOLEAN : EA!FlushKept(f, durable)
               \/ EA!Restart
      BY <2>1, <2>4, Reported
    <2>5. QED
      BY <2>1, <2>2, <2>3, <2>4 DEF EA!EAStep
  <1>8. CASE UNCHANGED pathVars
    <2>1. UNCHANGED vars /\ UNCHANGED eaVars
      BY <1>8 DEF pathVars
    <2>2. StoreInvariant'
      BY <1>0, <2>1, StoreInvariantStep
    <2>3. SemKept /\ polls' = polls
      BY <2>1 DEF SemKept, vars
    <2>4. QED
      BY <1>0, <2>1, <2>2, <2>3, StoreSide
  <1>9. QED
    BY <1>1, <1>2, <1>5, <1>6, <1>7, <1>8 DEF PathNext
-----------------------------------------------------------------------------
\* It holds with an empty queue and an idle EA.
LEMMA PathInvariantInit == PathInit => PathInvariant
  <1> SUFFICES ASSUME PathInit PROVE PathInvariant
    OBVIOUS
  <1>1. Init /\ EA!EAInit
    BY DEF PathInit
  <1>2. StoreInvariant
    BY <1>1, StoreInvariantInit
  <1>3. EA!EATypeOK
    <2>1. 0 \in 0 .. MaxRestarts /\ EA!NoOutcome \in EA!Outcome
      BY PathAssumption, SameAcks
    <2>2. QED
      BY <1>1, <2>1, IdleShape DEF EA!EAInit, EA!EATypeOK
  <1>4. HandShape /\ FreshAtBroker
    BY <1>1, IdleShape DEF EA!EAInit, HandShape, FreshAtBroker
  <1>5. \A c \in Commands : row[c].sem = NoAck
    <2>1. EmptyRow.sem = NoAck /\ LegacyRow.sem = NoAck
      BY DEF EmptyRow, LegacyRow
    <2>2. QED
      BY <1>1, <2>1 DEF Init
  <1>6. \A c \in Commands : \A a \in Ack : ~Known(c, a)
    BY <1>1, <1>5, IdleShape, NothingIsNoAck DEF EA!EAInit, Known
  <1>7. ReportsTrue
    <2>1. \A c \in Commands : executed[c] = 0 /\ polls[c] \in Nat
      BY <1>1, <1>2 DEF EA!EAInit, StoreInvariant, TypeOK
    <2>2. QED
      BY <1>6, <2>1 DEF ReportsTrue
  <1>8. QED
    BY <1>2, <1>3, <1>4, <1>7 DEF PathInvariant

\* Every state of the path has a consistent store and EA, and every report of
\* a command, wherever it is, says what happened (PathInvariant).
THEOREM PathInvariantHolds == PathSpec => []PathInvariant
  <1>1. PathInvariant /\ [PathNext]_pathVars => PathInvariant'
    BY PathInvariantStep
  <1>2. QED
    BY <1>1, PathInvariantInit, PTL DEF PathSpec

\* No command, a bulk close included, takes effect at the broker twice: the
\* store hands it out at most once, and the EA asks the broker again only
\* after a call without effect.
THEOREM ExecutedOnce == PathSpec => []ExecutedAtMostOnce
  <1>1. ASSUME PathInvariant PROVE ExecutedAtMostOnce
    <2>1. ASSUME NEW c \in Commands PROVE executed[c] <= 1
      <3>1. polls[c] <= 1 /\ executed[c] <= polls[c]
        BY <1>1 DEF PathInvariant, StoreInvariant, RowHistory, ReportsTrue
      <3>2. polls[c] \in Nat /\ executed[c] \in Nat
        BY <1>1 DEF PathInvariant, StoreInvariant, TypeOK, EA!EATypeOK
      <3>3. QED
        BY <3>1, <3>2
    <2>2. QED
      BY <2>1 DEF ExecutedAtMostOnce
  <1>2. QED
    BY <1>1, PathInvariantHolds, PTL

\* The verdicts of VerdictsAreTrue for one command.
VerdictTrue(c) ==
    row[c].status \in ResolvedStatus /\ row[c].safe =>
        executed[c] = IF row[c].status = "acked" THEN 1 ELSE 0

\* The invariant makes a verdict on a single order true.
LEMMA StrictVerdict ==
    ASSUME PathInvariant, NEW c \in Commands \ Bulk
    PROVE  VerdictTrue(c)
  <1> SUFFICES ASSUME row[c].status \in ResolvedStatus, row[c].safe
               PROVE  executed[c] = IF row[c].status = "acked" THEN 1 ELSE 0
    BY DEF VerdictTrue
  <1>1. row[c].sem \in Ack /\ EffectiveStatus(Verb[c], row[c].sem) = row[c].status
    BY DEF PathInvariant, StoreInvariant, VerdictEvidenced
  <1>2. TrueReport(c, row[c].sem)
    BY <1>1 DEF PathInvariant, ReportsTrue, Known
  <1>3. CASE row[c].status = "acked"
    BY <1>1, <1>2, <1>3 DEF TrueReport
  <1>4. CASE row[c].status # "acked"
    <2>1. row[c].sem.mutation = "not_attempted"
      BY <1>1, <1>4 DEF EffectiveStatus, SuccessAttested, RefusalConclusive, ResolvedStatus
    <2>2. QED
      BY <1>2, <1>4, <2>1 DEF TrueReport
  <1>5. QED
    BY <1>3, <1>4

\* Whatever the store concludes about a command under the strict contract is
\* what happened at the broker, also beside bulk closes (whose refusals the
\* EA reports although part of the book may be closed).
THEOREM StrictVerdictsTrue == PathSpec => [](\A c \in Commands \ Bulk : VerdictTrue(c))
  <1>1. PathInvariant => \A c \in Commands \ Bulk : VerdictTrue(c)
    BY StrictVerdict
  <1>2. QED
    BY <1>1, PathInvariantHolds, PTL

\* Without bulk closes that is every verdict of the store.
THEOREM VerdictsTrue ==
    ASSUME Bulk = {}
    PROVE  PathSpec => []VerdictsAreTrue
  <1>1. PathInvariant => VerdictsAreTrue
    BY StrictVerdict DEF VerdictsAreTrue, VerdictTrue
  <1>2. QED
    BY <1>1, PathInvariantHolds, PTL

\* An entry that took effect at the broker keeps its cell of the daily budget
\* whatever becomes of its row: it was delivered, so expiry does not release
\* it, and no report of it says that nothing was attempted.
THEOREM ExposureHolds == PathSpec => []ExposureKeepsItsCell
  <1>1. ASSUME PathInvariant PROVE ExposureKeepsItsCell
    <2> SUFFICES ASSUME NEW c \in Commands, Entry(c), executed[c] > 0
                 PROVE  ~Released(row[c])
      BY DEF ExposureKeepsItsCell, BudgetConsumed
    <2>1. polls[c] \in Nat /\ executed[c] \in Nat /\ executed[c] <= polls[c]
      BY <1>1 DEF PathInvariant, StoreInvariant, TypeOK, EA!EATypeOK, ReportsTrue
    <2>2. row[c].delivered
      BY <1>1, <2>1 DEF PathInvariant, StoreInvariant, RowHistory
    <2>3. c \notin Bulk
      BY PathAssumption DEF Entry
    <2>4. ASSUME row[c].sem \in Ack PROVE row[c].sem.mutation # "not_attempted"
      <3>1. TrueReport(c, row[c].sem)
        BY <1>1, <2>3, <2>4 DEF PathInvariant, ReportsTrue, Known
      <3>2. QED
        BY <2>1, <3>1 DEF TrueReport
    <2>5. QED
      BY <2>2, <2>4 DEF Released
  <1>2. QED
    BY <1>1, PathInvariantHolds, PTL
-----------------------------------------------------------------------------
(* What was proved of the two components alone holds on the path           *)

\* On the path the EA does what BridgeEA says of it, so everything proved of
\* the EA against an arbitrary bridge (BridgeEAProofs) holds with the store in
\* the bridge's place.
THEOREM PathRefinesEA == PathSpec => EA!EASpec
  <1>1. PathInit => EA!EAInit
    BY DEF PathInit
  <1>2. [PathNext]_pathVars => [EA!EANext]_(EA!eaVars)
    <2> SUFFICES ASSUME PathNext, eaVars' # eaVars PROVE EA!EANext
      BY DEF pathVars, eaVars, EA!eaVars
    <2>1. ASSUME NEW vetoed \in SUBSET Candidates, NEW c \in Candidates, Deliver(c, vetoed)
          PROVE  EA!EANext
      <3>1. c \in Commands /\ EA!HandleCmd(c)
        BY <2>1 DEF Deliver, Candidates, WithStatus
      <3>2. QED
        BY <3>1 DEF EA!EANext
    <2>2. CASE PollResponse
      BY <2>1, <2>2 DEF PollResponse, DeliverNothing, LoseCommand
    <2>3. ASSUME NEW f \in outbox, PostAnswered(f) \/ PostUnanswered(f)
          PROVE  EA!EANext
      <3>1. \E accepted \in BOOLEAN : EA!PostAck(f, accepted)
        BY <2>3 DEF PostAnswered, PostUnanswered
      <3>2. QED
        BY <3>1 DEF EA!EANext
    <2>4. CASE EALocal
      BY <2>4 DEF EALocal, EA!EANext
    <2>5. QED
      BY <2>2, <2>3, <2>4 DEF PathNext, Request
  <1>3. QED
    BY <1>1, <1>2, PTL DEF PathSpec, EA!EASpec

\* The EA only sends acknowledgements, so the store does what CommandStore
\* says of it under arbitrary ones, and everything proved of the queue alone
\* (CommandStoreProofs) holds on the path.
THEOREM PathRefinesStore ==
    ASSUME \A c \in Commands : Acks[c] = Ack
    PROVE  PathSpec => Spec
  <1>1. PathInit => Init
    BY DEF PathInit
  <1>2. PathInvariant /\ [PathNext]_pathVars => [Next]_vars
    <2> SUFFICES ASSUME PathInvariant, PathNext, vars' # vars PROVE Next
      BY DEF pathVars
    <2>1. CASE Background \/ Request
      BY <2>1 DEF Request, Next, Poll
    <2>2. CASE PollResponse
      BY <2>2 DEF PollResponse, DeliverNothing, Deliver, LoseCommand, Next, Poll
    <2>3. ASSUME NEW f \in outbox, PostAnswered(f) \/ PostUnanswered(f)
          PROVE  Next
      <3>1. outbox \subseteq [cmd : Commands, ack : Ack]
        BY SameAcks DEF PathInvariant, EA!EATypeOK
      <3>2. f.cmd \in Commands /\ f.ack \in Acks[f.cmd]
        BY <3>1
      <3>3. AckCommand(f.cmd, f.ack)
        BY <2>3 DEF PostAnswered, PostUnanswered, StoreAnswers
      <3>4. QED
        BY <3>2, <3>3 DEF Next
    <2>4. QED
      BY <2>1, <2>2, <2>3 DEF PathNext, EALocal
  <1>3. QED
    BY <1>1, <1>2, PathInvariantHolds, PTL DEF PathSpec, Spec
=============================================================================
