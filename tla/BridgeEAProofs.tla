--------------------------- MODULE BridgeEAProofs ---------------------------
(***************************************************************************)
(* The expert advisor for every set of commands, any number of send        *)
(* attempts and any number of restarts, with a bridge that may hand any    *)
(* command out at any time.                                                *)
(***************************************************************************)
EXTENDS BridgeEA, FiniteSetTheorems, TLAPS

\* A command in hand is a command, and past the broker it has an outcome.
HandShape ==
    /\ hand.pc # "idle" => hand.cmd \in Commands
    /\ hand.pc \in {"journal", "queue", "post"} => hand.ack \in Ack

\* A command at the broker has no outcome yet and polling is not fenced; once
\* its outcome went through the journal it is there, or polling is fenced.
JournalOfHand ==
    /\ hand.pc = "broker" => journal[hand.cmd] = NoOutcome /\ ~blocked
    /\ hand.pc \in {"queue", "post"} => blocked \/ journal[hand.cmd] # NoOutcome

\* A command that could still be executed in this session was not executed in
\* it: one without an outcome, while polling is not fenced, which is not in
\* hand or still at the broker.
UntriedThisSession ==
    \A c \in Commands :
        /\ journal[c] = NoOutcome
        /\ ~blocked
        /\ hand.cmd = c => hand.pc \in {"idle", "broker"}
        => executed[c] <= restarts

\* What the session remembers is in the journal, in hand, or behind the fence.
SeenAccounted ==
    \A c \in seen :
        \/ journal[c] # NoOutcome
        \/ blocked
        \/ hand.cmd = c /\ hand.pc \in {"broker", "journal"}

Owed == outbox \cup kept

\* What the EA owes while a command is in hand, and when it is done with it.
OwedByHand ==
    /\ hand.pc = "broker" => Owed = {}
    /\ hand.pc \in {"journal", "queue"} => \E f : Owed \subseteq {f}
    /\ \E f, g : Owed \subseteq {f, g}

EAInvariant ==
    /\ EATypeOK
    /\ HandShape
    /\ JournalOfHand
    /\ UntriedThisSession
    /\ OncePerSession
    /\ SeenAccounted
    /\ OwedByHand
-----------------------------------------------------------------------------
\* An acknowledgement is never the empty outcome.
LEMMA AckIsOutcome == \A a \in Ack : a # NoOutcome
  BY DEF Ack, AckStatus, ResolvedStatus, NoOutcome

\* What the EA reports is an acknowledgement the classifier understands.
LEMMA ReportsAreAcks ==
    /\ Refusal \in Ack
    /\ Ambiguous \in Ack
    /\ \A t \in Tickets : Attested(t) \in Ack /\ Attempted(t) \in Ack
    /\ \A b \in BOOLEAN : Unsent(b) \in Ack /\ BulkReport(b) \in Ack
  BY DEF Refusal, Ambiguous, Attested, Attempted, Unsent, BulkReport, Report, Ack,
         AckStatus, ResolvedStatus

\* The EA with no command in hand.
LEMMA IdleShape ==
    /\ Idle \in Hand
    /\ Idle.pc = "idle"
    /\ Idle.cmd = NoCommand
  BY EAAssumption DEF Idle, Hand, Outcome

\* A command whose outcome is about to be journalled.
LEMMA AckingShape ==
    ASSUME NEW c \in Commands, NEW ack \in Ack
    PROVE  /\ Acking(c, ack) \in Hand
           /\ Acking(c, ack).pc = "journal"
           /\ Acking(c, ack).cmd = c
           /\ Acking(c, ack).ack = ack
  <1>1. Idle \in Hand /\ ack \in Outcome
    BY IdleShape DEF Outcome
  <1>2. Acking(c, ack) \in Hand
    BY <1>1 DEF Acking, Hand
  <1>3. QED
    BY <1>1, <1>2 DEF Acking, Hand

\* A call of the broker for the command in hand: the EA tries again, after a
\* call without effect, or it has an outcome and at most one effect more.
LEMMA CallBrokerShape ==
    ASSUME EATypeOK, HandShape, CallBroker
    PROVE  /\ hand.pc = "broker"
           /\ Untouched
           /\ hand' \in Hand
           /\ hand'.cmd = hand.cmd
           /\ called' \in [Commands -> Nat] /\ executed' \in [Commands -> Nat]
           /\ \A c \in Commands : c # hand.cmd =>
                 called'[c] = called[c] /\ executed'[c] = executed[c]
           /\ \/ hand'.pc = "broker" /\ executed' = executed
              \/ /\ hand'.pc = "journal" /\ hand'.ack \in Ack
                 /\ executed'[hand.cmd] <= executed[hand.cmd] + 1
  <1> DEFINE c0 == hand.cmd
  <1> DEFINE Counted ==
        /\ called' \in [Commands -> Nat] /\ executed' \in [Commands -> Nat]
        /\ \A c \in Commands : c # c0 =>
              called'[c] = called[c] /\ executed'[c] = executed[c]
        /\ executed'[c0] <= executed[c0] + 1
  <1> DEFINE Concluded ==
        /\ hand' \in Hand /\ hand'.cmd = c0
        /\ hand'.pc = "journal" /\ hand'.ack \in Ack
  <1> DEFINE Retried ==
        /\ hand' \in Hand /\ hand'.cmd = c0
        /\ hand'.pc = "broker" /\ executed' = executed
  <1>1. InBroker /\ Untouched
    BY DEF CallBroker, PreSendRefused, DeadlinePassed, SendRetryable, CallUnknown,
           CallSucceeds, CallBulk
  <1>2. c0 \in Commands /\ executed[c0] \in Nat /\ called[c0] \in Nat
    BY <1>1 DEF InBroker, HandShape, EATypeOK
  <1>3. UNCHANGED <<called, executed>> => Counted
    BY <1>2 DEF EATypeOK
  <1>4. ASSUME NEW effect \in BOOLEAN, Call(effect)
        PROVE  Counted /\ (effect = FALSE => executed' = executed)
    <2>1. (IF effect THEN 1 ELSE 0) \in {0, 1}
      OBVIOUS
    <2>2. /\ called' = [called EXCEPT ![c0] = called[c0] + 1]
          /\ executed' = [executed EXCEPT ![c0] = executed[c0] + IF effect THEN 1 ELSE 0]
      BY <1>4 DEF Call
    <2>3. Counted
      BY <1>2, <2>1, <2>2 DEF EATypeOK
    <2>4. ASSUME effect = FALSE PROVE executed' = executed
      <3>1. executed[c0] + (IF effect THEN 1 ELSE 0) = executed[c0]
        BY <1>2, <2>4
      <3>2. QED
        BY <2>2, <3>1 DEF EATypeOK
    <2>5. QED
      BY <2>3, <2>4
  <1>5. ASSUME NEW ack \in Ack, Conclude(ack)
        PROVE  Concluded
    BY <1>2, <1>5, AckingShape DEF Conclude
  <1>6. ASSUME ~LastTry, executed' = executed,
               \/ hand' = [hand EXCEPT !.tries = @ + 1]
               \/ hand' = [hand EXCEPT !.tries = @ + 1, !.attempted = TRUE]
        PROVE  Retried
    <2>1. hand \in Hand /\ hand.pc = "broker" /\ hand.tries \in 0 .. SendAttempts - 1
      BY <1>1 DEF InBroker, EATypeOK, Hand
    <2>2. hand.tries + 1 \in 0 .. SendAttempts - 1
      BY <1>6, <2>1, EAAssumption DEF LastTry
    <2>3. hand' \in Hand
      BY <1>6, <2>1, <2>2 DEF Hand
    <2>4. QED
      BY <1>6, <2>1, <2>3 DEF Hand
  <1>7. Counted /\ (Concluded \/ Retried)
    <2>1. ASSUME NEW transient \in BOOLEAN, PreSendRefused(transient)
          PROVE  Counted /\ (Concluded \/ Retried)
      <3>1. hand.attempted \in BOOLEAN
        BY DEF EATypeOK, Hand
      <3>2. QED
        BY <1>3, <1>5, <1>6, <2>1, <3>1, ReportsAreAcks DEF PreSendRefused
    <2>2. CASE DeadlinePassed
      BY <1>3, <1>5, <2>2, ReportsAreAcks DEF DeadlinePassed
    <2>3. CASE SendRetryable
      <3>1. Counted /\ executed' = executed
        BY <1>4, <2>3 DEF SendRetryable
      <3>2. QED
        BY <1>5, <1>6, <2>3, <3>1, ReportsAreAcks DEF SendRetryable
    <2>4. ASSUME NEW effect \in BOOLEAN, CallUnknown(effect)
          PROVE  Counted /\ Concluded
      BY <1>4, <1>5, <2>4, ReportsAreAcks DEF CallUnknown
    <2>5. CASE CallSucceeds
      BY <1>4, <1>5, <2>5, ReportsAreAcks DEF CallSucceeds
    <2>6. ASSUME NEW effect \in BOOLEAN, NEW ok \in BOOLEAN, CallBulk(effect, ok)
          PROVE  Counted /\ Concluded
      BY <1>3, <1>4, <1>5, <2>6, ReportsAreAcks DEF CallBulk
    <2>7. QED
      BY <2>1, <2>2, <2>3, <2>4, <2>5, <2>6 DEF CallBroker
  <1>8. QED
    BY <1>1, <1>7 DEF InBroker
-----------------------------------------------------------------------------
\* The invariant of the EA holds when it is first attached.
LEMMA EAInvariantInit == EAInit => EAInvariant
  <1> SUFFICES ASSUME EAInit PROVE EAInvariant
    OBVIOUS
  <1>1. EATypeOK
    <2>1. 0 \in 0 .. MaxRestarts /\ NoOutcome \in Outcome
      BY EAAssumption DEF Outcome
    <2>2. QED
      BY <2>1, IdleShape DEF EAInit, EATypeOK
  <1>2. HandShape /\ JournalOfHand /\ UntriedThisSession /\ OncePerSession
          /\ SeenAccounted
    BY IdleShape
       DEF EAInit, HandShape, JournalOfHand, UntriedThisSession, OncePerSession,
           SeenAccounted
  <1>3. OwedByHand
    BY IdleShape DEF EAInit, OwedByHand, Owed
  <1>4. QED
    BY <1>1, <1>2, <1>3 DEF EAInvariant

\* The EA only takes a command while it owes nothing; a command it executes
\* has no outcome yet.
LEMMA HandlePreserves ==
    ASSUME EAInvariant, NEW c \in Commands, HandleCmd(c)
    PROVE  EAInvariant'
  <1>1. /\ hand = Idle /\ ~blocked /\ kept = {} /\ outbox = {}
        /\ UNCHANGED <<blocked, journal, called, executed, restarts>>
    BY DEF HandleCmd, AllowsPolling
  <1>2. EATypeOK /\ journal[c] \in Outcome
    BY DEF EAInvariant, EATypeOK
  <1>3. \A d \in Commands : journal[d] = NoOutcome => executed[d] <= restarts
    BY <1>1, IdleShape DEF EAInvariant, UntriedThisSession
  <1>4. \A d \in seen : journal[d] # NoOutcome
    BY <1>1, IdleShape DEF EAInvariant, SeenAccounted
  <1>5. OncePerSession'
    BY <1>1 DEF EAInvariant, OncePerSession
  <1>6. CASE ReplayOutcome(c)
    <2> DEFINE replayed == [cmd |-> c, ack |-> journal[c]]
    <2>1. journal[c] \in Ack
      BY <1>2, <1>6 DEF ReplayOutcome, Outcome
    <2>2. replayed \in File
      BY <2>1 DEF File
    <2>3. /\ hand' \in {[Acking(c, journal[c]) EXCEPT !.pc = "post"], Acking(c, Ambiguous)}
          /\ Owed' \subseteq {replayed}
          /\ outbox' \subseteq File /\ kept' \subseteq File /\ torn' \in Nat
          /\ seen' = seen
      BY <1>1, <1>2, <1>6, <2>2 DEF ReplayOutcome, Owed, EATypeOK, Persisted, NotPersisted,
         TornWrite, Retained
    <2>4. /\ hand' \in Hand
          /\ hand'.pc \in {"journal", "post"}
          /\ hand'.cmd = c
          /\ hand'.ack \in Ack
      <3>1. CASE hand' = Acking(c, Ambiguous)
        BY <3>1, AckingShape, ReportsAreAcks
      <3>2. CASE hand' = [Acking(c, journal[c]) EXCEPT !.pc = "post"]
        <4>1. /\ Acking(c, journal[c]) \in Hand
              /\ Acking(c, journal[c]).cmd = c
              /\ Acking(c, journal[c]).ack = journal[c]
          BY <2>1, AckingShape
        <4>2. QED
          BY <2>1, <3>2, <4>1 DEF Hand
      <3>3. QED
        BY <2>3, <3>1, <3>2
    <2>5. EATypeOK'
      BY <1>1, <1>2, <2>3, <2>4 DEF EATypeOK
    <2>6. HandShape' /\ JournalOfHand'
      BY <1>1, <1>6, <2>4 DEF HandShape, JournalOfHand, ReplayOutcome
    <2>7. UntriedThisSession' /\ SeenAccounted'
      BY <1>1, <1>3, <1>4, <2>3 DEF UntriedThisSession, SeenAccounted
    <2>8. OwedByHand'
      BY <2>3, <2>4 DEF OwedByHand
    <2>9. QED
      BY <1>5, <2>5, <2>6, <2>7, <2>8 DEF EAInvariant
  <1>7. CASE RefuseAmbiguous(c)
    <2>1. /\ hand' \in Hand
          /\ hand'.pc = "journal"
          /\ hand'.cmd = c
          /\ hand'.ack \in Ack
      BY <1>7, AckingShape, ReportsAreAcks DEF RefuseAmbiguous
    <2>2. UNCHANGED <<seen, kept, outbox, torn>> /\ Owed' = {}
      BY <1>1, <1>7 DEF RefuseAmbiguous, Owed
    <2>3. EATypeOK' /\ HandShape' /\ JournalOfHand'
      BY <1>1, <1>2, <2>1, <2>2 DEF EATypeOK, HandShape, JournalOfHand
    <2>4. UntriedThisSession' /\ SeenAccounted' /\ OwedByHand'
      BY <1>1, <1>3, <1>4, <2>2 DEF UntriedThisSession, SeenAccounted, OwedByHand
    <2>5. QED
      BY <1>5, <2>3, <2>4 DEF EAInvariant
  <1>8. CASE Execute(c)
    <2>1. /\ hand' \in Hand
          /\ hand'.pc \in {"broker", "journal"}
          /\ hand'.cmd = c
          /\ hand'.pc = "journal" => hand'.ack \in Ack
      <3>1. CASE hand' = Acking(c, Refusal)
        BY <3>1, AckingShape, ReportsAreAcks
      <3>2. CASE hand' = [Idle EXCEPT !.pc = "broker", !.cmd = c]
        BY <3>2, IdleShape DEF Hand
      <3>3. QED
        BY <1>8, <3>1, <3>2 DEF Execute
    <2>2. seen' = seen \cup {c} /\ Owed' = {} /\ journal[c] = NoOutcome
      BY <1>1, <1>8 DEF Execute, Owed
    <2>3. UNCHANGED <<kept, outbox, torn>>
      BY <1>8 DEF Execute
    <2>4. EATypeOK' /\ HandShape' /\ JournalOfHand'
      BY <1>1, <1>2, <2>1, <2>2, <2>3 DEF EATypeOK, HandShape, JournalOfHand
    <2>5. UntriedThisSession' /\ SeenAccounted' /\ OwedByHand'
      BY <1>1, <1>3, <1>4, <2>1, <2>2 DEF UntriedThisSession, SeenAccounted, OwedByHand
    <2>6. QED
      BY <1>5, <2>4, <2>5 DEF EAInvariant
  <1>9. QED
    BY <1>6, <1>7, <1>8 DEF HandleCmd

\* Dropping a command from memory keeps the invariant.
LEMMA ForgetPreserves ==
    ASSUME EAInvariant, NEW c \in Commands, Forget(c)
    PROVE  EAInvariant'
  BY DEF Forget, EAInvariant, EATypeOK, HandShape, JournalOfHand, UntriedThisSession,
         OncePerSession, SeenAccounted, OwedByHand, Owed

\* So does the broker call, the only step with an effect.
LEMMA CallPreserves ==
    ASSUME EAInvariant, CallBroker
    PROVE  EAInvariant'
  <1>1. EATypeOK /\ HandShape
    BY DEF EAInvariant
  <1>2. /\ hand.pc = "broker"
        /\ UNCHANGED <<seen, kept, blocked, journal, outbox, torn, restarts>>
        /\ hand' \in Hand
        /\ hand'.cmd = hand.cmd
        /\ called' \in [Commands -> Nat] /\ executed' \in [Commands -> Nat]
        /\ \A c \in Commands : c # hand.cmd => executed'[c] = executed[c]
        /\ \/ hand'.pc = "broker" /\ executed' = executed
           \/ /\ hand'.pc = "journal" /\ hand'.ack \in Ack
              /\ executed'[hand.cmd] <= executed[hand.cmd] + 1
    BY <1>1, CallBrokerShape DEF Untouched
  <1>3. /\ hand.cmd \in Commands
        /\ journal[hand.cmd] = NoOutcome /\ ~blocked
        /\ Owed = {} /\ Owed' = {}
    BY <1>2 DEF EAInvariant, HandShape, JournalOfHand, OwedByHand, Owed
  <1>4. EATypeOK' /\ HandShape' /\ JournalOfHand'
    BY <1>1, <1>2, <1>3 DEF EATypeOK, HandShape, JournalOfHand
  <1>5. OwedByHand' /\ SeenAccounted'
    BY <1>2, <1>3 DEF EAInvariant, OwedByHand, SeenAccounted
  <1>6. UntriedThisSession'
    BY <1>2 DEF EAInvariant, UntriedThisSession
  <1>7. OncePerSession'
    <2>1. restarts \in Nat /\ \A c \in Commands : executed[c] \in Nat /\ executed'[c] \in Nat
      BY <1>1, <1>2, EAAssumption DEF EATypeOK
    <2>2. \A c \in Commands : executed[c] <= 1 + restarts
      BY DEF EAInvariant, OncePerSession
    <2>3. executed[hand.cmd] <= restarts
      BY <1>2, <1>3 DEF EAInvariant, UntriedThisSession
    <2>4. QED
      BY <1>2, <1>3, <2>1, <2>2, <2>3 DEF OncePerSession
  <1>8. QED
    BY <1>4, <1>5, <1>6, <1>7 DEF EAInvariant

\* The first outcome of a command stays in the journal; if the record does not
\* read back, polling is fenced.
LEMMA PersistPreserves ==
    ASSUME EAInvariant, NEW written \in BOOLEAN, NEW matches \in BOOLEAN,
           PersistOutcome(written, matches)
    PROVE  EAInvariant'
  <1>1. /\ EATypeOK /\ HandShape
        /\ hand.pc = "journal"
        /\ hand' = [hand EXCEPT !.pc = "queue"]
        /\ blocked' = (blocked \/ ~matches)
        /\ matches => journal'[hand.cmd] = hand.ack
        /\ UNCHANGED <<seen, kept, outbox, torn, called, executed, restarts>>
    BY DEF PersistOutcome, EAInvariant
  <1>2. hand.cmd \in Commands /\ hand.ack \in Ack /\ hand.ack # NoOutcome
    BY <1>1, AckIsOutcome DEF HandShape
  <1>3. /\ hand' \in Hand
        /\ hand'.pc = "queue" /\ hand'.cmd = hand.cmd /\ hand'.ack = hand.ack
    BY <1>1 DEF EATypeOK, Hand
  <1>4. /\ journal' \in [Commands -> Outcome]
        /\ \A c \in Commands : c # hand.cmd => journal'[c] = journal[c]
        /\ journal[hand.cmd] # NoOutcome => journal'[hand.cmd] # NoOutcome
    BY <1>1, <1>2 DEF PersistOutcome, Journalled, EATypeOK, Outcome
  <1>5. EATypeOK'
    BY <1>1, <1>3, <1>4 DEF EATypeOK
  <1>6. HandShape' /\ JournalOfHand' /\ OncePerSession'
    BY <1>1, <1>2, <1>3 DEF EAInvariant, HandShape, JournalOfHand, OncePerSession
  <1>7. blocked' \/ journal'[hand.cmd] # NoOutcome
    BY <1>1, <1>2
  <1>8. blocked => blocked'
    BY <1>1
  <1>9. UntriedThisSession'
    <2>1. ASSUME NEW c \in Commands, journal'[c] = NoOutcome, ~blocked'
          PROVE  executed'[c] <= restarts'
      <3>1. c # hand.cmd /\ journal[c] = NoOutcome /\ ~blocked
        BY <1>4, <1>7, <1>8, <2>1
      <3>2. QED
        BY <1>1, <3>1 DEF EAInvariant, UntriedThisSession
    <2>2. QED
      BY <2>1 DEF UntriedThisSession
  <1>10. SeenAccounted'
    <2>1. ASSUME NEW c \in seen
          PROVE  journal'[c] # NoOutcome \/ blocked'
      <3>1. CASE c = hand.cmd
        BY <1>7, <3>1
      <3>2. CASE c # hand.cmd
        BY <1>1, <1>4, <1>8, <3>2 DEF EAInvariant, SeenAccounted, EATypeOK
      <3>3. QED
        BY <3>1, <3>2
    <2>2. QED
      BY <1>1, <2>1 DEF SeenAccounted
  <1>11. OwedByHand'
    BY <1>1, <1>3 DEF EAInvariant, OwedByHand, Owed
  <1>12. QED
    BY <1>5, <1>6, <1>9, <1>10, <1>11 DEF EAInvariant

\* The acknowledgement in hand joins at most one that was owed before.
LEMMA QueuePreserves ==
    ASSUME EAInvariant, NEW durable \in BOOLEAN, QueueAck(durable)
    PROVE  EAInvariant'
  <1>1. /\ EATypeOK /\ HandShape
        /\ hand.pc = "queue"
        /\ UNCHANGED <<seen, blocked, journal, called, executed, restarts>>
    BY DEF QueueAck, EAInvariant
  <1>2. hand.cmd \in Commands /\ hand.ack \in Ack /\ InHand \in File
    BY <1>1 DEF HandShape, InHand, File
  <1>3. /\ Owed' \subseteq Owed \cup {InHand}
        /\ outbox' \subseteq File /\ kept' \subseteq File /\ torn' \in Nat
    BY <1>1, <1>2 DEF QueueAck, Owed, EATypeOK, Persisted, NotPersisted, TornWrite, Retained
  <1>4. /\ hand' \in Hand
        /\ \/ hand' = Idle
           \/ hand'.pc = "post" /\ hand'.cmd = hand.cmd /\ hand'.ack = hand.ack
    BY <1>1, IdleShape DEF QueueAck, EATypeOK, Hand
  <1>5. EATypeOK'
    BY <1>1, <1>3, <1>4 DEF EATypeOK
  <1>6. blocked \/ journal[hand.cmd] # NoOutcome
    BY <1>1 DEF EAInvariant, JournalOfHand
  <1>7. HandShape' /\ JournalOfHand' /\ OncePerSession'
    BY <1>1, <1>2, <1>4, <1>6, IdleShape
       DEF EAInvariant, HandShape, JournalOfHand, OncePerSession
  <1>8. UntriedThisSession' /\ SeenAccounted'
    <2>1. ASSUME NEW c \in Commands, journal[c] = NoOutcome, ~blocked
          PROVE  executed[c] <= restarts
      <3>1. c # hand.cmd
        BY <1>6, <2>1
      <3>2. QED
        BY <2>1, <3>1 DEF EAInvariant, UntriedThisSession
    <2>2. \A c \in seen : journal[c] # NoOutcome \/ blocked
      BY <1>1 DEF EAInvariant, SeenAccounted
    <2>3. QED
      BY <1>1, <2>1, <2>2 DEF UntriedThisSession, SeenAccounted
  <1>9. OwedByHand'
    <2>1. PICK f : Owed \subseteq {f}
      BY <1>1 DEF EAInvariant, OwedByHand
    <2>2. Owed' \subseteq {f, InHand}
      BY <1>3, <2>1
    <2>3. hand'.pc \in {"idle", "post"}
      BY <1>4, IdleShape
    <2>4. QED
      BY <2>2, <2>3 DEF OwedByHand
  <1>10. QED
    BY <1>5, <1>7, <1>8, <1>9 DEF EAInvariant

\* Between two commands the EA works off what it owes.
LEMMA DrainPreserves ==
    ASSUME EAInvariant,
           \/ \E f \in kept, durable \in BOOLEAN : FlushKept(f, durable)
           \/ \E f \in outbox, accepted \in BOOLEAN : PostAck(f, accepted)
    PROVE  EAInvariant'
  <1>1. /\ hand = Idle \/ hand.pc = "post"
        /\ hand' = Idle
        /\ Owed' \subseteq Owed
        /\ outbox' \subseteq File /\ kept' \subseteq File /\ torn' \in Nat
        /\ UNCHANGED <<seen, blocked, journal, called, executed, restarts>>
    BY DEF FlushKept, PostAck, Postable, Owed, EAInvariant, EATypeOK, Persisted, TornWrite
  <1>2. EATypeOK'
    BY <1>1, IdleShape DEF EAInvariant, EATypeOK
  <1>3. HandShape' /\ JournalOfHand' /\ OncePerSession'
    BY <1>1, IdleShape DEF EAInvariant, HandShape, JournalOfHand, OncePerSession
  <1>4. UntriedThisSession'
    <2>1. ASSUME NEW c \in Commands, journal[c] = NoOutcome, ~blocked
          PROVE  executed[c] <= restarts
      <3>1. hand.cmd = c => hand.pc \in {"idle", "broker"}
        BY <1>1, <2>1, IdleShape DEF EAInvariant, JournalOfHand
      <3>2. QED
        BY <2>1, <3>1 DEF EAInvariant, UntriedThisSession
    <2>2. QED
      BY <1>1, <2>1 DEF UntriedThisSession
  <1>5. SeenAccounted'
    BY <1>1, IdleShape DEF EAInvariant, SeenAccounted
  <1>6. OwedByHand'
    BY <1>1, IdleShape DEF EAInvariant, OwedByHand
  <1>7. QED
    BY <1>2, <1>3, <1>4, <1>5, <1>6 DEF EAInvariant

\* A restart forgets what was in memory; each session may repeat at most one
\* effect that it could not know of.
LEMMA RestartPreserves ==
    ASSUME EAInvariant, Restart
    PROVE  EAInvariant'
  <1>1. /\ restarts \in Nat /\ restarts' = restarts + 1 /\ restarts' \in 0 .. MaxRestarts
        /\ hand' = Idle /\ seen' = {} /\ kept' = {} /\ blocked' = FALSE
        /\ UNCHANGED <<journal, outbox, torn, called, executed>>
    BY EAAssumption DEF Restart, EAInvariant, EATypeOK
  <1>2. EATypeOK'
    BY <1>1, IdleShape DEF EAInvariant, EATypeOK
  <1>3. HandShape' /\ JournalOfHand' /\ SeenAccounted'
    BY <1>1, IdleShape DEF HandShape, JournalOfHand, SeenAccounted
  <1>4. \A c \in Commands : executed[c] \in Nat /\ executed[c] <= 1 + restarts
    BY DEF EAInvariant, EATypeOK, OncePerSession
  <1>5. UntriedThisSession' /\ OncePerSession'
    BY <1>1, <1>4 DEF UntriedThisSession, OncePerSession
  <1>6. OwedByHand'
    <2>1. Owed' \subseteq Owed
      BY <1>1 DEF Owed
    <2>2. QED
      BY <1>1, <2>1, IdleShape DEF EAInvariant, OwedByHand
  <1>7. QED
    BY <1>2, <1>3, <1>5, <1>6 DEF EAInvariant

\* Every step of the EA keeps the invariant.
LEMMA EAInvariantStep == EAInvariant /\ [EANext]_eaVars => EAInvariant'
  <1> SUFFICES ASSUME EAInvariant, [EANext]_eaVars
               PROVE  EAInvariant'
    OBVIOUS
  <1>1. CASE EAStep
    BY <1>1, CallPreserves, PersistPreserves, QueuePreserves, DrainPreserves DEF EAStep
  <1>2. ASSUME NEW c \in Commands, HandleCmd(c) \/ Forget(c)
        PROVE  EAInvariant'
    BY <1>2, HandlePreserves, ForgetPreserves
  <1>3. CASE \E f \in outbox, accepted \in BOOLEAN : PostAck(f, accepted)
    BY <1>3, DrainPreserves
  <1>4. CASE Restart
    BY <1>4, RestartPreserves
  <1>5. CASE UNCHANGED eaVars
    BY <1>5
       DEF eaVars, EAInvariant, EATypeOK, HandShape, JournalOfHand, UntriedThisSession,
           OncePerSession, SeenAccounted, OwedByHand, Owed
  <1>6. QED
    BY <1>1, <1>2, <1>3, <1>4, <1>5 DEF EANext
-----------------------------------------------------------------------------
\* The EA stays within EAInvariant, for any commands, restarts and failing
\* writes (HandleCmd, PersistSignalOutcomePayload, QueueAckPayloadBeforePost).
THEOREM EAInvariantHolds == EASpec => []EAInvariant
  <1>1. QED
    BY EAInvariantInit, EAInvariantStep, PTL DEF EASpec

\* Every variable of the EA keeps its type; in particular the attempts of one
\* entry stay below ENTRY_SEND_ATTEMPTS.
THEOREM EATyping == EASpec => []EATypeOK
  <1>1. EAInvariant => EATypeOK
    BY DEF EAInvariant
  <1>2. QED
    BY <1>1, EAInvariantHolds, PTL

\* Within one session no command takes effect at the broker twice, however
\* often the bridge hands it out.
THEOREM OncePerSessionHolds == EASpec => []OncePerSession
  <1>1. EAInvariant => OncePerSession
    BY DEF EAInvariant
  <1>2. QED
    BY <1>1, EAInvariantHolds, PTL

\* While the EA may poll, every command it remembers has a durable outcome
\* (AckOutboxAllowsCommandPolling).
THEOREM PollingOwesNothingHolds == EASpec => []PollingOwesNothing
  <1>1. EAInvariant => PollingOwesNothing
    BY IdleShape DEF EAInvariant, SeenAccounted, PollingOwesNothing, AllowsPolling
  <1>2. QED
    BY <1>1, EAInvariantHolds, PTL

\* The EA never owes more than two acknowledgements, and none is dropped for
\* lack of a place in memory, even when truncated files have filled the store
\* (PersistAckPayloadBeforePost, RetainUnpersistedAckPayload).
THEOREM OwesAtMostTwoHolds == EASpec => []OwesAtMostTwo
  <1>1. ASSUME NEW f, NEW g, NEW S \in SUBSET {f, g}
        PROVE  Cardinality(S) <= 2
    <2>1. IsFiniteSet({f}) /\ Cardinality({f}) = 1
      BY FS_Singleton
    <2>a. IsFiniteSet({f} \cup {g}) /\ Cardinality({f} \cup {g}) \in {1, 2}
      BY <2>1, FS_AddElement
    <2>b. {f} \cup {g} = {f, g}
      OBVIOUS
    <2>2. IsFiniteSet({f, g}) /\ Cardinality({f, g}) \in {1, 2}
      BY <2>a, <2>b
    <2>3. Cardinality(S) <= Cardinality({f, g}) /\ IsFiniteSet(S)
      BY <2>2, FS_Subset
    <2>4. Cardinality(S) \in Nat
      BY <2>3, FS_CardinalityType
    <2>5. QED
      BY <2>2, <2>3, <2>4
  <1>2. ASSUME NEW f, NEW S \in SUBSET {f}
        PROVE  Cardinality(S) < MaxKept
    <2>1. IsFiniteSet({f}) /\ Cardinality({f}) = 1
      BY FS_Singleton
    <2>2. Cardinality(S) <= 1 /\ Cardinality(S) \in Nat
      BY <2>1, FS_Subset, FS_CardinalityType
    <2>3. QED
      BY <2>2, EAAssumption
  <1>3. EAInvariant => OwesAtMostTwo
    <2> SUFFICES ASSUME EAInvariant PROVE OwesAtMostTwo
      OBVIOUS
    <2>1. Cardinality(outbox \cup kept) <= 2
      BY <1>1 DEF EAInvariant, OwedByHand, Owed
    <2>2. ASSUME hand.pc \in {"journal", "queue"} PROVE Cardinality(kept) < MaxKept
      <3>1. PICK f : outbox \cup kept \subseteq {f}
        BY <2>2 DEF EAInvariant, OwedByHand, Owed
      <3>2. QED
        BY <1>2, <3>1
    <2>3. QED
      BY <2>1, <2>2 DEF OwesAtMostTwo
  <1>4. QED
    BY <1>3, EAInvariantHolds, PTL

\* A command with a journalled outcome never reaches the broker again, over
\* restarts too (ReplayDurableSignalOutcome).
THEOREM JournalledHolds == EASpec => JournalledNeverRepeated
  <1>1. EAInvariant /\ [EANext]_eaVars =>
          [\A c \in Commands : journal[c] # NoOutcome => called'[c] = called[c]]_eaVars
    <2> SUFFICES ASSUME EAInvariant, EANext, NEW c \in Commands, journal[c] # NoOutcome
                 PROVE  called'[c] = called[c]
      OBVIOUS
    <2>1. CASE CallBroker
      <3>1. hand.pc = "broker" /\ (c # hand.cmd => called'[c] = called[c])
        BY <2>1, CallBrokerShape DEF EAInvariant
      <3>2. journal[hand.cmd] = NoOutcome
        BY <3>1 DEF EAInvariant, JournalOfHand
      <3>3. QED
        BY <3>1, <3>2
    <2>2. CASE ~CallBroker
      BY <2>2 DEF EANext, EAStep, PersistOutcome, QueueAck, FlushKept, HandleCmd, Forget,
                  PostAck, Restart
    <2>3. QED
      BY <2>1, <2>2
  <1>2. QED
    BY <1>1, EAInvariantHolds, PTL DEF EASpec, JournalledNeverRepeated
=============================================================================
