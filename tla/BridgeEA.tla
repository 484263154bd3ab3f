------------------------------ MODULE BridgeEA ------------------------------
(***************************************************************************)
(* The MT4 expert advisor (MQL4/Experts/BridgeEA.mq4): a single-threaded   *)
(* program that polls one command at a time, calls the broker, and must    *)
(* report what happened.  Two files carry an outcome over a restart: the   *)
(* terminal-local journal, which keeps the first outcome of every command  *)
(* and stops a command from being executed again, and the ACK outbox,      *)
(* whose files are posted until the bridge answers 2xx and which fences    *)
(* polling while it is not empty.  A write that stops short leaves a       *)
(* truncated temporary file there, which is never read, promoted or        *)
(* deleted.  The seen list, the acknowledgements that could not be written *)
(* and the fence on a failed journal are in memory.                        *)
(*                                                                         *)
(* The broker is external.  A call that returns a ticket was executed, an  *)
(* error from the list the EA retries was not, and any other error, a      *)
(* trade timeout in particular, says nothing about the outcome.            *)
(*                                                                         *)
(* Here the bridge may hand any command out at any time, also again;       *)
(* ExecutionPath puts the real command store in its place.                 *)
(***************************************************************************)
EXTENDS AckAttestation, FiniteSets

CONSTANTS Commands,     \* command identities
          Verb,         \* the verb of each command
          Bulk,         \* commands under the legacy_elbridge_v1 contract
          Deadline,     \* production-scalper entries, with an entry deadline
          NoCommand,    \* no command in hand
          SendAttempts, \* ENTRY_SEND_ATTEMPTS
          MaxStored,    \* ACK_OUTBOX_MAX_PENDING
          MaxKept,      \* ACK_OUTBOX_UNPERSISTED_MAX
          MaxRestarts   \* bound on terminal restarts

ASSUME EAAssumption ==
    /\ Verb \in [Commands -> Verbs]
    /\ {c \in Commands : Verb[c] = "CLOSE_ALL"} \subseteq Bulk
    /\ Bulk     \subseteq {c \in Commands : Verb[c] \notin EntryVerbs}
    /\ Deadline \subseteq {c \in Commands : Verb[c] \in EntryVerbs}
    /\ NoCommand \notin Commands
    /\ SendAttempts \in Nat \ {0}
    /\ MaxStored \in Nat \ {0, 1}
    /\ MaxKept \in Nat \ {0, 1}
    /\ MaxRestarts \in Nat

VARIABLES hand,       \* the command the EA is working on
          seen,       \* gSeenSignalIds
          kept,       \* gAckUnpersistedPayloads
          blocked,    \* gSignalOutcomeJournalBlocked
          journal,    \* the signal outcome journal, on disk
          outbox,     \* the ACK outbox, on disk
          torn,       \* truncated temporary files in it
          called,     \* history: broker calls made for each command
          executed,   \* history: broker calls that took effect
          restarts    \* history: terminal restarts

eaVars == <<hand, seen, kept, blocked, journal, outbox, torn, called, executed, restarts>>

NoOutcome == [status |-> "none"]
Outcome   == Ack \cup {NoOutcome}
File      == [cmd : Commands, ack : Ack]

Hand == [pc        : {"idle", "broker", "journal", "queue", "post"},
         cmd       : Commands \cup {NoCommand},
         tries     : 0 .. SendAttempts - 1,
         attempted : BOOLEAN,               \* mutationAttempted
         ack       : Outcome]

Idle == [pc |-> "idle", cmd |-> NoCommand, tries |-> 0, attempted |-> FALSE,
         ack |-> NoOutcome]

EATypeOK ==
    /\ hand \in Hand
    /\ seen \subseteq Commands
    /\ kept \subseteq File
    /\ blocked \in BOOLEAN
    /\ journal \in [Commands -> Outcome]
    /\ outbox \subseteq File
    /\ torn \in Nat
    /\ called \in [Commands -> Nat]
    /\ executed \in [Commands -> Nat]
    /\ restarts \in 0 .. MaxRestarts

EAInit ==
    /\ hand = Idle
    /\ seen = {}
    /\ kept = {}
    /\ blocked = FALSE
    /\ journal = [c \in Commands |-> NoOutcome]
    /\ outbox = {}
    /\ torn = 0
    /\ called = [c \in Commands |-> 0]
    /\ executed = [c \in Commands |-> 0]
    /\ restarts = 0
-----------------------------------------------------------------------------
(* Outcomes, as post_ack completes them                                    *)

Report(status, mutation, ticket, evidence) ==
    [status |-> status, mutation |-> mutation, ticket |-> ticket,
     evidence |-> evidence]

Refusal     == Report("failed", "not_attempted", 0, "partial")
Ambiguous   == Report("reconcile_required", "unknown", 0, "partial")
Attested(t) == Report("acked", "confirmed", t, "exact")

\* A broker call without a confirmed result, with the ticket it concerns.
Attempted(t) == Report("reconcile_required", "attempted", t, "partial")

\* A bulk close reports neither ticket nor attempts: post_ack takes the
\* mutation state from the status.
BulkReport(ok) == IF ok THEN Report("acked", "confirmed", 0, "partial")
                        ELSE Refusal
-----------------------------------------------------------------------------
(* Receiving a command                                                     *)

\* Mutant: a new command is taken while acknowledgements are pending.
AllowsPollingWhileOwing == hand = Idle /\ ~blocked

\* AckOutboxAllowsCommandPolling, between two commands: a truncated file
\* fences polling like any other staged one.
AllowsPolling == hand = Idle /\ ~blocked /\ kept = {} /\ outbox = {} /\ torn = 0

\* AckOutboxStoredCount is below the limit.
HasRoom == Cardinality(outbox) + torn < MaxStored

\* PersistAckPayloadBeforePost writes the file.  One that was flushed but not
\* promoted is promoted before the next replay and counts as pending: it is a
\* file here.
Persisted(f) ==
    /\ HasRoom
    /\ outbox' = outbox \cup {f}
    /\ UNCHANGED torn

\* The write stops short and its temporary file stays.  RecoverAckOutboxTemps
\* skips it in this and in every later session, for ReadAckOutboxPayload
\* rejects it.
TornWrite ==
    /\ HasRoom
    /\ torn' = torn + 1
    /\ UNCHANGED outbox

\* There is no room, the file does not open, or the write stops short.
NotPersisted == TornWrite \/ UNCHANGED <<outbox, torn>>

\* RetainUnpersistedAckPayload: beyond the limit the payload is dropped.
Retained(f) == kept' = IF Cardinality(kept) < MaxKept THEN kept \cup {f} ELSE kept

Acking(c, ack) == [Idle EXCEPT !.pc = "journal", !.cmd = c, !.ack = ack]

\* The journal holds an outcome, which goes to the outbox again.  If it is
\* only staged there, or kept in memory, the command is reported as ambiguous.
ReplayOutcome(c) ==
    LET replayed == [cmd |-> c, ack |-> journal[c]]
    IN  /\ journal[c] # NoOutcome
        /\ \/ /\ hand' \in {[Acking(c, journal[c]) EXCEPT !.pc = "post"],
                            Acking(c, Ambiguous)}
              /\ Persisted(replayed)
              /\ UNCHANGED kept
           \/ /\ hand' = Acking(c, Ambiguous)
              /\ NotPersisted
              /\ Retained(replayed)
        /\ UNCHANGED seen

\* The journal cannot be read (which may happen to any command), or only the
\* memory of this session knows the command: never execute.
RefuseAmbiguous(c) ==
    /\ hand' = Acking(c, Ambiguous)
    /\ UNCHANGED <<seen, kept, outbox, torn>>

\* Mutant: only the memory of this session is consulted.
ExecuteUnseen(c) ==
    /\ c \notin seen
    /\ seen' = seen \cup {c}
    /\ hand' \in {Acking(c, Refusal), [Idle EXCEPT !.pc = "broker", !.cmd = c]}
    /\ UNCHANGED <<kept, outbox, torn>>

\* An unknown command is refused by a validation, or goes to the broker.
Execute(c) ==
    /\ journal[c] = NoOutcome
    /\ c \notin seen
    /\ seen' = seen \cup {c}
    /\ hand' \in {Acking(c, Refusal), [Idle EXCEPT !.pc = "broker", !.cmd = c]}
    /\ UNCHANGED <<kept, outbox, torn>>

HandleCmd(c) ==
    /\ AllowsPolling
    /\ ReplayOutcome(c) \/ RefuseAmbiguous(c) \/ Execute(c)
    /\ UNCHANGED <<blocked, journal, called, executed, restarts>>

\* The seen list forgets after SignalDedupTTLSeconds, or at SignalDedupMax.
Forget(c) ==
    /\ c \in seen
    /\ seen' = seen \ {c}
    /\ UNCHANGED <<hand, kept, blocked, journal, outbox, torn, called, executed,
                   restarts>>
-----------------------------------------------------------------------------
(* Calling the broker                                                      *)

InBroker == hand.pc = "broker"

Untouched == UNCHANGED <<seen, kept, blocked, journal, outbox, torn, restarts>>

Conclude(ack) == hand' = Acking(hand.cmd, ack)

\* One broker call for the command in hand, which took effect or did not.
Call(effect) ==
    /\ called'   = [called EXCEPT ![hand.cmd] = @ + 1]
    /\ executed' = [executed EXCEPT ![hand.cmd] = @ + IF effect THEN 1 ELSE 0]

\* Mutant: one attempt too many.
LastTryOffByOne == hand.tries = SendAttempts

LastTry == hand.tries = SendAttempts - 1

\* Mutant: no ticket is taken for no attempt.
UnsentIgnoringAttempts(attempted) == Refusal

\* Execute's verdict without a ticket.
Unsent(attempted) == IF attempted THEN Attempted(0) ELSE Refusal

\* ValidateMarketEntryPreSend refuses; a busy context or a missing quote is
\* tried again.
PreSendRefused(transient) ==
    /\ InBroker
    /\ Verb[hand.cmd] \in EntryVerbs
    /\ IF transient /\ ~LastTry
         THEN hand' = [hand EXCEPT !.tries = @ + 1]
         ELSE Conclude(Unsent(hand.attempted))
    /\ UNCHANGED <<called, executed>>
    /\ Untouched

\* The last check before OrderSend, on every attempt.  It resets
\* mutationAttempted, also when an earlier attempt did call OrderSend.
DeadlinePassed ==
    /\ InBroker
    /\ hand.cmd \in Deadline
    /\ Conclude(Unsent(FALSE))
    /\ UNCHANGED <<called, executed>>
    /\ Untouched

\* OrderSend fails with an error of IsRetryableEntryError.
SendRetryable ==
    /\ InBroker
    /\ Verb[hand.cmd] \in EntryVerbs
    /\ Call(FALSE)
    /\ IF LastTry
         THEN Conclude(Unsent(TRUE))
         ELSE hand' = [hand EXCEPT !.tries = @ + 1, !.attempted = TRUE]
    /\ Untouched

\* Mutant: a trade timeout is retried like a requote.
CallUnknownRetried(effect) ==
    /\ InBroker
    /\ hand.cmd \notin Bulk
    /\ Call(effect)
    /\ IF LastTry
         THEN Conclude(Attempted(0))
         ELSE hand' = [hand EXCEPT !.tries = @ + 1, !.attempted = TRUE]
    /\ Untouched

\* OrderSend, OrderClose or OrderModify fails otherwise: the outcome is
\* unknown.  A strict management command reports its target ticket.
CallUnknown(effect) ==
    /\ InBroker
    /\ hand.cmd \notin Bulk
    /\ Call(effect)
    /\ IF Verb[hand.cmd] \in EntryVerbs
         THEN Conclude(Unsent(TRUE))
         ELSE \E t \in Tickets : Conclude(Attempted(t))
    /\ Untouched

\* The call succeeds and the order is read back: equal to the command or not.
CallSucceeds ==
    /\ InBroker
    /\ hand.cmd \notin Bulk
    /\ Call(TRUE)
    /\ \E t \in Tickets : Conclude(Attested(t)) \/ Conclude(Attempted(t))
    /\ Untouched

\* CloseAll, CloseSymbol and their kin visit every ELBridge order; a single
\* failure makes the whole command fail, whatever was closed before it.  A
\* success without effect found nothing to close.
CallBulk(effect, ok) ==
    /\ InBroker
    /\ hand.cmd \in Bulk
    /\ IF ok /\ ~effect THEN UNCHANGED <<called, executed>> ELSE Call(effect)
    /\ Conclude(BulkReport(ok))
    /\ Untouched

CallBroker ==
    \/ \E transient \in BOOLEAN : PreSendRefused(transient)
    \/ DeadlinePassed
    \/ SendRetryable
    \/ \E effect \in BOOLEAN : CallUnknown(effect)
    \/ CallSucceeds
    \/ \E effect, ok \in BOOLEAN : CallBulk(effect, ok)
-----------------------------------------------------------------------------
(* Reporting the outcome                                                   *)

\* The journal with the outcome in hand, unless it holds an earlier one.
Journalled == IF journal[hand.cmd] = NoOutcome
                THEN [journal EXCEPT ![hand.cmd] = hand.ack] ELSE journal

\* Mutant: a failed journal write is only logged.
PersistOutcomeUnfenced(written, matches) ==
    /\ hand.pc = "journal"
    /\ journal' = IF written THEN Journalled ELSE journal
    /\ matches => journal'[hand.cmd] = hand.ack
    /\ hand' = [hand EXCEPT !.pc = "queue"]
    /\ UNCHANGED <<seen, kept, blocked, outbox, torn, called, executed, restarts>>

\* PersistSignalOutcomePayload: the first outcome stays.  Unless the record
\* reads back byte for byte, which the timestamps in a second report of the
\* same outcome may prevent, polling is fenced until the EA is restarted.
PersistOutcome(written, matches) ==
    /\ hand.pc = "journal"
    /\ journal' = IF written THEN Journalled ELSE journal
    /\ matches => journal'[hand.cmd] = hand.ack
    /\ blocked' = (blocked \/ ~matches)
    /\ hand' = [hand EXCEPT !.pc = "queue"]
    /\ UNCHANGED <<seen, kept, outbox, torn, called, executed, restarts>>

InHand == [cmd |-> hand.cmd, ack |-> hand.ack]

\* QueueAckPayloadBeforePost.
QueueAck(durable) ==
    /\ hand.pc = "queue"
    /\ IF durable
         THEN /\ Persisted(InHand)
              /\ hand' = [hand EXCEPT !.pc = "post"]
              /\ UNCHANGED kept
         ELSE /\ NotPersisted
              /\ Retained(InHand)
              /\ hand' = Idle
    /\ UNCHANGED <<seen, blocked, journal, called, executed, restarts>>

\* FlushUnpersistedAckPayloads in a later timer event: the payload is written,
\* or the retry leaves another truncated file and the payload stays.
FlushKept(f, durable) ==
    /\ hand = Idle
    /\ f \in kept
    /\ IF durable
         THEN Persisted(f) /\ kept' = kept \ {f}
         ELSE TornWrite /\ UNCHANGED kept
    /\ UNCHANGED <<hand, seen, blocked, journal, called, executed, restarts>>

\* Right after queueing it, or any file from a timer.
Postable(f) ==
    /\ f \in outbox
    /\ \/ hand = Idle
       \/ hand.pc = "post" /\ f = InHand

\* ReplayAckOutboxFile: the file is deleted only when a 2xx answer arrives.
PostAck(f, accepted) ==
    /\ Postable(f)
    /\ outbox' = IF accepted THEN outbox \ {f} ELSE outbox
    /\ hand' = Idle
    /\ UNCHANGED <<seen, kept, blocked, journal, torn, called, executed, restarts>>

\* The terminal dies, at any moment, and comes back with what is on disk.
\* An orderly removal writes the kept acknowledgements first (FlushKept); a
\* death within a write is a write that stopped short.
Restart ==
    /\ restarts < MaxRestarts
    /\ restarts' = restarts + 1
    /\ hand' = Idle
    /\ seen' = {}
    /\ kept' = {}
    /\ blocked' = FALSE
    /\ UNCHANGED <<journal, outbox, torn, called, executed>>

\* What the EA does without the bridge.
EAStep ==
    \/ CallBroker
    \/ \E written, matches \in BOOLEAN : PersistOutcome(written, matches)
    \/ \E durable \in BOOLEAN : QueueAck(durable)
    \/ \E f \in kept, durable \in BOOLEAN : FlushKept(f, durable)

EANext ==
    \/ EAStep
    \/ \E c \in Commands : HandleCmd(c) \/ Forget(c)
    \/ \E f \in outbox, accepted \in BOOLEAN : PostAck(f, accepted)
    \/ Restart

EASpec == EAInit /\ [][EANext]_eaVars
-----------------------------------------------------------------------------
(* Properties                                                              *)

\* Within one session of the terminal no command takes effect at the broker
\* twice, even if the bridge hands it out again, the seen list has forgotten
\* it and its outcome could not be journalled (HandleCmd, PersistOutcome).
OncePerSession == \A c \in Commands : executed[c] <= 1 + restarts

\* A command whose outcome is in the journal never reaches the broker again,
\* not even after a restart that lost everything in memory
\* (ReplayDurableSignalOutcome).
JournalledNeverRepeated ==
    [][\A c \in Commands : journal[c] # NoOutcome => called'[c] = called[c]]_eaVars

\* While the EA may poll, it owes the bridge nothing: the outcome of every
\* command this session remembers is in the journal, so the branch for a
\* duplicate without a durable outcome is never taken.
PollingOwesNothing ==
    AllowsPolling => \A c \in seen : journal[c] # NoOutcome

\* Over lost answers, failing writes and restarts the EA never owes more than
\* the outcome of one command and one ambiguous report of it.  Truncated files
\* can fill the store up to ACK_OUTBOX_MAX_PENDING, but then there is still a
\* place in memory for every acknowledgement: none is dropped by
\* RetainUnpersistedAckPayload.
OwesAtMostTwo ==
    /\ Cardinality(outbox \cup kept) <= 2
    /\ hand.pc \in {"journal", "queue"} => Cardinality(kept) < MaxKept
=============================================================================
