--------------------------- MODULE ExecutionPath ---------------------------
(***************************************************************************)
(* A command's way to the broker and back: the command store, the EA, and  *)
(* the two HTTP requests between them.  A poll request is made only by an  *)
(* EA that owes nothing; its response, a command the store has already     *)
(* marked delivered, arrives or is lost.  An acknowledgement may not reach *)
(* the store, or reach it while the answer is lost.  Either side may be    *)
(* restarted at any moment: the store keeps no state outside its tables.   *)
(***************************************************************************)
EXTENDS CommandStore, DailyBudget

CONSTANTS Bulk, Deadline, NoCommand, SendAttempts, MaxStored, MaxKept, MaxRestarts

\* What BridgeEA assumes of the constants it shares with this module.
ASSUME PathAssumption ==
    /\ {c \in Commands : Verb[c] = "CLOSE_ALL"} \subseteq Bulk
    /\ Bulk     \subseteq {c \in Commands : Verb[c] \notin EntryVerbs}
    /\ Deadline \subseteq {c \in Commands : Verb[c] \in EntryVerbs}
    /\ NoCommand \notin Commands
    /\ SendAttempts \in Nat \ {0}
    /\ MaxStored \in Nat \ {0, 1}
    /\ MaxKept \in Nat \ {0, 1}
    /\ MaxRestarts \in Nat

VARIABLES hand, seen, kept, blocked, journal, outbox, torn, called, executed, restarts

EA == INSTANCE BridgeEA

eaVars == <<hand, seen, kept, blocked, journal, outbox, torn, called, executed, restarts>>

pathVars == <<vars, eaVars>>

PathInit == Init /\ EA!EAInit
-----------------------------------------------------------------------------
\* OnTimer's GET /v2/commands/poll.
Request ==
    /\ EA!AllowsPolling
    /\ PollBegin
    /\ UNCHANGED eaVars

\* The response is a command line, and arrives.
Deliver(c, vetoed) == PollDeliver(c, vetoed) /\ EA!HandleCmd(c)

\* The response is lost.
LoseCommand(c, vetoed) == PollDeliver(c, vetoed) /\ UNCHANGED eaVars

\* The response is empty.
DeliverNothing(vetoed) ==
    /\ PollClosed \/ PollNothing(vetoed)
    /\ UNCHANGED eaVars

PollResponse ==
    \E vetoed \in SUBSET Candidates :
        \/ DeliverNothing(vetoed)
        \/ \E c \in Candidates : Deliver(c, vetoed) \/ LoseCommand(c, vetoed)

\* What POST /v2/commands/ack does to the store.
StoreAnswers(f) ==
    IF AckIdempotent(f.cmd, f.ack) \/ AckInvalid(f.cmd, f.ack)
      THEN UNCHANGED vars
      ELSE AckCommand(f.cmd, f.ack)

\* The answer arrives: 409 for an invalid transition, otherwise 200.
PostAnswered(f) ==
    /\ StoreAnswers(f)
    /\ EA!PostAck(f, ~AckInvalid(f.cmd, f.ack))

\* The answer is lost, or the request was, or it was refused before it
\* reached the store: 401 or 403 for its credential, 409 for its protocol or
\* lease, 503.
PostUnanswered(f) ==
    /\ StoreAnswers(f) \/ UNCHANGED vars
    /\ EA!PostAck(f, FALSE)

EALocal ==
    /\ EA!EAStep \/ EA!Restart \/ \E c \in Commands : EA!Forget(c)
    /\ UNCHANGED vars

PathNext ==
    \/ Background /\ UNCHANGED eaVars
    \/ Request
    \/ PollResponse
    \/ \E f \in outbox : PostAnswered(f) \/ PostUnanswered(f)
    \/ EALocal

PathSpec == PathInit /\ [][PathNext]_pathVars

(***************************************************************************)
(* The EA finishes the command in hand; its disk works again eventually,   *)
(* unless a write stopped short; a post that stays due is answered by the  *)
(* store one time or another: the network works again, and a credential    *)
(* that was rotated is replaced in the terminal too.                       *)
(***************************************************************************)
FairPathSpec ==
    /\ PathSpec
    /\ WF_pathVars(EA!EAStep /\ UNCHANGED vars)
    /\ WF_pathVars(\E f \in outbox : PostAnswered(f))
-----------------------------------------------------------------------------
(* Properties                                                              *)

\* A command takes effect at the broker at most once: over lost responses,
\* retried sends, restarts of the terminal between the broker call and the
\* journal, replayed acknowledgements and requeued rows.
ExecutedAtMostOnce == \A c \in Commands : executed[c] <= 1

\* What the store concludes about a command is what happened: a safe success
\* took effect and a safe refusal did not, through every retry, replay, lost
\* answer, expiry and quarantine on the way.
VerdictsAreTrue ==
    \A c \in Commands : row[c].status \in ResolvedStatus /\ row[c].safe =>
        executed[c] = IF row[c].status = "acked" THEN 1 ELSE 0

\* A position keeps its cell of the signed daily budget: an entry that took
\* effect at the broker is counted by classify_scalp_daily_budget_row from
\* then on, whatever expiry, purge, quarantine or a refusal reported for it
\* makes of its row, so that no second entry of the symbol is admitted.
ExposureKeepsItsCell ==
    \A c \in Commands : Entry(c) /\ executed[c] > 0 => BudgetConsumed(row[c])


\* runtime/execution_ack_attestation.py, classify_execution_ack: a call of
\* OrderSend, OrderClose or OrderModify "can never be mistaken for a harmless
\* refusal".
RefusalIsHarmless ==
    \A c \in Commands :
        row[c].status \in {"failed", "duplicate"} /\ row[c].safe => called[c] = 0
=============================================================================
