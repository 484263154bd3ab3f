--------------------------- MODULE AckAttestation ---------------------------
(***************************************************************************)
(* The classifier of execution acknowledgements                            *)
(* (runtime/execution_ack_attestation.py): the only durable status the     *)
(* store may give a command for what the EA reports about it.              *)
(*                                                                         *)
(* An acknowledgement is abstracted to what the classifier tells apart:    *)
(*   status    what the EA reports,                                        *)
(*   mutation  what it says about the broker call,                         *)
(*   ticket    the broker ticket it reports, 0 for none,                   *)
(*   evidence  how the reported identity and broker actuals compare with   *)
(*             the command: "exact" (every applicable field read back from *)
(*             the broker and equal), "partial" (something is missing,     *)
(*             nothing disagrees), "contradictory" (something disagrees).  *)
(***************************************************************************)
EXTENDS Naturals

CONSTANT Tickets    \* broker tickets, positive

ASSUME TicketAssumption == Tickets \subseteq Nat \ {0}

EntryVerbs == {"BUY", "SELL"}

ExitVerbs == {"CLOSE", "CLOSE_ALL", "CLOSE_PARTIAL"}

Verbs == EntryVerbs \cup ExitVerbs \cup {"MODIFY_SL"}

ResolvedStatus == {"acked", "failed", "duplicate"}

AckStatus == ResolvedStatus \cup {"delivered", "reconcile_required"}

Ack == [status   : AckStatus,
        mutation : {"not_attempted", "attempted", "unknown", "confirmed"},
        ticket   : Tickets \cup {0},
        evidence : {"exact", "partial", "contradictory"}]

(***************************************************************************)
(* A success is attested by a confirmed mutation, a positive ticket and    *)
(* exact broker actuals.  CLOSE_ALL names no symbol, so command_symbol_    *)
(* missing keeps every success of it from being attested.                  *)
(***************************************************************************)
SuccessAttested(verb, a) ==
    /\ a.mutation = "confirmed"
    /\ a.ticket > 0
    /\ a.evidence = "exact"
    /\ verb # "CLOSE_ALL"

\* A refusal is conclusive only before any broker call: ticketless and
\* explicitly not_attempted.
RefusalConclusive(a) == a.mutation = "not_attempted" /\ a.ticket = 0

(***************************************************************************)
(* classify_execution_ack: the reported status stands when no reason       *)
(* speaks against it, otherwise the outcome is reconcile_required.         *)
(***************************************************************************)
EffectiveStatus(verb, a) ==
    LET stands == /\ a.evidence # "contradictory"
                  /\ a.status = "acked" => SuccessAttested(verb, a)
                  /\ a.status # "acked" => RefusalConclusive(a)
    IN  IF stands THEN a.status ELSE "reconcile_required"

\* _execution_ack_terminal_safe for a durable status given to acknowledgement a.
TerminalSafe(verb, status, a) ==
    /\ status \in ResolvedStatus
    /\ EffectiveStatus(verb, a) \in ResolvedStatus
    /\ IF status = "acked" THEN EffectiveStatus(verb, a) = "acked" /\ a.ticket > 0
                           ELSE RefusalConclusive(a)
=============================================================================
