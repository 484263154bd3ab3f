---------------------------- MODULE DailyBudget ----------------------------
(***************************************************************************)
(* runtime/scalp_daily_budget.py: whether a durable entry row takes the    *)
(* cell of its symbol and UTC day.  The store counts the other rows of the *)
(* cell at enqueue and again at delivery, and admits an entry only while   *)
(* none of them takes it.                                                  *)
(***************************************************************************)
EXTENDS AckAttestation

\* The acknowledgement stored with the row names a ticket.  (The other half
\* of the classifier's test, attestation_reasons in the acknowledgement, is
\* never written: the store keeps its reasons under another key.)
TicketReported(r) == r.sem \in Ack /\ r.sem.ticket > 0

\* Mutant: an entry that expired frees its cell, delivered or not.
ReleasedWheneverExpired(r) ==
    \/ r.status = "expired"
    \/ /\ r.status \in {"failed", "duplicate"}
       /\ r.sem \in Ack /\ r.sem.mutation = "not_attempted"

\* Expired before delivery, or refused before any broker call.
Released(r) ==
    \/ r.status = "expired" /\ ~r.delivered
    \/ /\ r.status \in {"failed", "duplicate"}
       /\ r.sem \in Ack /\ r.sem.mutation = "not_attempted"

\* classify_scalp_daily_budget_row: everything else reserves or consumes.
BudgetConsumed(r) ==
    \/ TicketReported(r) /\ r.status # "acked"
    \/ ~Released(r)
=============================================================================
