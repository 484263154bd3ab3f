--------------------------- MODULE MCCommandStore ---------------------------
(* Small instances of CommandStore for TLC.                                 *)
EXTENDS CommandStore

CONSTANTS e1, e2, x, all    \* two entries, a close, an account-wide close

MCVerb == [c \in Commands |-> CASE c = e1  -> "BUY"
                                [] c = e2  -> "SELL"
                                [] c = x   -> "CLOSE"
                                [] c = all -> "CLOSE_ALL"]

\* The close and the first entry share an instrument.
MCSymbol == [c \in Commands |-> CASE c \in {e1, x} -> "EURUSD"
                                  [] c = e2        -> "GBPUSD"
                                  [] c = all       -> "none"]

Success == [status |-> "acked", mutation |-> "confirmed", ticket |-> 1,
            evidence |-> "exact"]

OtherTicket == [Success EXCEPT !.ticket = 2]

Refusal == [status |-> "failed", mutation |-> "not_attempted", ticket |-> 0,
            evidence |-> "partial"]

Attempted == [Refusal EXCEPT !.mutation = "attempted"]

Receipt == [Refusal EXCEPT !.status = "delivered"]

\* Every kind of acknowledgement, two successes of different tickets included.
AnyAck == {Success, Refusal, Attempted, OtherTicket, Receipt}

\* Every acknowledgement for the first entry; the second is lost at the broker.
EntryAcks == [c \in Commands |-> IF c = e1 THEN AnyAck ELSE {Attempted}]

\* Two successes that contradict each other.
ReplayAcks == [c \in Commands |-> {Success, OtherTicket}]

OneAck == [c \in Commands |-> {Success}]

\* The acknowledgements come from the composed EA.
NoAcks == [c \in Commands |-> {}]

=============================================================================
