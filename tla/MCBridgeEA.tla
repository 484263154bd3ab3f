----------------------------- MODULE MCBridgeEA -----------------------------
(* Small instances of BridgeEA for TLC.                                     *)
EXTENDS BridgeEA

CONSTANTS e1, x, all    \* an entry, a strict close, a legacy close of all

MCVerb == [c \in Commands |-> CASE c = e1  -> "BUY"
                                [] c = x   -> "CLOSE"
                                [] c = all -> "CLOSE_ALL"]
=============================================================================
