--------------------------- MODULE MCManagedState ---------------------------
(* ManagedState with one exit on each of two bars.                          *)
EXTENDS ManagedState

TwoExits == {[kind |-> "exit", bar |-> b] : b \in 1..2}
=============================================================================
