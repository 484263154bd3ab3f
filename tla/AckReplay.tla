----------------------------- MODULE AckReplay -----------------------------
(***************************************************************************)
(* CommandStore with one history variable: the acknowledgement behind the  *)
(* first verdict a row was given.  The EA replays an acknowledgement until *)
(* a 2xx answer arrives, so every message may be applied more than once.   *)
(***************************************************************************)
EXTENDS MCCommandStore

VARIABLE verdict

ReplayInit == Init /\ verdict = [c \in Commands |-> NoAck]

ReplayNext ==
    /\ Next
    /\ verdict' = [c \in Commands |->
                     IF verdict[c] = NoAck /\ row'[c].status \in ResolvedStatus
                     THEN row'[c].sem
                     ELSE verdict[c]]

ReplaySpec == ReplayInit /\ [][ReplayNext]_<<vars, verdict>>

\* docs/agents/runtime-loop.md:411: a contradictory replay "escalates to
\* `reconcile_required` and cannot silently replace prior broker evidence".
\* A row that holds a verdict still holds the first one's evidence.
FirstVerdictStands ==
    \A c \in Commands :
        row[c].status \in ResolvedStatus /\ verdict[c] # NoAck =>
            row[c].sem = verdict[c]
=============================================================================
