------------------------- MODULE CommandStoreProofs -------------------------
(***************************************************************************)
(* Safety of the execution queue for every set of commands, every          *)
(* assignment of verbs and symbols, every set of acknowledgements and      *)
(* every bound on the revision.  StoreInvariant is inductive; the          *)
(* properties TLC checks on small instances follow from it.                *)
(***************************************************************************)
EXTENDS CommandStore, TLAPS

\* The classifier answers with one of the five acknowledgement statuses.
LEMMA EffectiveStatusType ==
    ASSUME NEW a \in Ack, NEW v
    PROVE  EffectiveStatus(v, a) \in AckStatus
  BY DEF EffectiveStatus, Ack, AckStatus, ResolvedStatus

\* What ack_command writes is an acknowledgement status, and a resolved one
\* only when the classifier itself gave it.
LEMMA RequestedStatusType ==
    ASSUME NEW a \in Ack, NEW c \in Commands
    PROVE  /\ RequestedStatus(c, a) \in AckStatus
           /\ RequestedStatus(c, a) \in ResolvedStatus =>
                RequestedStatus(c, a) = EffectiveStatus(Verb[c], a)
  BY EffectiveStatusType DEF RequestedStatus, AckStatus, ResolvedStatus

\* The authority keeps its type, whatever step it takes.
LEMMA AuthorityStepType ==
    ASSUME AuthorityNext
    PROVE  auth' \in AuthorityState
  BY DEF AuthorityNext

\* Writing only statuses preserves the shape of a row.
LEMMA RowRestatus ==
    ASSUME NEW r \in Row, NEW s \in Status
    PROVE  /\ [r EXCEPT !.status = s] \in Row
           /\ [r EXCEPT !.status = s].status = s
           /\ [r EXCEPT !.status = s].delivered = r.delivered
           /\ [r EXCEPT !.status = s].safe = r.safe
           /\ [r EXCEPT !.status = s].sem = r.sem
           /\ [r EXCEPT !.status = s].acked = r.acked
  BY DEF Row

\* A step that rewrites the statuses of queued and delivered rows to
\* "expired" or "reconcile_required" preserves everything about rows.
LEMMA RestatusPreserves ==
    ASSUME StoreInvariant,
           NEW S \in SUBSET Commands, NEW f,
           \A c \in S : f[c] \in {"expired", "reconcile_required"},
           row' = [c \in Commands |->
                     IF c \in S THEN [row[c] EXCEPT !.status = f[c]] ELSE row[c]],
           snap' = Touched(S),
           UNCHANGED <<trades, polls>>
    PROVE  /\ row' \in [Commands -> Row]
           /\ snap' \in [fresh : BOOLEAN, covered : SUBSET Commands,
                         settled : SUBSET Commands]
           /\ snap'.settled \subseteq snap'.covered
           /\ \A c \in Commands : RowHistory(c)' /\ VerdictEvidenced(c)'
  <1>1. \A c \in S : f[c] \in Status
    BY DEF Status
  <1>2. row \in [Commands -> Row]
    BY DEF StoreInvariant, TypeOK
  <1>3. row' \in [Commands -> Row]
    BY <1>1, <1>2, RowRestatus
  <1>4. /\ snap' \in [fresh : BOOLEAN, covered : SUBSET Commands,
                      settled : SUBSET Commands]
        /\ snap'.settled \subseteq snap'.covered
    BY DEF StoreInvariant, TypeOK, Touched
  <1>5. ASSUME NEW c \in Commands
        PROVE  RowHistory(c)' /\ VerdictEvidenced(c)'
    <2>1. RowHistory(c) /\ VerdictEvidenced(c)
      BY DEF StoreInvariant
    <2>2. CASE c \notin S
      <3>1. row'[c] = row[c]
        BY <2>2
      <3>2. QED
        BY <2>1, <3>1 DEF RowHistory, VerdictEvidenced
    <2>3. CASE c \in S
      <3>1. /\ row'[c].status \in {"expired", "reconcile_required"}
            /\ row'[c].delivered = row[c].delivered
            /\ row'[c].acked = row[c].acked
        BY <1>1, <1>2, <2>3, RowRestatus
      <3>2. QED
        BY <2>1, <3>1 DEF RowHistory, VerdictEvidenced, ResolvedStatus
    <2>4. QED
      BY <2>2, <2>3
  <1>6. QED
    BY <1>3, <1>4, <1>5

\* The two forms in which the store's transactions use Restatus.
LEMMA ExpirePreserves ==
    ASSUME StoreInvariant, NEW S \in SUBSET Commands,
           Restatus(S, ExpiredStatus),
           UNCHANGED <<trades, polls>>
    PROVE  /\ row' \in [Commands -> Row]
           /\ snap' \in [fresh : BOOLEAN, covered : SUBSET Commands,
                         settled : SUBSET Commands]
           /\ snap'.settled \subseteq snap'.covered
           /\ \A c \in Commands : RowHistory(c)' /\ VerdictEvidenced(c)'
  <1> DEFINE f == [c \in Commands |-> "expired"]
  <1>1. \A c \in S : f[c] \in {"expired", "reconcile_required"}
    OBVIOUS
  <1>2. row' = [c \in Commands |->
                  IF c \in S THEN [row[c] EXCEPT !.status = f[c]] ELSE row[c]]
    BY DEF Restatus, ExpiredStatus
  <1>3. snap' = Touched(S)
    BY DEF Restatus
  <1> HIDE DEF f
  <1>4. QED
    BY <1>1, <1>2, <1>3, RestatusPreserves

\* Quarantining uncertain rows keeps the invariant.
LEMMA QuarantinePreserves ==
    ASSUME StoreInvariant, NEW S \in SUBSET Commands,
           Restatus(S, QuarantinedStatus),
           UNCHANGED <<trades, polls>>
    PROVE  /\ row' \in [Commands -> Row]
           /\ snap' \in [fresh : BOOLEAN, covered : SUBSET Commands,
                         settled : SUBSET Commands]
           /\ snap'.settled \subseteq snap'.covered
           /\ \A c \in Commands : RowHistory(c)' /\ VerdictEvidenced(c)'
  <1> DEFINE f == [c \in Commands |-> QuarantinedStatus(row[c])]
  <1>1. \A c \in S : f[c] \in {"expired", "reconcile_required"}
    BY DEF QuarantinedStatus
  <1>2. row' = [c \in Commands |->
                  IF c \in S THEN [row[c] EXCEPT !.status = f[c]] ELSE row[c]]
    BY DEF Restatus
  <1>3. snap' = Touched(S)
    BY DEF Restatus
  <1> HIDE DEF f
  <1>4. QED
    BY <1>1, <1>2, <1>3, RestatusPreserves

\* The invariant holds initially.
LEMMA StoreInvariantInit == Init => StoreInvariant
  <1> SUFFICES ASSUME Init PROVE StoreInvariant
    OBVIOUS
  <1>a. EmptyRow \in Row
    BY RevisionAssumption DEF EmptyRow, Row, Status, ResolvedStatus
  <1>b. LegacyRow \in Row
    BY <1>a DEF LegacyRow, Row, Status, ResolvedStatus
  <1>1. EmptyRow \in Row /\ LegacyRow \in Row
    BY <1>a, <1>b
  <1>2. TypeOK
    BY <1>1, RevisionAssumption
    DEF Init, TypeOK, NoPoll, NoSnapshot, AuthorityInit, AuthorityState
  <1>3. \A c \in Commands : RowHistory(c) /\ VerdictEvidenced(c)
    BY DEF Init, RowHistory, VerdictEvidenced, EmptyRow, LegacyRow, ResolvedStatus
  <1>4. QED
    BY <1>2, <1>3 DEF StoreInvariant, Init, NoSnapshot

\* Enqueueing preserves the invariant: only an absent row is written.
LEMMA EnqueuePreserves ==
    ASSUME StoreInvariant, NEW c \in Commands, Enqueue(c)
    PROVE  StoreInvariant'
  <1> DEFINE new == [EmptyRow EXCEPT !.status = "queued",
                       !.revision = IF Entry(c) THEN auth.revision ELSE 0]
  <1>1. auth.revision \in 0 .. MaxRevision /\ 0 \in 0 .. MaxRevision
    BY RevisionAssumption DEF StoreInvariant, TypeOK, AuthorityState
  <1>2. /\ new \in Row
        /\ new.status = "queued" /\ ~new.delivered /\ ~new.acked
    BY <1>1 DEF EmptyRow, Row, Status, ResolvedStatus
  <1>3. row' = [row EXCEPT ![c] = new] /\ row[c].status = "absent"
    BY DEF Enqueue
  <1> HIDE DEF new
  <1>4. row' \in [Commands -> Row] /\ row'[c] = new
    BY <1>2, <1>3 DEF StoreInvariant, TypeOK
  <1>5. before' \in [Commands -> SUBSET Commands]
    BY DEF Enqueue, Append, WithStatus, StoreInvariant, TypeOK
  <1>6. /\ snap' \in [fresh : BOOLEAN, covered : SUBSET Commands,
                      settled : SUBSET Commands]
        /\ snap'.settled \subseteq snap'.covered
    BY DEF Enqueue, Touched, StoreInvariant, TypeOK
  <1>7. TypeOK'
    BY <1>4, <1>5, <1>6 DEF Enqueue, StoreInvariant, TypeOK
  <1>8. ASSUME NEW d \in Commands
        PROVE  RowHistory(d)' /\ VerdictEvidenced(d)'
    <2>1. RowHistory(d) /\ VerdictEvidenced(d) /\ UNCHANGED <<polls, trades>>
      BY DEF StoreInvariant, Enqueue
    <2>2. CASE d # c
      <3>1. row'[d] = row[d]
        BY <1>3, <2>2 DEF StoreInvariant, TypeOK
      <3>2. QED
        BY <2>1, <3>1 DEF RowHistory, VerdictEvidenced
    <2>3. CASE d = c
      <3>1. polls[c] = 0 /\ trades[c] = 0
        BY <1>3, <2>1, <2>3 DEF RowHistory, StoreInvariant, TypeOK
      <3>2. QED
        BY <1>2, <1>4, <2>1, <2>3, <3>1
        DEF RowHistory, VerdictEvidenced, ResolvedStatus
    <2>4. QED
      BY <2>2, <2>3
  <1>9. QED
    BY <1>6, <1>7, <1>8 DEF StoreInvariant

\* Retrying an exit preserves the invariant: only a row that was never
\* delivered returns to the queue.
LEMMA RequeuePreserves ==
    ASSUME StoreInvariant, NEW c \in Commands, Requeue(c)
    PROVE  StoreInvariant'
  <1>1. row \in [Commands -> Row] /\ row[c].status = "expired" /\ ~row[c].delivered
    BY DEF Requeue, StoreInvariant, TypeOK
  <1>2. /\ row' \in [Commands -> Row]
        /\ row'[c].status = "queued" /\ ~row'[c].delivered
        /\ row'[c].acked = row[c].acked
        /\ \A d \in Commands \ {c} : row'[d] = row[d]
    BY <1>1 DEF Requeue, Row, Status
  <1>3. before' \in [Commands -> SUBSET Commands]
    BY DEF Requeue, Append, WithStatus, StoreInvariant, TypeOK
  <1>4. /\ snap' \in [fresh : BOOLEAN, covered : SUBSET Commands,
                      settled : SUBSET Commands]
        /\ snap'.settled \subseteq snap'.covered
    BY DEF Requeue, Touched, StoreInvariant, TypeOK
  <1>5. TypeOK'
    BY <1>2, <1>3, <1>4 DEF Requeue, StoreInvariant, TypeOK
  <1>6. ASSUME NEW d \in Commands
        PROVE  RowHistory(d)' /\ VerdictEvidenced(d)'
    <2>1. RowHistory(d) /\ VerdictEvidenced(d) /\ UNCHANGED <<polls, trades>>
      BY DEF StoreInvariant, Requeue
    <2>2. QED
      BY <1>1, <1>2, <2>1 DEF RowHistory, VerdictEvidenced, ResolvedStatus
  <1>7. QED
    BY <1>4, <1>5, <1>6 DEF StoreInvariant

\* A delivery preserves the invariant: the delivered row was queued, so it
\* had never been handed out.
LEMMA DeliverPreserves ==
    ASSUME StoreInvariant, NEW c \in Commands, NEW vetoed,
           PollDeliver(c, vetoed)
    PROVE  StoreInvariant'
  <1> DEFINE expired == {d \in Candidates \cap before[c] : Refused(d, vetoed)}
  <1>1. row \in [Commands -> Row] /\ row[c].status = "queued"
    BY DEF PollDeliver, Deliverable, Candidates, WithStatus, StoreInvariant, TypeOK
  <1>2. polls[c] = 0 /\ polls \in [Commands -> Nat]
    BY <1>1 DEF StoreInvariant, TypeOK, RowHistory
  <1>3. expired \subseteq Commands
    BY DEF Candidates, WithStatus
  <1>4. /\ row' = [d \in Commands |->
                     CASE d = c         -> [row[d] EXCEPT !.status = "delivered",
                                                          !.delivered = TRUE]
                       [] d \in expired -> [row[d] EXCEPT !.status = "expired"]
                       [] OTHER         -> row[d]]
        /\ snap' = Touched(expired \cup {c})
    BY DEF PollDeliver
  <1>p. polls' = [polls EXCEPT ![c] = polls[c] + 1]
    BY DEF PollDeliver
  <1>w. window' = NoPoll /\ UNCHANGED <<before, trades, auth>>
    BY DEF PollDeliver
  <1>d. c \notin expired
    BY DEF PollDeliver, Deliverable
  <1> HIDE DEF expired
  <1>5. \A d \in Commands : row'[d] \in Row
    BY <1>1, <1>4 DEF Row, Status
  <1>6. /\ row'[c].status = "delivered" /\ row'[c].delivered = TRUE
        /\ row'[c].acked = row[c].acked
    <2>1. row'[c] = [row[c] EXCEPT !.status = "delivered", !.delivered = TRUE]
      BY <1>4, <1>d
    <2>2. row[c] \in Row
      BY <1>1
    <2>3. QED
      BY <2>1, <2>2 DEF Row
  <1>7. ASSUME NEW d \in Commands \ {c}
        PROVE  \/ row'[d] = row[d]
               \/ /\ row'[d].status = "expired"
                  /\ row'[d].delivered = row[d].delivered
                  /\ row'[d].acked = row[d].acked
    BY <1>1, <1>4 DEF Row
  <1>8. /\ snap' \in [fresh : BOOLEAN, covered : SUBSET Commands,
                      settled : SUBSET Commands]
        /\ snap'.settled \subseteq snap'.covered
    BY <1>3, <1>4 DEF Touched, StoreInvariant, TypeOK
  <1>9. row' \in [Commands -> Row]
    BY <1>4, <1>5
  <1>a. polls' \in [Commands -> Nat] /\ polls'[c] = 1
    BY <1>2, <1>p
  <1>b. window' \in [open : BOOLEAN, rows : SUBSET Commands]
    BY <1>w DEF NoPoll
  <1>10. TypeOK'
    BY <1>a, <1>b, <1>w, <1>8, <1>9 DEF StoreInvariant, TypeOK
  <1>11. ASSUME NEW d \in Commands
         PROVE  RowHistory(d)' /\ VerdictEvidenced(d)'
    <2>1. RowHistory(d) /\ VerdictEvidenced(d)
      BY DEF StoreInvariant
    <2>2. CASE d = c
      <3>1. trades'[c] = trades[c]
        BY <1>w
      <3>2. RowHistory(c)'
        BY <1>a, <1>6, <2>1, <2>2, <3>1 DEF RowHistory
      <3>3. VerdictEvidenced(c)'
        BY <1>6 DEF VerdictEvidenced, ResolvedStatus
      <3>4. QED
        BY <2>2, <3>2, <3>3
    <2>3. CASE d # c
      <3>1. polls'[d] = polls[d] /\ trades' = trades
        BY <1>2, <1>p, <1>w, <2>3
      <3>2. QED
        BY <1>7, <2>1, <2>3, <3>1 DEF RowHistory, VerdictEvidenced, ResolvedStatus
    <2>4. QED
      BY <2>2, <2>3
  <1>12. QED
    BY <1>8, <1>10, <1>11 DEF StoreInvariant

\* An acknowledgement preserves the invariant: a safe verdict is the
\* classification of the acknowledgement it is stored with, and the trade
\* counter moves only when no "acked" event exists.
LEMMA AckPreserves ==
    ASSUME StoreInvariant, NEW c \in Commands, NEW a \in Ack, AckCommand(c, a)
    PROVE  StoreInvariant'
  <1> DEFINE next == RequestedStatus(c, a)
  <1>1. a \in Ack
    OBVIOUS
  <1>2. /\ next \in AckStatus
        /\ next \in ResolvedStatus => next = EffectiveStatus(Verb[c], a)
    BY <1>1, RequestedStatusType
  <1>3. TerminalSafe(Verb[c], next, a) \in BOOLEAN
    BY DEF TerminalSafe
  <1>4. row \in [Commands -> Row] /\ row[c].status # "absent"
    BY DEF AckCommand, StoreInvariant, TypeOK
  <1>5. AckedRow(c, a) = [row[c] EXCEPT !.status = next,
                             !.delivered = @ \/ next = "delivered",
                             !.safe = TerminalSafe(Verb[c], next, a),
                             !.sem = a,
                             !.acked = @ \/ next = "acked"]
    BY DEF AckedRow
  <1> HIDE DEF next
  <1>6. /\ AckedRow(c, a) \in Row
        /\ AckedRow(c, a).status = next
        /\ AckedRow(c, a).delivered = (row[c].delivered \/ next = "delivered")
        /\ AckedRow(c, a).sem = a
        /\ AckedRow(c, a).acked = (row[c].acked \/ next = "acked")
    <2>1. row[c] \in Row
      BY <1>4
    <2>2. next \in Status
      BY <1>2 DEF AckStatus, Status
    <2>3. QED
      BY <1>1, <1>3, <1>5, <2>1, <2>2 DEF Row
  <1>7. /\ row' = [row EXCEPT ![c] = AckedRow(c, a)]
        /\ snap' = Touched({c})
        /\ trades' = [trades EXCEPT ![c] = @ + IF CountsAsTrade(c, a) THEN 1 ELSE 0]
        /\ UNCHANGED <<before, window, polls, auth>>
    BY DEF AckCommand
  <1>8. /\ row' \in [Commands -> Row] /\ row'[c] = AckedRow(c, a)
        /\ \A d \in Commands \ {c} : row'[d] = row[d]
    BY <1>4, <1>6, <1>7
  <1>9. /\ snap' \in [fresh : BOOLEAN, covered : SUBSET Commands,
                      settled : SUBSET Commands]
        /\ snap'.settled \subseteq snap'.covered
    BY <1>7 DEF Touched, StoreInvariant, TypeOK
  <1>10. /\ trades' \in [Commands -> Nat]
         /\ \A d \in Commands \ {c} : trades'[d] = trades[d]
         /\ trades'[c] = trades[c] + IF CountsAsTrade(c, a) THEN 1 ELSE 0
    BY <1>7 DEF StoreInvariant, TypeOK
  <1>11. TypeOK'
    BY <1>7, <1>8, <1>9, <1>10 DEF StoreInvariant, TypeOK
  <1>12. ASSUME NEW d \in Commands
         PROVE  RowHistory(d)' /\ VerdictEvidenced(d)'
    <2>1. RowHistory(d) /\ VerdictEvidenced(d) /\ polls' = polls
      BY <1>7 DEF StoreInvariant
    <2>2. CASE d # c
      BY <1>8, <1>10, <2>1, <2>2 DEF RowHistory, VerdictEvidenced
    <2>3. CASE d = c
      <3>1. CountsAsTrade(c, a) => ~row[c].acked /\ next = "acked"
        BY DEF CountsAsTrade, next
      <3>2. trades[c] \in Nat /\ trades[c] <= 1 /\ (trades[c] > 0 => row[c].acked)
        BY <2>1, <2>3 DEF RowHistory, StoreInvariant, TypeOK
      <3>3. trades'[c] <= 1 /\ (trades'[c] > 0 => row'[c].acked)
        <4>1. CASE CountsAsTrade(c, a)
          <5>1. trades[c] = 0 /\ trades'[c] = 1
            BY <1>10, <3>1, <3>2, <4>1
          <5>2. row'[c].acked
            BY <1>6, <1>8, <3>1, <4>1
          <5>3. QED
            BY <5>1, <5>2
        <4>2. CASE ~CountsAsTrade(c, a)
          <5>1. trades'[c] = trades[c]
            BY <1>10, <3>2, <4>2
          <5>2. row[c].acked => row'[c].acked
            BY <1>6, <1>8
          <5>3. QED
            BY <3>2, <5>1, <5>2
        <4>3. QED
          BY <4>1, <4>2
      <3>4. next # "absent" /\ next # "queued"
        BY <1>2 DEF AckStatus, ResolvedStatus
      <3>5. RowHistory(c)'
        BY <1>6, <1>8, <2>1, <2>3, <3>3, <3>4 DEF RowHistory
      <3>6. VerdictEvidenced(c)'
        BY <1>1, <1>2, <1>6, <1>8 DEF VerdictEvidenced
      <3>7. QED
        BY <2>3, <3>5, <3>6
    <2>4. QED
      BY <2>2, <2>3
  <1>13. QED
    BY <1>9, <1>11, <1>12 DEF StoreInvariant

\* Every step of the queue preserves the invariant.
LEMMA StoreInvariantStep ==
    ASSUME StoreInvariant, [Next]_vars
    PROVE  StoreInvariant'
  <1> USE DEF StoreInvariant
  <1>1. ASSUME NEW c \in Commands, Enqueue(c) PROVE StoreInvariant'
    BY <1>1, EnqueuePreserves
  <1>2. ASSUME NEW c \in Commands, Requeue(c) PROVE StoreInvariant'
    BY <1>2, RequeuePreserves
  <1>3. ASSUME NEW c \in Commands, NEW a \in Acks[c], AckCommand(c, a)
        PROVE  StoreInvariant'
    BY <1>3, AckPreserves, StoreAssumption
  <1>4. ASSUME NEW c \in Commands, TimePasses(c) PROVE StoreInvariant'
    <2>1. row \in [Commands -> Row]
      BY DEF TypeOK
    <2>2. /\ row' \in [Commands -> Row]
          /\ \A d \in Commands : /\ row'[d].status = row[d].status
                                 /\ row'[d].delivered = row[d].delivered
                                 /\ row'[d].acked = row[d].acked
                                 /\ row'[d].safe = row[d].safe
                                 /\ row'[d].sem = row[d].sem
      BY <1>4, <2>1 DEF TimePasses, Row
    <2>3. TypeOK'
      BY <1>4, <2>2 DEF TimePasses, TypeOK
    <2>4. ASSUME NEW d \in Commands
          PROVE  RowHistory(d)' /\ VerdictEvidenced(d)'
      BY <1>4, <2>2 DEF TimePasses, RowHistory, VerdictEvidenced
    <2>5. QED
      BY <1>4, <2>3, <2>4 DEF TimePasses
  <1>5. CASE PollBegin
    <2>1. Overdue \in SUBSET Commands
      BY DEF Overdue, WithStatus
    <2>2. window' \in [open : BOOLEAN, rows : SUBSET Commands]
      BY <1>5 DEF PollBegin, WithStatus
    <2>3. QED
      BY <1>5, <2>1, <2>2, ExpirePreserves DEF PollBegin, TypeOK
  <1>6. CASE PollClosed
    <2>1. Pending(TRUE) \in SUBSET Commands
      BY DEF Pending, WithStatus
    <2>2. window' \in [open : BOOLEAN, rows : SUBSET Commands]
      BY <1>6 DEF PollClosed, NoPoll
    <2>3. QED
      BY <1>6, <2>1, <2>2, QuarantinePreserves DEF PollClosed, TypeOK
  <1>7. ASSUME NEW vetoed, PollNothing(vetoed) PROVE StoreInvariant'
    <2> DEFINE S == {d \in Candidates : Refused(d, vetoed)}
    <2>1. S \in SUBSET Commands
      BY DEF Candidates, WithStatus
    <2>2. window' \in [open : BOOLEAN, rows : SUBSET Commands]
      BY <1>7 DEF PollNothing, NoPoll
    <2>3. Restatus(S, ExpiredStatus) /\ UNCHANGED <<before, trades, polls, auth>>
      BY <1>7 DEF PollNothing
    <2> HIDE DEF S
    <2>4. QED
      BY <2>1, <2>2, <2>3, ExpirePreserves DEF TypeOK
  <1>8. ASSUME NEW c \in Commands, NEW vetoed, PollDeliver(c, vetoed)
        PROVE  StoreInvariant'
    BY <1>8, DeliverPreserves
  <1>9. CASE CleanupExpired
    <2>1. Overdue \in SUBSET Commands
      BY DEF Overdue, WithStatus
    <2>2. QED
      BY <1>9, <2>1, ExpirePreserves DEF CleanupExpired, TypeOK
  <1>10. ASSUME NEW S \in SUBSET Commands, QuarantineStaleDelivered(S)
         PROVE  StoreInvariant'
    BY <1>10, QuarantinePreserves DEF QuarantineStaleDelivered, TypeOK
  <1>11. ASSUME NEW S \in SUBSET Commands, RecordSnapshot(S) PROVE StoreInvariant'
    <2>1. /\ snap' \in [fresh : BOOLEAN, covered : SUBSET Commands,
                        settled : SUBSET Commands]
          /\ snap'.settled \subseteq snap'.covered
      BY <1>11 DEF RecordSnapshot
    <2>2. UNCHANGED <<row, before, window, trades, polls, auth>>
      BY <1>11 DEF RecordSnapshot
    <2>3. QED
      BY <2>1, <2>2 DEF TypeOK, RowHistory, VerdictEvidenced
  <1>12. ASSUME NEW p \in BOOLEAN, NEW i \in BOOLEAN, NEW e \in BOOLEAN,
                PurgePending(p, i, e)
         PROVE  StoreInvariant'
    <2> DEFINE S == {c \in Pending(p) : /\ row[c].status = "delivered" => i
                                        /\ e => Entry(c)}
    <2>1. S \in SUBSET Commands
      BY DEF Pending, WithStatus
    <2>2. /\ Restatus(S, ExpiredStatus)
          /\ UNCHANGED <<before, window, trades, polls, auth>>
      BY <1>12 DEF PurgePending
    <2> HIDE DEF S
    <2>3. QED
      BY <2>1, <2>2, ExpirePreserves DEF TypeOK
  <1>13. ASSUME NEW p \in BOOLEAN, DisableEgress(p) PROVE StoreInvariant'
    <2>1. Pending(p) \in SUBSET Commands
      BY DEF Pending, WithStatus
    <2>2. auth' \in AuthorityState
      BY <1>13, RevisionAssumption DEF DisableEgress, TypeOK, AuthorityState
    <2>3. QED
      BY <1>13, <2>1, <2>2, QuarantinePreserves DEF DisableEgress, TypeOK
  <1>14. CASE AuthorityStep
    BY <1>14, AuthorityStepType
    DEF AuthorityStep, TypeOK, RowHistory, VerdictEvidenced
  <1>15. CASE SnapshotStale
    <2>1. snap' = NoSnapshot /\ UNCHANGED <<row, before, window, trades, polls, auth>>
      BY <1>15 DEF SnapshotStale
    <2>2. QED
      BY <2>1 DEF NoSnapshot, TypeOK, RowHistory, VerdictEvidenced
  <1>16. CASE UNCHANGED vars
    BY <1>16 DEF vars, TypeOK, RowHistory, VerdictEvidenced
  <1>17. Candidates \subseteq Commands
    BY DEF Candidates, WithStatus
  <1>18. QED
    BY <1>1, <1>2, <1>3, <1>4, <1>5, <1>6, <1>7, <1>8, <1>9, <1>10, <1>11,
       <1>12, <1>13, <1>14, <1>15, <1>16, <1>17
    DEF Next, Background, Poll

\* The queue's inductive invariant holds of every behaviour.
THEOREM StoreInvariantHolds == Spec => []StoreInvariant
  <1>1. StoreInvariant /\ [Next]_vars => StoreInvariant'
    BY StoreInvariantStep
  <1>2. QED
    BY <1>1, StoreInvariantInit, PTL DEF Spec

\* The rows, the queue order, the snapshot and the authority keep their types.
THEOREM StoreTypeOK == Spec => []TypeOK
  <1>1. StoreInvariant => TypeOK
    BY DEF StoreInvariant
  <1>2. QED
    BY <1>1, StoreInvariantHolds, PTL

\* poll_next_command never hands a command to the EA twice.
THEOREM AtMostOnceDelivery == Spec => []DeliveredAtMostOnce
  <1>1. StoreInvariant => DeliveredAtMostOnce
    BY DEF StoreInvariant, RowHistory, DeliveredAtMostOnce
  <1>2. QED
    BY <1>1, StoreInvariantHolds, PTL

\* trades_executed counts a filled entry once.
THEOREM TradeCounting == Spec => []TradesCountedOnce
  <1>1. StoreInvariant => TradesCountedOnce
    BY DEF StoreInvariant, RowHistory, TradesCountedOnce
  <1>2. QED
    BY <1>1, StoreInvariantHolds, PTL

\* A delivered command stays in the uncertainty fence until typed evidence
\* resolves it.
THEOREM DeliveryRemembered == Spec => []DeliveryNeverForgotten
  <1>1. StoreInvariant => DeliveryNeverForgotten
    BY DEF StoreInvariant, RowHistory, VerdictEvidenced, DeliveryNeverForgotten,
           Uncertain
  <1>2. QED
    BY <1>1, StoreInvariantHolds, PTL

\* Rows a housekeeping transaction rewrites were queued or delivered.
LEMMA HousekeepingScope ==
    /\ Overdue \subseteq WithStatus({"queued", "delivered"})
    /\ \A p : Pending(p) \subseteq WithStatus({"queued", "delivered"})
    /\ Candidates \subseteq WithStatus({"queued"})
  BY DEF Overdue, Pending, Candidates

\* A row outside the rewritten set keeps its contents.
LEMMA RestatusFrame ==
    ASSUME NEW S, NEW c \in Commands, c \notin S,
           Restatus(S, ExpiredStatus) \/ Restatus(S, QuarantinedStatus)
    PROVE  row'[c] = row[c]
  BY DEF Restatus

\* An unknown outcome is never downgraded: reconcile_required leaves only for
\* acked, on an exact positive-ticket success.
LEMMA ReconcileStickyStep ==
    ASSUME StoreInvariant, StoreInvariant', [Next]_vars,
           NEW c \in Commands, row[c].status = "reconcile_required"
    PROVE  \/ row'[c].status = "reconcile_required"
           \/ /\ row'[c].status = "acked"
              /\ row'[c].safe
              /\ ExactSuccess(c, row'[c].sem)
  <1> DEFINE Goal == \/ row'[c].status = "reconcile_required"
                     \/ /\ row'[c].status = "acked"
                        /\ row'[c].safe
                        /\ ExactSuccess(c, row'[c].sem)
  <1> SUFFICES Goal
    OBVIOUS
  <1>0. row \in [Commands -> Row]
    BY DEF StoreInvariant, TypeOK
  <1>f. row'[c] = row[c] => Goal
    OBVIOUS
  <1>s. c \notin WithStatus({"queued", "delivered"}) /\ c \notin WithStatus({"queued"})
    BY DEF WithStatus
  <1>1. ASSUME NEW d \in Commands, Enqueue(d) \/ Requeue(d) PROVE Goal
    <2>1. d # c
      BY <1>1 DEF Enqueue, Requeue
    <2>2. row'[c] = row[c]
      BY <1>0, <1>1, <2>1 DEF Enqueue, Requeue
    <2>3. QED
      BY <1>f, <2>2
  <1>2. ASSUME NEW d \in Commands, TimePasses(d) PROVE Goal
    <2>1. row'[c].status = row[c].status
      BY <1>0, <1>2 DEF TimePasses, Row
    <2>2. QED
      BY <2>1
  <1>3. ASSUME NEW d \in Commands, NEW a \in Acks[d], AckCommand(d, a) PROVE Goal
    <2>1. CASE d # c
      <3>1. row'[c] = row[c]
        BY <1>0, <1>3, <2>1 DEF AckCommand
      <3>2. QED
        BY <1>f, <3>1
    <2>2. CASE d = c
      <3>1. a \in Ack
        BY StoreAssumption
      <3>2. row'[c] = AckedRow(c, a) /\ row[c] \in Row
        BY <1>0, <1>3, <2>2 DEF AckCommand
      <3>3. /\ row'[c].status = RequestedStatus(c, a)
            /\ row'[c].sem = a
            /\ row'[c].safe = TerminalSafe(Verb[c], RequestedStatus(c, a), a)
        BY <3>2 DEF AckedRow, Row
      <3>4. CASE EffectiveStatus(Verb[c], a) # "acked"
        <4>1. RequestedStatus(c, a) = "reconcile_required"
          BY <3>4 DEF RequestedStatus
        <4>2. QED
          BY <3>3, <4>1
      <3>5. CASE EffectiveStatus(Verb[c], a) = "acked"
        <4>1. RequestedStatus(c, a) = "acked"
          BY <3>5 DEF RequestedStatus, ResolvedStatus
        <4>2. SuccessAttested(Verb[c], a)
          BY <3>5 DEF EffectiveStatus
        <4>3. TerminalSafe(Verb[c], "acked", a)
          BY <3>5, <4>2 DEF TerminalSafe, SuccessAttested, ResolvedStatus
        <4>4. QED
          BY <3>3, <3>5, <4>1, <4>3 DEF ExactSuccess
      <3>6. QED
        BY <3>4, <3>5
    <2>3. QED
      BY <2>1, <2>2
  <1>4. CASE PollBegin \/ CleanupExpired
    <2>1. c \notin Overdue
      BY <1>s, HousekeepingScope
    <2>2. QED
      BY <1>4, <1>f, <2>1, RestatusFrame DEF PollBegin, CleanupExpired
  <1>5. CASE PollClosed
    <2>1. c \notin Pending(TRUE)
      BY <1>s, HousekeepingScope
    <2>2. QED
      BY <1>5, <1>f, <2>1, RestatusFrame DEF PollClosed
  <1>d. ASSUME NEW p \in BOOLEAN, DisableEgress(p) PROVE Goal
    <2>1. c \notin Pending(p)
      BY <1>s, HousekeepingScope
    <2>2. QED
      BY <1>d, <1>f, <2>1, RestatusFrame DEF DisableEgress
  <1>6. ASSUME NEW vetoed \in SUBSET Candidates, PollNothing(vetoed) PROVE Goal
    <2>1. c \notin {d \in Candidates : Refused(d, vetoed)}
      BY <1>s, HousekeepingScope
    <2>2. QED
      BY <1>6, <1>f, <2>1, RestatusFrame DEF PollNothing
  <1>7. ASSUME NEW vetoed \in SUBSET Candidates, NEW d \in Candidates,
               PollDeliver(d, vetoed)
        PROVE  Goal
    <2>1. c \notin Candidates
      BY <1>s, HousekeepingScope
    <2>2. d # c
      BY <1>7, <2>1 DEF PollDeliver, Deliverable
    <2>3. row'[c] = row[c]
      BY <1>7, <2>1, <2>2 DEF PollDeliver
    <2>4. QED
      BY <1>f, <2>3
  <1>8. ASSUME NEW S \in SUBSET Commands, QuarantineStaleDelivered(S) PROVE Goal
    <2>1. c \notin S
      BY <1>8 DEF QuarantineStaleDelivered, WithStatus
    <2>2. QED
      BY <1>8, <1>f, <2>1, RestatusFrame DEF QuarantineStaleDelivered
  <1>9. ASSUME NEW p \in BOOLEAN, NEW i \in BOOLEAN, NEW e \in BOOLEAN,
               PurgePending(p, i, e)
        PROVE  Goal
    <2> DEFINE S == {d \in Pending(p) : /\ row[d].status = "delivered" => i
                                        /\ e => Entry(d)}
    <2>1. c \notin S
      BY <1>s, HousekeepingScope
    <2>2. Restatus(S, ExpiredStatus)
      BY <1>9 DEF PurgePending
    <2>3. QED
      BY <1>f, <2>1, <2>2, RestatusFrame
  <1>10. CASE AuthorityStep
    BY <1>10, <1>f DEF AuthorityStep
  <1>11. CASE SnapshotStale
    BY <1>11, <1>f DEF SnapshotStale
  <1>12. CASE UNCHANGED vars
    BY <1>12, <1>f DEF vars
  <1>13. ASSUME NEW S \in SUBSET Commands, RecordSnapshot(S) PROVE Goal
    BY <1>13, <1>f DEF RecordSnapshot
  <1> HIDE DEF Goal
  <1>14. CASE Poll
    BY <1>4, <1>5, <1>6, <1>7, <1>14 DEF Poll
  <1>15. QED
    BY <1>1, <1>2, <1>3, <1>4, <1>8, <1>9, <1>10, <1>11, <1>12, <1>13, <1>14, <1>d
    DEF Next, Background

\* reconcile_required is sticky in every behaviour of the queue.
THEOREM UnknownOutcomeSticky == Spec => ReconcileSticky
  <1> DEFINE Sticky == \A c \in Commands : row[c].status = "reconcile_required" =>
                          \/ row'[c].status = "reconcile_required"
                          \/ /\ row'[c].status = "acked"
                             /\ row'[c].safe
                             /\ ExactSuccess(c, row'[c].sem)
  <1>1. StoreInvariant /\ StoreInvariant' /\ [Next]_vars => [Sticky]_vars
    BY ReconcileStickyStep
  <1>2. QED
    BY <1>1, StoreInvariantHolds, PTL DEF Spec, ReconcileSticky

\* Only a delivery moves the poll count of a command, and only of its own.
LEMMA OnlyDeliveryPolls ==
    ASSUME StoreInvariant, [Next]_vars, NEW e \in Commands, polls'[e] > polls[e]
    PROVE  \E vetoed \in SUBSET Candidates : PollDeliver(e, vetoed)
  <1>1. polls \in [Commands -> Nat]
    BY DEF StoreInvariant, TypeOK
  <1>2. polls' # polls
    BY <1>1
  <1>3. ASSUME NEW c \in Candidates, NEW vetoed \in SUBSET Candidates,
               PollDeliver(c, vetoed)
        PROVE  c = e
    <2>1. polls' = [polls EXCEPT ![c] = polls[c] + 1]
      BY <1>3 DEF PollDeliver
    <2>2. c # e => polls'[e] = polls[e]
      BY <1>1, <2>1
    <2>3. QED
      BY <1>1, <2>2
  <1>4. CASE Poll
    BY <1>2, <1>3, <1>4 DEF Poll, PollBegin, PollClosed, PollNothing
  <1>5. ~Poll => polls' = polls
    BY DEF Next, Background, Enqueue, Requeue, TimePasses, AckCommand, CleanupExpired,
           QuarantineStaleDelivered, RecordSnapshot, PurgePending, DisableEgress,
           AuthorityStep, SnapshotStale, vars
  <1>6. QED
    BY <1>2, <1>4, <1>5

\* What the fence lets an entry pass, the entry's admission can see: every
\* command that was ever handed out is known to it.
LEMMA FenceAdmitsKnown ==
    ASSUME StoreInvariant, NEW e \in Commands, NEW d \in Commands,
           ~Blocked(Symbol[e]), polls[d] > 0
    PROVE  KnownTo(d, e)
  <1>1. \/ Uncertain(row[d])
        \/ row[d].status \in ResolvedStatus /\ row[d].safe
    BY DEF StoreInvariant, RowHistory, Uncertain
  <1>2. snap.settled \subseteq snap.covered
    BY DEF StoreInvariant
  <1>3. CASE row[d].status \in ResolvedStatus /\ row[d].safe
    BY <1>3 DEF KnownTo
  <1>4. CASE Uncertain(row[d]) /\ Reconciled(d)
    BY <1>2, <1>4 DEF Reconciled, KnownTo
  <1>5. CASE Uncertain(row[d]) /\ ~Reconciled(d)
    <2>1. d \in Unresolved
      BY <1>5 DEF Unresolved
    <2>2. Contained /\ Symbol[d] # Symbol[e]
      BY <2>1 DEF Blocked
    <2>3. QED
      BY <1>5, <2>1, <2>2 DEF Contained, KnownTo
  <1>6. QED
    BY <1>1, <1>3, <1>4, <1>5

\* No entry leaves the queue while another handed-out command could still have
\* an outcome its admission has not seen.
THEOREM EntryFenceHolds == Spec => EntryFence
  <1> DEFINE Fence == \A e \in Commands : Entry(e) /\ polls'[e] > polls[e] =>
                          \A d \in Commands \ {e} : polls[d] > 0 => KnownTo(d, e)
  <1>1. ASSUME StoreInvariant, [Next]_vars PROVE Fence
    <2> SUFFICES ASSUME NEW e \in Commands, Entry(e), polls'[e] > polls[e],
                        NEW d \in Commands \ {e}, polls[d] > 0
                 PROVE  KnownTo(d, e)
      OBVIOUS
    <2>1. PICK vetoed \in SUBSET Candidates : PollDeliver(e, vetoed)
      BY <1>1, OnlyDeliveryPolls
    <2>2. ~Blocked(Symbol[e])
      BY <2>1 DEF PollDeliver, Deliverable
    <2>3. QED
      BY <1>1, <2>2, FenceAdmitsKnown
  <1>2. StoreInvariant /\ [Next]_vars => [Fence]_vars
    BY <1>1
  <1>3. QED
    BY <1>2, StoreInvariantHolds, PTL DEF Spec, EntryFence

\* An entry is never delivered under another revision than the one it was
\* approved at.
THEOREM EntryRevisionHolds == Spec => EntryDiesWithItsRevision
  <1> DEFINE Dies == \A c \in Commands :
                        /\ Entry(c)
                        /\ row[c].status = "queued"
                        /\ row[c].revision # auth.revision
                        => polls'[c] = polls[c]
  <1>1. ASSUME StoreInvariant, StoreInvariant', [Next]_vars PROVE Dies
    <2> SUFFICES ASSUME NEW c \in Commands, Entry(c), row[c].status = "queued",
                        row[c].revision # auth.revision
                 PROVE  polls'[c] = polls[c]
      OBVIOUS
    <2>1. ~(polls'[c] > polls[c])
      BY <1>1, OnlyDeliveryPolls DEF PollDeliver, Deliverable, Refused
    <2>2. polls[c] = 0
      BY <1>1 DEF StoreInvariant, RowHistory, TypeOK
    <2>3. polls'[c] \in Nat
      BY <1>1 DEF StoreInvariant, TypeOK
    <2>4. QED
      BY <2>1, <2>2, <2>3
  <1>2. StoreInvariant /\ StoreInvariant' /\ [Next]_vars => [Dies]_vars
    BY <1>1
  <1>3. QED
    BY <1>2, StoreInvariantHolds, PTL DEF Spec, EntryDiesWithItsRevision
=============================================================================
