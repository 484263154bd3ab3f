------------------------ MODULE FeatureOutboxProofs ------------------------
(***************************************************************************)
(* The feature push outbox for every set of keys and workers, every retry  *)
(* limit and any number of deaths: a row is settled for a reason.          *)
(***************************************************************************)
EXTENDS FeatureOutbox, TLAPS

\* What a worker may still hold of a row: a version the table has, or had;
\* unless the row was overtaken, the one it has, with no more attempts than the
\* row counts.
HoldsOf(claim) ==
    /\ claim.version <= outbox[claim.key].version
    /\ claim.key \notin overtaken =>
          /\ claim.version = outbox[claim.key].version
          /\ claim.attempts <= outbox[claim.key].attempts

\* Every claim in a batch is one of the row it names.
BatchesHold == \A w \in Workers : \A claim \in batch[w] : HoldsOf(claim)

\* A payload a worker is done with: pushed, or passed over in a dry run.
Done(k) == online[k] \cup dryRuns[k]

\* So is every verdict, and a payload reported as a success is done with.
VerdictsHold ==
    \A w \in Workers : \A v \in verdict[w] :
        HoldsOf(v.claim) /\ (v.ok => v.claim.version \in Done(v.claim.key))

\* A row with a status has a payload.
RowsHavePayload == \A k \in Keys : outbox[k].status # "none" => outbox[k].version > 0

OutboxInvariant ==
    /\ OutboxTypeOK
    /\ RowsHavePayload
    /\ BatchesHold
    /\ VerdictsHold
    /\ SettledForAReason

\* The invariant holds of an empty outbox.
LEMMA OutboxInvariantInit == OutboxInit => OutboxInvariant
  <1> SUFFICES ASSUME OutboxInit PROVE OutboxInvariant
    OBVIOUS
  <1>1. OutboxTypeOK
    <2>1. 0 \in 0..MaxVersion /\ 0 \in 0..MaxDeaths
      BY OutboxAssumption
    <2>2. QED
      BY <2>1 DEF OutboxInit, OutboxTypeOK, OutboxStatus
  <1>2. RowsHavePayload /\ BatchesHold /\ VerdictsHold /\ SettledForAReason
    BY DEF OutboxInit, RowsHavePayload, BatchesHold, VerdictsHold, SettledForAReason
  <1>3. QED
    BY <1>1, <1>2 DEF OutboxInvariant

\* A new payload replaces the row and keeps the invariant.
LEMMA EnqueuePreserves ==
    ASSUME OutboxInvariant, NEW k \in Keys, EnqueueFeaturePush(k)
    PROVE  OutboxInvariant'
  <1> USE OutboxAssumption
  <1>1. /\ outbox' \in [Keys -> [status : OutboxStatus, version : 0..MaxVersion,
                                 attempts : Nat, lapsed : BOOLEAN]]
        /\ outbox'[k].status = "queued"
        /\ outbox'[k].version = outbox[k].version + 1
        /\ outbox[k].version \in Nat
        /\ \A j \in Keys : j # k => outbox'[j] = outbox[j]
        /\ overtaken' \subseteq Keys
        /\ \A j \in Keys : j # k => (j \in overtaken' <=> j \in overtaken)
        /\ Busy(k) => k \in overtaken'
        /\ UNCHANGED <<batch, verdict, online, dryRuns, deaths>>
    BY DEF OutboxInvariant, OutboxTypeOK, OutboxStatus, EnqueueFeaturePush
  <1>2. OutboxTypeOK'
    BY <1>1 DEF OutboxInvariant, OutboxTypeOK
  <1>3. ASSUME NEW claim \in Claim, HoldsOf(claim), claim.key = k => Busy(k)
        PROVE  HoldsOf(claim)'
    <2>1. claim.key \in Keys /\ claim.version \in Nat /\ claim.version > 0
      BY DEF Claim
    <2>2. CASE claim.key = k
      BY <1>1, <1>3, <2>1, <2>2 DEF HoldsOf
    <2>3. CASE claim.key # k
      BY <1>1, <1>3, <2>1, <2>3 DEF HoldsOf
    <2>4. QED
      BY <2>2, <2>3
  <1>4. BatchesHold' /\ VerdictsHold'
    <2>1. \A w \in Workers : \A claim \in batch[w] :
             claim \in Claim /\ (claim.key = k => Busy(k))
      BY DEF OutboxInvariant, OutboxTypeOK, Busy
    <2>2. \A w \in Workers : \A v \in verdict[w] :
             v.claim \in Claim /\ (v.claim.key = k => Busy(k))
      BY DEF OutboxInvariant, OutboxTypeOK, Busy
    <2>3. BatchesHold'
      BY <1>1, <1>3, <2>1 DEF OutboxInvariant, BatchesHold
    <2>4. VerdictsHold'
      BY <1>1, <1>3, <2>2 DEF OutboxInvariant, VerdictsHold, Done
    <2>5. QED
      BY <2>3, <2>4
  <1>5. RowsHavePayload'
    BY <1>1 DEF OutboxInvariant, RowsHavePayload
  <1>6. SettledForAReason'
    BY <1>1 DEF OutboxInvariant, SettledForAReason
  <1>7. QED
    BY <1>2, <1>4, <1>5, <1>6 DEF OutboxInvariant

\* So does a claim that gets old,
LEMMA LapsePreserves ==
    ASSUME OutboxInvariant, NEW k \in Keys, ClaimLapses(k)
    PROVE  OutboxInvariant'
  <1>1. /\ outbox' \in [Keys -> [status : OutboxStatus, version : 0..MaxVersion,
                                 attempts : Nat, lapsed : BOOLEAN]]
        /\ \A j \in Keys : /\ outbox'[j].status = outbox[j].status
                           /\ outbox'[j].version = outbox[j].version
                           /\ outbox'[j].attempts = outbox[j].attempts
        /\ UNCHANGED <<batch, verdict, online, dryRuns, overtaken, deaths>>
    BY DEF OutboxInvariant, OutboxTypeOK, ClaimLapses
  <1>2. OutboxTypeOK'
    BY <1>1 DEF OutboxInvariant, OutboxTypeOK
  <1>3. \A claim \in Claim : HoldsOf(claim)' = HoldsOf(claim)
    BY <1>1 DEF HoldsOf, Claim
  <1>4. /\ \A w \in Workers : batch[w] \subseteq Claim
        /\ \A w \in Workers : \A v \in verdict[w] : v.claim \in Claim
    BY DEF OutboxInvariant, OutboxTypeOK
  <1>5. BatchesHold' /\ VerdictsHold'
    BY <1>1, <1>3, <1>4 DEF OutboxInvariant, BatchesHold, VerdictsHold, Done
  <1>6. RowsHavePayload' /\ SettledForAReason'
    BY <1>1 DEF OutboxInvariant, RowsHavePayload, SettledForAReason
  <1>7. QED
    BY <1>2, <1>5, <1>6 DEF OutboxInvariant

\* What claim_feature_push_batch makes of a row.
LEMMA ClaimedRow ==
    ASSUME NEW r \in [status : OutboxStatus, version : 0..MaxVersion,
                      attempts : Nat, lapsed : BOOLEAN]
    PROVE  LET s == [r EXCEPT !.status = "claimed", !.lapsed = FALSE, !.attempts = @ + 1]
           IN  /\ s.status = "claimed"
               /\ s.version = r.version
               /\ s.attempts = r.attempts + 1
               /\ s \in [status : OutboxStatus, version : 0..MaxVersion,
                         attempts : Nat, lapsed : BOOLEAN]
  <1>1. r.attempts + 1 \in Nat /\ "claimed" \in OutboxStatus
    BY DEF OutboxStatus
  <1>2. [r EXCEPT !.status = "claimed", !.lapsed = FALSE, !.attempts = @ + 1]
          \in [status : OutboxStatus, version : 0..MaxVersion,
               attempts : Nat, lapsed : BOOLEAN]
    BY <1>1, Zenon
  <1>3. QED
    BY <1>2

\* A claim raises the attempts of the rows it takes, also of a row that a slow
\* worker still holds.
LEMMA ClaimPreserves ==
    ASSUME OutboxInvariant, NEW w \in Workers, NEW dry \in BOOLEAN,
           ClaimFeaturePushBatch(w, dry)
    PROVE  OutboxInvariant'
  <1> DEFINE ks == {k \in Keys : Claimable(k)}
  <1> DEFINE taken(k) == [key |-> k, version |-> outbox[k].version,
                          attempts |-> outbox[k].attempts + 1, dry |-> dry]
  <1>0. outbox \in [Keys -> [status : OutboxStatus, version : 0..MaxVersion,
                             attempts : Nat, lapsed : BOOLEAN]]
    BY DEF OutboxInvariant, OutboxTypeOK
  <1>1. /\ outbox' = [k \in Keys |->
                        IF k \in ks
                        THEN [outbox[k] EXCEPT !.status = "claimed", !.lapsed = FALSE,
                                               !.attempts = @ + 1]
                        ELSE outbox[k]]
        /\ batch' = [batch EXCEPT ![w] = {taken(k) : k \in ks}]
        /\ UNCHANGED <<verdict, online, dryRuns, overtaken, deaths>>
    BY DEF ClaimFeaturePushBatch
  <1>a. \A k \in ks : k \in Keys /\ outbox[k].status # "none"
    BY DEF Claimable
  <1> HIDE DEF ks
  <1>2. ASSUME NEW k \in Keys
        PROVE  /\ outbox'[k] \in [status : OutboxStatus, version : 0..MaxVersion,
                                  attempts : Nat, lapsed : BOOLEAN]
               /\ outbox'[k].version = outbox[k].version
               /\ outbox'[k].attempts >= outbox[k].attempts
               /\ k \in ks => /\ outbox'[k].status = "claimed"
                              /\ outbox'[k].attempts = outbox[k].attempts + 1
               /\ k \notin ks => outbox'[k] = outbox[k]
    <2>0. outbox[k].attempts \in Nat
      BY <1>0
    <2>1. CASE k \in ks
      <3>1. outbox'[k] = [outbox[k] EXCEPT !.status = "claimed", !.lapsed = FALSE,
                                           !.attempts = @ + 1]
        BY <1>1, <2>1
      <3>2. /\ outbox[k] \in [status : OutboxStatus, version : 0..MaxVersion,
                               attempts : Nat, lapsed : BOOLEAN]
            /\ "claimed" \in OutboxStatus
        BY <1>0 DEF OutboxStatus
      <3>3. /\ outbox'[k].status = "claimed"
            /\ outbox'[k].version = outbox[k].version
            /\ outbox'[k].attempts = outbox[k].attempts + 1
            /\ outbox'[k] \in [status : OutboxStatus, version : 0..MaxVersion,
                               attempts : Nat, lapsed : BOOLEAN]
        BY <3>1, <3>2, ClaimedRow
      <3>4. QED
        BY <2>0, <2>1, <3>3
    <2>2. CASE k \notin ks
      <3>1. outbox'[k] = outbox[k]
        BY <1>1, <2>2
      <3>2. QED
        BY <1>0, <2>0, <2>2, <3>1
    <2>3. QED
      BY <2>1, <2>2
  <1>3. \A k \in ks : k \in Keys /\ outbox[k].version \in 1..MaxVersion
    BY <1>0, <1>a DEF OutboxInvariant, RowsHavePayload
  <1>4. \A k \in ks : taken(k) \in Claim
    BY <1>0, <1>3 DEF Claim
  <1>5. OutboxTypeOK'
    <2>1. outbox' \in [Keys -> [status : OutboxStatus, version : 0..MaxVersion,
                                attempts : Nat, lapsed : BOOLEAN]]
      BY <1>1, <1>2
    <2>2. batch' \in [Workers -> SUBSET Claim]
      BY <1>1, <1>4 DEF OutboxInvariant, OutboxTypeOK
    <2>3. QED
      BY <1>1, <2>1, <2>2 DEF OutboxInvariant, OutboxTypeOK
  <1>6. ASSUME NEW claim \in Claim, HoldsOf(claim)
        PROVE  HoldsOf(claim)'
    <2>1. claim.key \in Keys /\ claim.attempts \in Nat
      BY DEF Claim
    <2>2. /\ outbox[claim.key].attempts \in Nat
          /\ outbox'[claim.key].attempts \in Nat
          /\ outbox'[claim.key].version = outbox[claim.key].version
          /\ outbox'[claim.key].attempts >= outbox[claim.key].attempts
      BY <1>0, <1>2, <2>1
    <2>3. overtaken' = overtaken
      BY <1>1
    <2>4. QED
      BY <1>6, <2>1, <2>2, <2>3 DEF HoldsOf
  <1>7. VerdictsHold'
    <2>1. \A u \in Workers : \A v \in verdict[u] : v.claim \in Claim
      BY DEF OutboxInvariant, OutboxTypeOK
    <2>2. QED
      BY <1>1, <1>6, <2>1 DEF OutboxInvariant, VerdictsHold, Done
  <1>8. BatchesHold'
    <2>1. ASSUME NEW u \in Workers, NEW claim \in batch'[u]
          PROVE  HoldsOf(claim)'
      <3>1. CASE u # w
        <4>1. claim \in batch[u] /\ batch[u] \subseteq Claim
          BY <1>1, <2>1, <3>1 DEF OutboxInvariant, OutboxTypeOK
        <4>2. QED
          BY <1>6, <4>1 DEF OutboxInvariant, BatchesHold
      <3>2. CASE u = w
        <4>1. PICK k \in ks : claim = taken(k)
          BY <1>1, <2>1, <3>2 DEF OutboxInvariant, OutboxTypeOK
        <4>2. claim.key = k /\ k \in Keys
          BY <1>3, <4>1
        <4>3. /\ claim.version = outbox'[k].version
              /\ claim.attempts = outbox'[k].attempts
              /\ outbox'[k].version \in Nat
              /\ outbox'[k].attempts \in Nat
          BY <1>2, <4>1, <4>2
        <4>4. QED
          BY <4>2, <4>3 DEF HoldsOf
      <3>3. QED
        BY <3>1, <3>2
    <2>2. QED
      BY <2>1 DEF BatchesHold
  <1>9. RowsHavePayload' /\ SettledForAReason'
    <2>1. ASSUME NEW k \in Keys, k \in ks
          PROVE  outbox'[k].status = "claimed" /\ outbox'[k].version > 0
      BY <1>2, <1>3, <2>1
    <2>2. QED
      BY <1>1, <1>2, <2>1 DEF OutboxInvariant, RowsHavePayload, SettledForAReason
  <1>10. QED
    BY <1>5, <1>7, <1>8, <1>9 DEF OutboxInvariant

\* A worker that is done with a claimed row, in one way or the other, reports
\* what it did.
LEMMA VerdictPreserves ==
    ASSUME OutboxInvariant, NEW w \in Workers, NEW claim \in batch[w], NEW ok \in BOOLEAN,
           verdict' = [verdict EXCEPT ![w] = {[claim |-> claim, ok |-> ok]}],
           batch' = [batch EXCEPT ![w] = @ \ {claim}],
           online' \in [Keys -> SUBSET (1..MaxVersion)],
           dryRuns' \in [Keys -> SUBSET (1..MaxVersion)],
           \A k \in Keys : online[k] \subseteq online'[k] /\ dryRuns[k] \subseteq dryRuns'[k],
           ok => claim.version \in online'[claim.key] \cup dryRuns'[claim.key],
           UNCHANGED <<outbox, overtaken, deaths>>
    PROVE  OutboxInvariant'
  <1>1. /\ claim \in Claim
        /\ claim.key \in Keys
        /\ HoldsOf(claim)
    BY DEF OutboxInvariant, OutboxTypeOK, BatchesHold, Claim
  <1>2. OutboxTypeOK'
    <2>1. [claim |-> claim, ok |-> ok] \in [claim : Claim, ok : BOOLEAN]
      BY <1>1
    <2>2. verdict' \in [Workers -> SUBSET [claim : Claim, ok : BOOLEAN]]
      BY <2>1 DEF OutboxInvariant, OutboxTypeOK
    <2>3. batch' \in [Workers -> SUBSET Claim]
      BY DEF OutboxInvariant, OutboxTypeOK
    <2>4. QED
      BY <2>2, <2>3 DEF OutboxInvariant, OutboxTypeOK
  <1>3. \A c : HoldsOf(c)' = HoldsOf(c)
    BY DEF HoldsOf
  <1>4. BatchesHold'
    <2>1. \A u \in Workers : batch'[u] \subseteq batch[u]
      BY DEF OutboxInvariant, OutboxTypeOK
    <2>2. QED
      BY <1>3, <2>1 DEF OutboxInvariant, BatchesHold
  <1>5. VerdictsHold'
    <2>1. ASSUME NEW u \in Workers, NEW v \in verdict'[u]
          PROVE  HoldsOf(v.claim)' /\ (v.ok => v.claim.version \in Done(v.claim.key)')
      <3>1. CASE u = w
        <4>1. v = [claim |-> claim, ok |-> ok]
          BY <2>1, <3>1 DEF OutboxInvariant, OutboxTypeOK
        <4>2. QED
          BY <1>1, <1>3, <4>1 DEF Done
      <3>2. CASE u # w
        <4>1. v \in verdict[u] /\ v.claim.key \in Keys
          BY <2>1, <3>2 DEF OutboxInvariant, OutboxTypeOK, Claim
        <4>2. HoldsOf(v.claim) /\ (v.ok => v.claim.version \in Done(v.claim.key))
          BY <4>1 DEF OutboxInvariant, VerdictsHold
        <4>3. QED
          BY <1>3, <4>1, <4>2 DEF Done
      <3>3. QED
        BY <3>1, <3>2
    <2>2. QED
      BY <2>1 DEF VerdictsHold, Done
  <1>6. RowsHavePayload' /\ SettledForAReason'
    <2>1. RowsHavePayload'
      BY DEF OutboxInvariant, RowsHavePayload
    <2>2. \A k \in Keys : online[k] \cup dryRuns[k] \subseteq online'[k] \cup dryRuns'[k]
      OBVIOUS
    <2>3. SettledForAReason'
      BY <2>2 DEF OutboxInvariant, SettledForAReason
    <2>4. QED
      BY <2>1, <2>3
  <1>7. QED
    BY <1>2, <1>4, <1>5, <1>6 DEF OutboxInvariant

\* A publication keeps the invariant,
LEMMA PublishPreserves ==
    ASSUME OutboxInvariant, NEW w \in Workers, NEW claim \in batch[w],
           PublishFeaturePayload(w, claim)
    PROVE  OutboxInvariant'
  <1>1. PICK ok \in BOOLEAN :
           /\ verdict' = [verdict EXCEPT ![w] = {[claim |-> claim, ok |-> ok]}]
           /\ online' = [online EXCEPT ![claim.key] =
                           IF ok THEN @ \cup {claim.version} ELSE @]
    BY DEF PublishFeaturePayload
  <1>2. /\ batch' = [batch EXCEPT ![w] = @ \ {claim}]
        /\ UNCHANGED <<outbox, dryRuns, overtaken, deaths>>
    BY DEF PublishFeaturePayload
  <1>3. claim.key \in Keys /\ claim.version \in 1..MaxVersion
    BY DEF OutboxInvariant, OutboxTypeOK, Claim
  <1>4. /\ online' \in [Keys -> SUBSET (1..MaxVersion)]
        /\ \A k \in Keys : online[k] \subseteq online'[k]
        /\ ok => claim.version \in online'[claim.key]
    BY <1>1, <1>3 DEF OutboxInvariant, OutboxTypeOK
  <1>5. dryRuns' \in [Keys -> SUBSET (1..MaxVersion)]
    BY <1>2 DEF OutboxInvariant, OutboxTypeOK
  <1>6. QED
    BY <1>1, <1>2, <1>4, <1>5, VerdictPreserves

\* and so does a dry run.
LEMMA DryRunPreserves ==
    ASSUME OutboxInvariant, NEW w \in Workers, NEW claim \in batch[w], DryRun(w, claim)
    PROVE  OutboxInvariant'
  <1>1. /\ verdict' = [verdict EXCEPT ![w] = {[claim |-> claim, ok |-> TRUE]}]
        /\ dryRuns' = [dryRuns EXCEPT ![claim.key] = @ \cup {claim.version}]
        /\ batch' = [batch EXCEPT ![w] = @ \ {claim}]
        /\ UNCHANGED <<outbox, online, overtaken, deaths>>
    BY DEF DryRun
  <1>2. claim.key \in Keys /\ claim.version \in 1..MaxVersion
    BY DEF OutboxInvariant, OutboxTypeOK, Claim
  <1>3. /\ dryRuns' \in [Keys -> SUBSET (1..MaxVersion)]
        /\ \A k \in Keys : dryRuns[k] \subseteq dryRuns'[k]
        /\ claim.version \in dryRuns'[claim.key]
    BY <1>1, <1>2 DEF OutboxInvariant, OutboxTypeOK
  <1>4. online' \in [Keys -> SUBSET (1..MaxVersion)]
    BY <1>1 DEF OutboxInvariant, OutboxTypeOK
  <1>5. QED
    BY <1>1, <1>3, <1>4, VerdictPreserves

\* A late mark, by a worker whose claim lapsed, still has a reason: it names
\* an attempt the row counts, or a payload that was done with.
LEMMA MarkPreserves ==
    ASSUME OutboxInvariant, NEW w \in Workers, MarkFeaturePush(w)
    PROVE  OutboxInvariant'
  <1>1. PICK v \in verdict[w] :
           /\ outbox' = [outbox EXCEPT ![v.claim.key].status = MarkedStatus(v)]
           /\ verdict' = [verdict EXCEPT ![w] = {}]
           /\ UNCHANGED <<batch, online, dryRuns, overtaken, deaths>>
    BY DEF MarkFeaturePush
  <1> DEFINE k == v.claim.key
  <1>2. /\ v \in [claim : Claim, ok : BOOLEAN]
        /\ k \in Keys
        /\ v.claim.version \in 1..MaxVersion
        /\ v.claim.attempts \in Nat
        /\ HoldsOf(v.claim)
        /\ v.ok => v.claim.version \in Done(k)
    BY DEF OutboxInvariant, OutboxTypeOK, VerdictsHold, Claim
  <1>3. MarkedStatus(v) \in OutboxStatus
    BY DEF MarkedStatus, OutboxStatus
  <1>4. outbox \in [Keys -> [status : OutboxStatus, version : 0..MaxVersion,
                             attempts : Nat, lapsed : BOOLEAN]]
    BY DEF OutboxInvariant, OutboxTypeOK
  <1>5. /\ outbox' \in [Keys -> [status : OutboxStatus, version : 0..MaxVersion,
                                 attempts : Nat, lapsed : BOOLEAN]]
        /\ outbox'[k].status = MarkedStatus(v)
        /\ \A j \in Keys : /\ outbox'[j].version = outbox[j].version
                           /\ outbox'[j].attempts = outbox[j].attempts
                           /\ j # k => outbox'[j] = outbox[j]
    BY <1>1, <1>2, <1>3, <1>4
  <1>6. OutboxTypeOK'
    BY <1>1, <1>5 DEF OutboxInvariant, OutboxTypeOK
  <1>7. \A c \in Claim : HoldsOf(c)' = HoldsOf(c)
    BY <1>1, <1>5 DEF HoldsOf, Claim
  <1>8. BatchesHold' /\ VerdictsHold'
    <2>1. /\ \A u \in Workers : batch[u] \subseteq Claim
          /\ \A u \in Workers : \A x \in verdict[u] : x.claim \in Claim
          /\ \A u \in Workers : verdict'[u] \subseteq verdict[u]
      BY <1>1 DEF OutboxInvariant, OutboxTypeOK
    <2>2. BatchesHold'
      BY <1>1, <1>7, <2>1 DEF OutboxInvariant, BatchesHold
    <2>3. VerdictsHold'
      BY <1>1, <1>7, <2>1 DEF OutboxInvariant, VerdictsHold, Done
    <2>4. QED
      BY <2>2, <2>3
  <1>9. outbox[k].version \in Nat /\ outbox[k].version > 0 /\ outbox[k].attempts \in Nat
    BY <1>2, <1>4 DEF HoldsOf
  <1>10. RowsHavePayload'
    BY <1>5, <1>9 DEF OutboxInvariant, RowsHavePayload
  <1>11. SettledForAReason'
    <2>1. outbox'[k].status = "succeeded" => v.claim.version \in online'[k] \cup dryRuns'[k]
      BY <1>1, <1>2, <1>5 DEF MarkedStatus, Done
    <2>2. ASSUME k \notin overtaken
          PROVE  /\ outbox'[k].version = v.claim.version
                 /\ outbox'[k].status = "failed" => outbox'[k].attempts >= RetryLimit
      <3>1. /\ v.claim.attempts <= outbox[k].attempts
            /\ v.claim.version = outbox[k].version
        BY <1>2, <2>2 DEF HoldsOf
      <3>2. QED
        BY <1>2, <1>5, <1>9, <3>1, OutboxAssumption DEF MarkedStatus
    <2>3. QED
      BY <1>1, <1>2, <1>5, <2>1, <2>2 DEF OutboxInvariant, SettledForAReason
  <1>12. QED
    BY <1>6, <1>8, <1>10, <1>11 DEF OutboxInvariant

\* and the death of a worker.
LEMMA DeathPreserves ==
    ASSUME OutboxInvariant, NEW w \in Workers, WorkerDies(w)
    PROVE  OutboxInvariant'
  <1>1. /\ \A u \in Workers : batch'[u] \subseteq batch[u] /\ verdict'[u] \subseteq verdict[u]
        /\ UNCHANGED <<outbox, online, dryRuns, overtaken>>
    BY DEF OutboxInvariant, OutboxTypeOK, WorkerDies
  <1>2. OutboxTypeOK'
    BY OutboxAssumption DEF OutboxInvariant, OutboxTypeOK, WorkerDies
  <1>3. \A c : HoldsOf(c)' = HoldsOf(c)
    BY <1>1 DEF HoldsOf
  <1>4. BatchesHold' /\ VerdictsHold'
    BY <1>1, <1>3 DEF OutboxInvariant, BatchesHold, VerdictsHold, Done
  <1>5. RowsHavePayload' /\ SettledForAReason'
    BY <1>1 DEF OutboxInvariant, RowsHavePayload, SettledForAReason
  <1>6. QED
    BY <1>2, <1>4, <1>5 DEF OutboxInvariant

\* Every transaction and every death keeps the invariant.
LEMMA OutboxInvariantStep ==
    OutboxInvariant /\ [OutboxNext]_outboxVars => OutboxInvariant'
  <1> SUFFICES ASSUME OutboxInvariant, [OutboxNext]_outboxVars
               PROVE  OutboxInvariant'
    OBVIOUS
  <1>1. ASSUME NEW k \in Keys, EnqueueFeaturePush(k) \/ ClaimLapses(k)
        PROVE  OutboxInvariant'
    BY <1>1, EnqueuePreserves, LapsePreserves
  <1>2. ASSUME NEW w \in Workers, Drain(w)
        PROVE  OutboxInvariant'
    BY <1>2, ClaimPreserves, PublishPreserves, DryRunPreserves, MarkPreserves DEF Drain
  <1>3. ASSUME NEW w \in Workers, WorkerDies(w)
        PROVE  OutboxInvariant'
    BY <1>3, DeathPreserves
  <1>4. CASE UNCHANGED outboxVars
    <2>1. \A c : HoldsOf(c)' = HoldsOf(c)
      BY <1>4 DEF outboxVars, HoldsOf
    <2>2. QED
      BY <1>4, <2>1
         DEF outboxVars, OutboxInvariant, OutboxTypeOK, RowsHavePayload, BatchesHold,
             VerdictsHold, Done, SettledForAReason
  <1>5. QED
    BY <1>1, <1>2, <1>3, <1>4 DEF OutboxNext

\* Claims, verdicts and rows of the outbox agree as OutboxInvariant says, for
\* any number of workers and deaths (drain_feature_push_outbox).
THEOREM OutboxInvariantHolds == OutboxSpec => []OutboxInvariant
  <1>1. QED
    BY OutboxInvariantInit, OutboxInvariantStep, PTL DEF OutboxSpec

\* A row is succeeded only if a payload of its key was pushed or passed over in
\* a dry run; unless it was enqueued while a worker was busy with an earlier
\* payload, it is succeeded only if its own payload was, and failed only after
\* feature_push_max_retries claims, although the marks check neither owner nor
\* status.
THEOREM SettledHolds == OutboxSpec => []SettledForAReason
  <1>1. OutboxInvariant => SettledForAReason
    BY DEF OutboxInvariant
  <1>2. QED
    BY <1>1, OutboxInvariantHolds, PTL

\* Rows, claims and verdicts keep their types.
THEOREM OutboxTyped == OutboxSpec => []OutboxTypeOK
  <1>1. OutboxInvariant => OutboxTypeOK
    BY DEF OutboxInvariant
  <1>2. QED
    BY <1>1, OutboxInvariantHolds, PTL
=============================================================================
