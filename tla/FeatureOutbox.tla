---------------------------- MODULE FeatureOutbox ----------------------------
(***************************************************************************)
(* The feature push outbox, from runtime/postgres_store.py, feast/push.py  *)
(* and the enqueue of runtime/runner.py.  The runner writes the newest     *)
(* feature row of a bar under one outbox key, again and again while the    *)
(* bar is open; a worker claims a batch, writes each payload to the online *)
(* store, which is external, and marks the row.  A worker may die with its *)
(* batch claimed, or be so slow that its claims lapse and another worker   *)
(* repeats the push; the marks check neither owner nor status.  A drain    *)
(* called with dry_run marks what it claims succeeded and pushes nothing.  *)
(***************************************************************************)
EXTENDS Integers, FiniteSets

CONSTANTS Keys,         \* outbox keys (build_outbox_key)
          Workers,      \* processes that drain the outbox
          MaxVersion,   \* bound: payloads enqueued under one key
          RetryLimit,   \* feature_push_max_retries
          MaxDeaths     \* bound: worker deaths

ASSUME OutboxAssumption ==
    /\ MaxVersion \in Nat \ {0}
    /\ RetryLimit \in Nat \ {0}
    /\ MaxDeaths \in Nat

VARIABLES outbox,   \* the table: one row per key
          batch,    \* worker -> rows it claimed and has not settled
          verdict,  \* worker -> row published, or refused, and not yet marked
          online,   \* payloads the online store was given, per key
          dryRuns,  \* history: payloads a dry run passed over, per key
          overtaken,\* history: keys whose payload was enqueued while a worker
                    \* was still busy with an earlier one of the key
          deaths    \* worker deaths so far

outboxVars == <<outbox, batch, verdict, online, dryRuns, overtaken, deaths>>

OutboxStatus == {"none", "queued", "claimed", "retry", "succeeded", "failed"}

\* A claimed row as the worker holds it, with the dry_run of its drain.
Claim == [key : Keys, version : 1..MaxVersion, attempts : Nat, dry : BOOLEAN]

OutboxTypeOK ==
    /\ outbox \in [Keys -> [status : OutboxStatus, version : 0..MaxVersion,
                            attempts : Nat, lapsed : BOOLEAN]]
    /\ batch \in [Workers -> SUBSET Claim]
    /\ verdict \in [Workers -> SUBSET [claim : Claim, ok : BOOLEAN]]
    /\ online \in [Keys -> SUBSET (1..MaxVersion)]
    /\ dryRuns \in [Keys -> SUBSET (1..MaxVersion)]
    /\ overtaken \subseteq Keys
    /\ deaths \in 0..MaxDeaths

OutboxInit ==
    /\ outbox = [k \in Keys |-> [status |-> "none", version |-> 0,
                                 attempts |-> 0, lapsed |-> FALSE]]
    /\ batch = [w \in Workers |-> {}]
    /\ verdict = [w \in Workers |-> {}]
    /\ online = [k \in Keys |-> {}]
    /\ dryRuns = [k \in Keys |-> {}]
    /\ overtaken = {}
    /\ deaths = 0
-----------------------------------------------------------------------------
\* Some worker has claimed a payload of the key and not marked it yet.
Busy(k) ==
    \E w \in Workers : \/ \E claim \in batch[w] : claim.key = k
                       \/ \E v \in verdict[w] : v.claim.key = k

\* enqueue_feature_push: a row already there is overwritten whatever its
\* status, attempts and claim included.
EnqueueFeaturePush(k) ==
    /\ outbox[k].version < MaxVersion
    /\ outbox' = [outbox EXCEPT ![k] = [status |-> "queued", version |-> @.version + 1,
                                        attempts |-> 0, lapsed |-> FALSE]]
    /\ overtaken' = IF Busy(k) THEN overtaken \cup {k} ELSE overtaken \ {k}
    /\ UNCHANGED <<batch, verdict, online, dryRuns, deaths>>

\* feature_push_claim_timeout_secs pass after a claim.
ClaimLapses(k) ==
    /\ outbox[k].status = "claimed"
    /\ ~outbox[k].lapsed
    /\ outbox' = [outbox EXCEPT ![k].lapsed = TRUE]
    /\ UNCHANGED <<batch, verdict, online, dryRuns, overtaken, deaths>>

\* Mutant: the claim of a dead worker is never taken over.
ClaimableQueuedOnly(k) == outbox[k].status \in {"queued", "retry"}

Claimable(k) ==
    \/ outbox[k].status \in {"queued", "retry"}
    \/ outbox[k].status = "claimed" /\ outbox[k].lapsed

\* claim_feature_push_batch, one statement, for a drain with or without dry_run.
ClaimFeaturePushBatch(w, dry) ==
    /\ batch[w] = {}
    /\ verdict[w] = {}
    /\ LET ks == {k \in Keys : Claimable(k)}
       IN  /\ ks # {}
           /\ outbox' = [k \in Keys |->
                           IF k \in ks
                           THEN [outbox[k] EXCEPT !.status = "claimed", !.lapsed = FALSE,
                                                  !.attempts = @ + 1]
                           ELSE outbox[k]]
           /\ batch' = [batch EXCEPT ![w] =
                          {[key |-> k, version |-> outbox[k].version,
                            attempts |-> outbox[k].attempts + 1, dry |-> dry] : k \in ks}]
    /\ UNCHANGED <<verdict, online, dryRuns, overtaken, deaths>>

\* publish_feature_payload for one row of the batch: the online store takes
\* the payload, or the push fails.
PublishFeaturePayload(w, claim) ==
    /\ verdict[w] = {}
    /\ claim \in batch[w]
    /\ ~claim.dry
    /\ batch' = [batch EXCEPT ![w] = @ \ {claim}]
    /\ \E ok \in BOOLEAN :
         /\ verdict' = [verdict EXCEPT ![w] = {[claim |-> claim, ok |-> ok]}]
         /\ online' = [online EXCEPT ![claim.key] = IF ok THEN @ \cup {claim.version} ELSE @]
    /\ UNCHANGED <<outbox, dryRuns, overtaken, deaths>>

\* In a dry run the row is a success without a push.
DryRun(w, claim) ==
    /\ verdict[w] = {}
    /\ claim \in batch[w]
    /\ claim.dry
    /\ batch' = [batch EXCEPT ![w] = @ \ {claim}]
    /\ verdict' = [verdict EXCEPT ![w] = {[claim |-> claim, ok |-> TRUE]}]
    /\ dryRuns' = [dryRuns EXCEPT ![claim.key] = @ \cup {claim.version}]
    /\ UNCHANGED <<outbox, online, overtaken, deaths>>

\* Mutant: the last attempt is given up before it is made.
MarkedStatusEarly(v) ==
    IF v.ok THEN "succeeded"
    ELSE IF v.claim.attempts + 1 < RetryLimit THEN "retry" ELSE "failed"

\* Mark_success or mark_failure; a failure is retryable by the attempts the
\* worker saw when it claimed.
MarkedStatus(v) ==
    IF v.ok THEN "succeeded"
    ELSE IF v.claim.attempts < RetryLimit THEN "retry" ELSE "failed"

MarkFeaturePush(w) ==
    \E v \in verdict[w] :
        /\ outbox' = [outbox EXCEPT ![v.claim.key].status = MarkedStatus(v)]
        /\ verdict' = [verdict EXCEPT ![w] = {}]
        /\ UNCHANGED <<batch, online, dryRuns, overtaken, deaths>>

\* The worker dies, or an exception of the store ends the drain: what it had
\* claimed stays claimed.  The restart loop starts an empty worker.
WorkerDies(w) ==
    /\ deaths < MaxDeaths
    /\ batch[w] # {} \/ verdict[w] # {}
    /\ deaths' = deaths + 1
    /\ batch' = [batch EXCEPT ![w] = {}]
    /\ verdict' = [verdict EXCEPT ![w] = {}]
    /\ UNCHANGED <<outbox, online, dryRuns, overtaken>>
-----------------------------------------------------------------------------
\* drain_feature_push_outbox, one step of it.
Drain(w) ==
    \/ \E dry \in BOOLEAN : ClaimFeaturePushBatch(w, dry)
    \/ \E claim \in batch[w] : PublishFeaturePayload(w, claim) \/ DryRun(w, claim)
    \/ MarkFeaturePush(w)

OutboxNext ==
    \/ \E k \in Keys : EnqueueFeaturePush(k) \/ ClaimLapses(k)
    \/ \E w \in Workers : Drain(w) \/ WorkerDies(w)

OutboxSpec == OutboxInit /\ [][OutboxNext]_outboxVars
-----------------------------------------------------------------------------
(* Properties                                                               *)

\* A row is settled for a reason, whatever slow or dead workers did to it: it
\* is succeeded only if a payload of its key was pushed or passed over in a dry
\* run, and that very payload unless it was enqueued while a worker was still
\* busy with an earlier one (whose late mark may settle it); with the same
\* exception it is failed only after feature_push_max_retries claims.
SettledForAReason ==
    \A k \in Keys :
        LET done == online[k] \cup dryRuns[k]
        IN  /\ outbox[k].status = "succeeded" => done # {}
            /\ k \notin overtaken =>
                  /\ outbox[k].status = "succeeded" => outbox[k].version \in done
                  /\ outbox[k].status = "failed" => outbox[k].attempts >= RetryLimit

\* Every row is settled in the end: a dead worker's claim lapses and another
\* drain repeats the push, and a slow worker's late mark reopens a row only
\* finitely often.
OutboxSettles ==
    \A k \in Keys :
        (outbox[k].status \in {"queued", "retry", "claimed"})
            ~> (outbox[k].status \in {"succeeded", "failed"})
=============================================================================
