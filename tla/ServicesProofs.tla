--------------------------- MODULE ServicesProofs ---------------------------
(***************************************************************************)
(* The consumer lease for every set of terminals and accounts, every       *)
(* length of the lease and every run of the clock: ConsumerInvariant is    *)
(* inductive, and the three properties that TLC checks follow from it.     *)
(* Then the machines of MCServices side by side: none writes what another  *)
(* reads, so each keeps the invariant it has alone.                        *)
(***************************************************************************)
EXTENDS MCServices, ManagedStateProofs, FeatureOutboxProofs, CaptureLedgerProofs

\* No stamp lies in the future.
StampsPast ==
    /\ \A t \in Terminals : seen[t] <= now
    /\ lease.holder = NoTerminal => lease.expires = 0 /\ lease.poll = 0

\* A lease that somebody holds runs from the moment its holder was last
\* served, and nobody was served after that.
LeaseFollowsHolder ==
    lease.holder # NoTerminal =>
        /\ seen[lease.holder] > 0
        /\ lease.expires = seen[lease.holder] + LeaseSecs
        /\ lease.poll <= seen[lease.holder]
        /\ \A t \in Terminals : seen[t] <= seen[lease.holder]

\* Nobody was served before somebody took the lease.
UnservedWhileFree ==
    lease.holder = NoTerminal => \A t \in Terminals : seen[t] = 0

\* The last services of two terminals are at least a lease apart.  (OneConsumer
\* alone says nothing of two services at the same time.)
ServedApart ==
    \A s, t \in Terminals :
        s # t /\ seen[s] > 0 /\ seen[t] > 0 =>
            seen[t] >= seen[s] + LeaseSecs \/ seen[s] >= seen[t] + LeaseSecs

\* A poll stamp at or after the takeover is the holder's own.
StampIsHolders ==
    lease.holder # NoTerminal /\ lease.poll >= lease.acquired => tenure

\* Between the two patches of a heartbeat, what is left of the broker truth
\* belongs to the source the second patch will name.
RolloverDone ==
    request.channel = "apply" /\ truth # NoSource => truth = request.from

ConsumerInvariant ==
    /\ ConsumerTypeOK
    /\ StampsPast
    /\ LeaseFollowsHolder
    /\ UnservedWhileFree
    /\ ServedApart
    /\ StampIsHolders
    /\ RolloverDone
    /\ PositionsOfTheSource

\* Nobody holds the lease at the start.
LEMMA ConsumerInvariantInit == ConsumerInit => ConsumerInvariant
  <1> SUFFICES ASSUME ConsumerInit PROVE ConsumerInvariant
    OBVIOUS
  <1>1. ConsumerTypeOK
    <2>1. now \in 1..MaxTime /\ 0 \in Time /\ 0 \in 0..(MaxTime + LeaseSecs)
      BY ConsumerAssumption DEF ConsumerInit, Time
    <2>2. QED
      BY <2>1 DEF ConsumerInit, ConsumerTypeOK, NoRequest
  <1>2. StampsPast /\ LeaseFollowsHolder /\ UnservedWhileFree /\ ServedApart
    BY DEF ConsumerInit, StampsPast, LeaseFollowsHolder, UnservedWhileFree, ServedApart
  <1>3. StampIsHolders /\ RolloverDone /\ PositionsOfTheSource
    BY DEF ConsumerInit, StampIsHolders, RolloverDone, PositionsOfTheSource, NoRequest
  <1>4. QED
    BY <1>1, <1>2, <1>3 DEF ConsumerInvariant

\* Any admitted request, whichever handler made it, keeps what the invariant
\* says of lease and clock: a takeover only follows a lapse.
LEMMA AdmittedPreserves ==
    ASSUME ConsumerInvariant, NEW t \in Terminals, NEW channel,
           Admitted(t, channel), now' = now
    PROVE  /\ lease' \in [holder : Terminals \cup {NoTerminal}, acquired : Time,
                          expires : 0..(MaxTime + LeaseSecs), poll : Time]
           /\ seen' \in [Terminals -> Time]
           /\ tenure' \in BOOLEAN
           /\ StampsPast'
           /\ LeaseFollowsHolder'
           /\ UnservedWhileFree'
           /\ ServedApart'
           /\ StampIsHolders'
  <1> USE ConsumerAssumption DEF Time
  <1>1. /\ now \in Nat /\ now > 0 /\ now <= MaxTime
        /\ seen \in [Terminals -> Time]
        /\ lease.holder \in Terminals \cup {NoTerminal}
        /\ lease.acquired \in Time
        /\ lease.expires \in 0..(MaxTime + LeaseSecs)
        /\ lease.poll \in Time
    BY DEF ConsumerInvariant, ConsumerTypeOK
  <1>2. /\ lease'.holder = t
        /\ lease'.acquired = AcquiredAt(t)
        /\ lease'.expires = now + LeaseSecs
        /\ lease'.poll = IF channel = "poll" THEN now ELSE lease.poll
        /\ lease' \in [holder : Terminals \cup {NoTerminal}, acquired : Time,
                       expires : 0..(MaxTime + LeaseSecs), poll : Time]
    BY <1>1 DEF Admitted, Claimed, AcquiredAt, ExpiresAt
  <1>3. /\ seen' \in [Terminals -> Time]
        /\ seen'[t] = now
        /\ \A s \in Terminals : s # t => seen'[s] = seen[s]
    BY <1>1 DEF Admitted
  <1>4. tenure' = (channel = "poll" \/ (tenure /\ lease.holder = t))
    BY DEF Admitted
  <1>5. t # NoTerminal
    OBVIOUS
  <1>6. lease.holder # t => lease.expires <= now
    BY <1>1 DEF Admitted, LeaseBusy, LeaseFresh
  <1>7. \A s \in Terminals : seen[s] <= now
    BY DEF ConsumerInvariant, StampsPast
  <1>8. lease.poll <= now
    <2>1. CASE lease.holder = NoTerminal
      BY <1>1, <2>1 DEF ConsumerInvariant, StampsPast
    <2>2. CASE lease.holder # NoTerminal
      BY <1>1, <1>7, <2>2 DEF ConsumerInvariant, LeaseFollowsHolder
    <2>3. QED
      BY <2>1, <2>2
  <1>9. StampsPast' /\ LeaseFollowsHolder' /\ UnservedWhileFree'
    <2>1. StampsPast' /\ UnservedWhileFree'
      BY <1>1, <1>2, <1>3, <1>5, <1>7 DEF StampsPast, UnservedWhileFree
    <2>2. /\ seen'[lease'.holder] = now
          /\ \A s \in Terminals : seen'[s] <= now
          /\ lease'.poll <= now
      BY <1>1, <1>2, <1>3, <1>7, <1>8
    <2>3. QED
      BY <1>1, <1>2, <2>1, <2>2 DEF LeaseFollowsHolder
  <1>10. ServedApart'
    <2>1. ASSUME NEW s \in Terminals, s # t, seen[s] > 0
          PROVE  now >= seen[s] + LeaseSecs
      <3>1. lease.holder # NoTerminal
        BY <2>1 DEF ConsumerInvariant, UnservedWhileFree
      <3>2. /\ lease.expires = seen[lease.holder] + LeaseSecs
            /\ seen[lease.holder] > 0
            /\ seen[s] <= seen[lease.holder]
        BY <3>1 DEF ConsumerInvariant, LeaseFollowsHolder
      <3>3. CASE lease.holder # t
        BY <1>1, <1>6, <3>1, <3>2, <3>3
      <3>4. CASE lease.holder = t
        <4>1. \/ seen[t] >= seen[s] + LeaseSecs
              \/ seen[s] >= seen[t] + LeaseSecs
          BY <2>1, <3>2, <3>4 DEF ConsumerInvariant, ServedApart
        <4>2. QED
          BY <1>1, <1>7, <3>2, <3>4, <4>1
      <3>5. QED
        BY <3>3, <3>4
    <2>2. QED
      BY <1>1, <1>3, <2>1 DEF ServedApart, ConsumerInvariant
  <1>11. StampIsHolders'
    <2>1. CASE channel = "poll"
      BY <1>4, <2>1 DEF StampIsHolders
    <2>2. CASE channel # "poll" /\ lease.holder = t
      BY <1>2, <1>4, <1>5, <2>2 DEF StampIsHolders, ConsumerInvariant, AcquiredAt
    <2>3. CASE channel # "poll" /\ lease.holder # t
      <3>1. lease'.acquired = now /\ lease'.poll = lease.poll
        BY <1>2, <2>3 DEF AcquiredAt
      <3>2. lease.poll < now
        <4>1. CASE lease.holder = NoTerminal
          BY <1>1, <4>1 DEF ConsumerInvariant, StampsPast
        <4>2. CASE lease.holder # NoTerminal
          <5>1. /\ lease.expires = seen[lease.holder] + LeaseSecs
                /\ lease.poll <= seen[lease.holder]
            BY <4>2 DEF ConsumerInvariant, LeaseFollowsHolder
          <5>2. QED
            BY <1>1, <1>6, <2>3, <4>2, <5>1
        <4>3. QED
          BY <4>1, <4>2
      <3>3. QED
        BY <1>1, <3>1, <3>2 DEF StampIsHolders
    <2>4. QED
      BY <2>1, <2>2, <2>3
  <1>12. QED
    BY <1>2, <1>3, <1>4, <1>9, <1>10, <1>11

\* Every transaction of the bridge keeps the invariant.
LEMMA ConsumerInvariantStep ==
    ConsumerInvariant /\ [ConsumerNext]_consumerVars => ConsumerInvariant'
  <1> SUFFICES ASSUME ConsumerInvariant, [ConsumerNext]_consumerVars
               PROVE  ConsumerInvariant'
    OBVIOUS
  <1> USE DEF ConsumerInvariant
  <1>0. /\ ConsumerTypeOK
        /\ RolloverDone
        /\ PositionsOfTheSource
    OBVIOUS
  <1>1. ASSUME NEW t \in Terminals, NEW channel \in {"poll", "ack"},
               PollOrAck(t, channel)
        PROVE  ConsumerInvariant'
    <2>1. Admitted(t, channel) /\ UNCHANGED <<now, source, truth, request>>
      BY <1>1 DEF PollOrAck
    <2>2. RolloverDone' /\ PositionsOfTheSource'
      BY <2>1 DEF RolloverDone, PositionsOfTheSource
    <2>3. QED
      BY <2>1, <2>2, AdmittedPreserves DEF ConsumerTypeOK
  <1>2. ASSUME NEW s \in Source, Heartbeat(s) \/ Report(s)
        PROVE  ConsumerInvariant'
    <2>1. PICK channel \in {"heartbeat", "report"} :
             /\ Admitted(s.terminal, channel)
             /\ request' = [channel |-> channel, from |-> s]
             /\ UNCHANGED <<now, source, truth>>
      BY <1>2 DEF Heartbeat, Report
    <2>2. s.terminal \in Terminals
      BY DEF Source
    <2>3. RolloverDone' /\ PositionsOfTheSource'
      BY <2>1 DEF RolloverDone, PositionsOfTheSource
    <2>4. request' \in [channel : {"none", "heartbeat", "apply", "report"},
                        from : Source \cup {NoSource}]
      BY <2>1
    <2>5. QED
      BY <2>1, <2>2, <2>3, <2>4, AdmittedPreserves DEF ConsumerTypeOK
  <1>3. CASE HeartbeatRollover
    <2>1. truth' \in Source \cup {NoSource}
      BY <1>3 DEF HeartbeatRollover, RolledOver, ConsumerTypeOK
    <2>2. /\ request'.channel = "apply"
          /\ request'.from = request.from
          /\ request' \in [channel : {"none", "heartbeat", "apply", "report"},
                           from : Source \cup {NoSource}]
      BY <1>3 DEF HeartbeatRollover, ConsumerTypeOK
    <2>3. RolloverDone' /\ PositionsOfTheSource'
      BY <1>3, <2>2 DEF HeartbeatRollover, RolledOver, RolloverDone, PositionsOfTheSource
    <2>4. QED
      BY <1>3, <2>1, <2>2, <2>3
         DEF HeartbeatRollover, ConsumerTypeOK, StampsPast, LeaseFollowsHolder,
             UnservedWhileFree, ServedApart, StampIsHolders
  <1>4. CASE HeartbeatApply
    BY <1>4
       DEF HeartbeatApply, ConsumerTypeOK, StampsPast, LeaseFollowsHolder,
           UnservedWhileFree, ServedApart, StampIsHolders, RolloverDone,
           PositionsOfTheSource, NoRequest
  <1>5. CASE ReportServed
    BY <1>5
       DEF ReportServed, ReportAccepted, ConsumerTypeOK, StampsPast,
           LeaseFollowsHolder, UnservedWhileFree, ServedApart, StampIsHolders,
           RolloverDone, PositionsOfTheSource, NoRequest
  <1>6. CASE BridgeDies
    BY <1>6
       DEF BridgeDies, ConsumerTypeOK, StampsPast, LeaseFollowsHolder,
           UnservedWhileFree, ServedApart, StampIsHolders, RolloverDone,
           PositionsOfTheSource, NoRequest
  <1>7. CASE TimePasses
    <2>1. ConsumerTypeOK' /\ StampsPast'
      BY <1>7, ConsumerAssumption DEF TimePasses, ConsumerTypeOK, StampsPast, Time
    <2>2. QED
      BY <1>7, <2>1
         DEF TimePasses, LeaseFollowsHolder, UnservedWhileFree, ServedApart,
             StampIsHolders, RolloverDone, PositionsOfTheSource
  <1>8. CASE UNCHANGED consumerVars
    BY <1>8
       DEF consumerVars, ConsumerTypeOK, StampsPast, LeaseFollowsHolder,
           UnservedWhileFree, ServedApart, StampIsHolders, RolloverDone,
           PositionsOfTheSource
  <1>9. QED
    BY <1>1, <1>2, <1>3, <1>4, <1>5, <1>6, <1>7, <1>8 DEF ConsumerNext

\* The consumer lease, the source of the broker truth and the request in
\* service stay as ConsumerInvariant describes them
\* (claim_bridge_consumer_lease and the handlers that call it).
THEOREM ConsumerInvariantHolds == ConsumerSpec => []ConsumerInvariant
  <1>1. QED
    BY ConsumerInvariantInit, ConsumerInvariantStep, PTL DEF ConsumerSpec

\* claim_bridge_consumer_lease admits one terminal per lease, whatever the
\* length of the lease and however many terminals compete.
THEOREM OneConsumerHolds == ConsumerSpec => []OneConsumer
  <1>1. ConsumerInvariant => OneConsumer
    BY ConsumerAssumption
       DEF ConsumerInvariant, ConsumerTypeOK, ServedApart, OneConsumer, Time
  <1>2. QED
    BY <1>1, ConsumerInvariantHolds, PTL

\* The poll stamp that release_trust reads as fresh is never inherited from
\* the terminal that held the lease before.
THEOREM PollFreshHolds == ConsumerSpec => []PollFreshMeansHolderPolled
  <1>1. ConsumerInvariant => PollFreshMeansHolderPolled
    BY DEF ConsumerInvariant, ConsumerTypeOK, StampsPast, StampIsHolders,
           PollFreshMeansHolderPolled, PollFresh, LeaseFresh
  <1>2. QED
    BY <1>1, ConsumerInvariantHolds, PTL

\* Positions and symbol specs in the state are always those of the source the
\* state names, also between the two patches of a heartbeat.
THEOREM SourceHolds == ConsumerSpec => []PositionsOfTheSource
  <1>1. ConsumerInvariant => PositionsOfTheSource
    BY DEF ConsumerInvariant
  <1>2. QED
    BY <1>1, ConsumerInvariantHolds, PTL

\* The lease, the sources and the request in service keep their types.
THEOREM ConsumerTyped == ConsumerSpec => []ConsumerTypeOK
  <1>1. ConsumerInvariant => ConsumerTypeOK
    BY DEF ConsumerInvariant
  <1>2. QED
    BY <1>1, ConsumerInvariantHolds, PTL
-----------------------------------------------------------------------------
(* The machines side by side                                                *)

\* What each machine keeps, whichever of them runs.
ServicesInvariant ==
    /\ ManagedTypes
    /\ OutboxInvariant
    /\ ConsumerInvariant
    /\ CaptureInvariant
    /\ FlagsTyped

\* All of them start as they start alone.
LEMMA ServicesInvariantInit == ServicesInit => ServicesInvariant
  BY ManagedTypesInit, OutboxInvariantInit, ConsumerInvariantInit, CaptureInvariantInit,
     FlagsTypedInit DEF ServicesInit, ServicesInvariant

\* A step of the whole is, for each machine, one of its own steps or none.
LEMMA ServicesSteps ==
    [ServicesNext]_servicesVars =>
        /\ [ManagedNext]_managedVars
        /\ [OutboxNext]_outboxVars
        /\ [ConsumerNext]_consumerVars
        /\ [CaptureNext]_captureVars
  BY DEF ServicesNext, OnManaged, OnOutbox, OnConsumer, OnCapture, servicesVars

\* So every step keeps what each of them keeps.
LEMMA ServicesInvariantStep ==
    ServicesInvariant /\ [ServicesNext]_servicesVars => ServicesInvariant'
  BY ServicesSteps, ManagedTypesStep, OutboxInvariantStep, ConsumerInvariantStep,
     CaptureInvariantStep, FlagsTypedStep DEF ServicesInvariant

\* The runner's memory, the outbox, the lease and the ledger keep their types
\* in the composition, for every value of the constants.
THEOREM ServicesTyped == ServicesSpec => []ServicesTypeOK
  <1>1. ServicesInvariant => ServicesTypeOK
    BY PhasesTyped
       DEF ServicesInvariant, ServicesTypeOK, ManagedTypes, OutboxInvariant, ConsumerInvariant
  <1>2. QED
    BY <1>1, ServicesInvariantInit, ServicesInvariantStep, PTL DEF ServicesSpec
=============================================================================
