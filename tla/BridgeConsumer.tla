--------------------------- MODULE BridgeConsumer ---------------------------
(***************************************************************************)
(* Which terminal the bridge listens to: the consumer lease of             *)
(* runtime/postgres_store.py and the handlers of api/app.py that claim it. *)
(* Terminals that carry the configured identity differ in their producer   *)
(* instance; each request claims or renews the lease and is refused while  *)
(* another instance holds it.  A heartbeat names the source of the broker  *)
(* truth in the runtime state (terminal and account) and, when the source  *)
(* changed, first invalidates what the old one reported; a positions       *)
(* snapshot counts only from the source the heartbeat named.               *)
(*                                                                         *)
(* One process serves all requests, one at a time, but its transactions    *)
(* are several, other processes read the state between them, and it may    *)
(* die between any two.  A request may be old when it is served: any       *)
(* source's request may come at any time.                                  *)
(***************************************************************************)
EXTENDS Integers

CONSTANTS Terminals,    \* producer instances with the configured identity
          Accounts,     \* broker account scopes
          NoTerminal,   \* nobody
          LeaseSecs,    \* bridge_consumer_lease_secs, clamped to 5..120 s
          MaxTime       \* bound: the clock

ASSUME ConsumerAssumption ==
    /\ NoTerminal \notin Terminals
    /\ LeaseSecs \in Nat \ {0}
    /\ MaxTime \in Nat \ {0}

\* An authenticated market source (build_authenticated_market_source).
Source == [terminal : Terminals, account : Accounts]

NoSource == [terminal |-> NoTerminal]

VARIABLES now,       \* the clock
          lease,     \* bridge_consumer_lease in the runtime state
          source,    \* the source the last heartbeat named
          truth,     \* the source of positions and symbol specs in the state
          request,   \* the request being served, after its claim
          seen,      \* history: when a terminal was last admitted
          tenure     \* history: the holder polled since it took the lease

consumerVars == <<now, lease, source, truth, request, seen, tenure>>

NoRequest == [channel |-> "none", from |-> NoSource]

Time == 0..MaxTime

ConsumerTypeOK ==
    /\ now \in 1..MaxTime
    /\ lease \in [holder : Terminals \cup {NoTerminal}, acquired : Time,
                  expires : 0..(MaxTime + LeaseSecs), poll : Time]
    /\ source \in Source \cup {NoSource}
    /\ truth \in Source \cup {NoSource}
    /\ request \in [channel : {"none", "heartbeat", "apply", "report"},
                    from : Source \cup {NoSource}]
    /\ seen \in [Terminals -> Time]
    /\ tenure \in BOOLEAN

ConsumerInit ==
    /\ now = 1
    /\ lease = [holder |-> NoTerminal, acquired |-> 0, expires |-> 0, poll |-> 0]
    /\ source = NoSource
    /\ truth = NoSource
    /\ request = NoRequest
    /\ seen = [t \in Terminals |-> 0]
    /\ tenure = FALSE
-----------------------------------------------------------------------------
(* claim_bridge_consumer_lease                                              *)

LeaseFresh == lease.expires > now

LeaseBusy(t) == LeaseFresh /\ lease.holder # t

\* Mutant: a takeover inherits the time the old holder took the lease.
AcquiredAtInherited(t) == IF lease.acquired > 0 THEN lease.acquired ELSE now

\* A renewal keeps acquired_at, even after a lapse.
AcquiredAt(t) == IF lease.holder = t THEN lease.acquired ELSE now

\* Mutant: a renewal leaves the expiry where the takeover put it.
ExpiresAtTakeover(t) == AcquiredAt(t) + LeaseSecs

ExpiresAt(t) == now + LeaseSecs

\* The other fields of the old lease are carried over, its channel stamps
\* included.
Claimed(t, channel) ==
    [holder   |-> t,
     acquired |-> AcquiredAt(t),
     expires  |-> ExpiresAt(t),
     poll     |-> IF channel = "poll" THEN now ELSE lease.poll]

\* An admitted request of terminal t.
Admitted(t, channel) ==
    /\ request = NoRequest
    /\ ~LeaseBusy(t)
    /\ lease' = Claimed(t, channel)
    /\ seen' = [seen EXCEPT ![t] = now]
    /\ tenure' = (channel = "poll" \/ (tenure /\ lease.holder = t))
-----------------------------------------------------------------------------
(* The handlers                                                             *)

\* v2_poll_command and v2_ack_command; what they do to the queue is
\* CommandStore's.
PollOrAck(t, channel) ==
    /\ Admitted(t, channel)
    /\ UNCHANGED <<now, source, truth, request>>

\* v2_reports_post with a heartbeat: the claim.
Heartbeat(s) ==
    /\ Admitted(s.terminal, "heartbeat")
    /\ request' = [channel |-> "heartbeat", from |-> s]
    /\ UNCHANGED <<now, source, truth>>

\* Mutant: the old source's truth outlives the change of source.
RolledOverNever(s) == truth

\* _broker_truth_source_rollover_patch, when the source changed.
RolledOver(s) == IF source # s THEN NoSource ELSE truth

HeartbeatRollover ==
    /\ request.channel = "heartbeat"
    /\ truth' = RolledOver(request.from)
    /\ request' = [request EXCEPT !.channel = "apply"]
    /\ UNCHANGED <<now, lease, source, seen, tenure>>

\* _apply_report: identity and bridge_market_source in one patch.
HeartbeatApply ==
    /\ request.channel = "apply"
    /\ source' = request.from
    /\ request' = NoRequest
    /\ UNCHANGED <<now, lease, truth, seen, tenure>>

\* v2_reports_post with a source-bound report: the claim of
\* _authenticate_market_source_ingest.
Report(s) ==
    /\ Admitted(s.terminal, "report")
    /\ request' = [channel |-> "report", from |-> s]
    /\ UNCHANGED <<now, source, truth>>

\* current_authenticated_market_source: heartbeat and live lease agree; the
\* report must name that source.
ReportAccepted ==
    /\ LeaseFresh
    /\ source.terminal = lease.holder
    /\ request.from = source

\* The rest of the handler: stored, or refused with 409.
ReportServed ==
    /\ request.channel = "report"
    /\ truth' = IF ReportAccepted THEN request.from ELSE truth
    /\ request' = NoRequest
    /\ UNCHANGED <<now, lease, source, seen, tenure>>

\* The bridge dies; the request it served is lost.
BridgeDies ==
    /\ request # NoRequest
    /\ request' = NoRequest
    /\ UNCHANGED <<now, lease, source, truth, seen, tenure>>

TimePasses ==
    /\ now < MaxTime
    /\ now' = now + 1
    /\ UNCHANGED <<lease, source, truth, request, seen, tenure>>

ConsumerNext ==
    \/ \E t \in Terminals, channel \in {"poll", "ack"} : PollOrAck(t, channel)
    \/ \E s \in Source : Heartbeat(s) \/ Report(s)
    \/ HeartbeatRollover
    \/ HeartbeatApply
    \/ ReportServed
    \/ BridgeDies
    \/ TimePasses

ConsumerSpec == ConsumerInit /\ [][ConsumerNext]_consumerVars
-----------------------------------------------------------------------------
(* Properties                                                               *)

\* "Atomically admit exactly one EA consumer for the terminal scope": the
\* bridge never serves two terminals within one lease, however takeovers,
\* lapses and renewals follow each other.
OneConsumer ==
    \A s, t \in Terminals :
        s # t /\ seen[s] > 0 /\ seen[t] > seen[s] => seen[t] >= seen[s] + LeaseSecs

\* release_trust reads the lease this way.
PollFresh == LeaseFresh /\ lease.poll >= lease.acquired

\* Release authority counts a terminal as polling with the command token only
\* if that terminal polled since it took the lease; the stamps it inherits
\* from the terminal before it do not count.
PollFreshMeansHolderPolled == PollFresh => tenure

\* The positions and symbol specs in the state were reported by the terminal
\* and for the account that the state names as their source, also between the
\* patches of a heartbeat and after a crash there.
PositionsOfTheSource == truth # NoSource => truth = source
=============================================================================
