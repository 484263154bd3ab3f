----------------------------- MODULE MCServices -----------------------------
(***************************************************************************)
(* Five machines that share no variable, checked side by side: a behaviour *)
(* chooses its subject at the start, runs that machine and leaves the      *)
(* others in their initial states.  Exits and partial closes of            *)
(* ManagedState are two of the five, with one command identity each.       *)
(***************************************************************************)
EXTENDS ManagedState, FeatureOutbox, BridgeConsumer, CaptureLedger

VARIABLE subject

servicesVars == <<managedVars, outboxVars, consumerVars, captureVars, subject>>

E1 == [kind |-> "exit", bar |-> 1]
P1 == [kind |-> "partial", bar |-> 1]
OneOfEach == {E1, P1}

ServicesInit ==
    /\ subject \in {"exits", "partials", "outbox", "consumer", "capture"}
    /\ ManagedInit
    /\ OutboxInit
    /\ ConsumerInit
    /\ CaptureInit

OnlyExits    == subject = "exits" /\ \A c \in Partials : cmd'[c] = "absent"
OnlyPartials == subject = "partials" /\ \A c \in Exits : cmd'[c] = "absent"

OnManaged(A) ==
    /\ A
    /\ OnlyExits \/ OnlyPartials
    /\ UNCHANGED <<outboxVars, consumerVars, captureVars, subject>>

OnOutbox(A) ==
    /\ subject = "outbox"
    /\ A
    /\ UNCHANGED <<managedVars, consumerVars, captureVars, subject>>

OnConsumer(A) ==
    /\ subject = "consumer"
    /\ A
    /\ UNCHANGED <<managedVars, outboxVars, captureVars, subject>>

OnCapture(A) ==
    /\ subject = "capture"
    /\ A
    /\ UNCHANGED <<managedVars, outboxVars, consumerVars, subject>>

ServicesNext ==
    \/ OnManaged(ManagedNext)
    \/ OnOutbox(OutboxNext)
    \/ OnConsumer(ConsumerNext)
    \/ OnCapture(CaptureNext)

\* ManagedState: the runner loops and is restarted, the EA keeps posting its
\* positions, a command not handed out expires at its lifetime.
\* FeatureOutbox: the restart loop keeps every worker draining; claims lapse.
\* CaptureLedger: the watchdog and, after the window, the operator start the
\* process, which goes on with what it has begun; no cycle need be reserved.
ServicesFairness ==
    /\ WF_servicesVars(OnManaged(Cycle))
    /\ WF_servicesVars(OnManaged(PostSnapshot))
    /\ WF_servicesVars(OnManaged(ExpireQueued))
    /\ \A w \in Workers : WF_servicesVars(OnOutbox(Drain(w)))
    /\ \A k \in Keys : WF_servicesVars(OnOutbox(ClaimLapses(k)))
    /\ WF_servicesVars(OnCapture(Proceed))

ServicesSpec == ServicesInit /\ [][ServicesNext]_servicesVars /\ ServicesFairness

\* The type invariants of the machines.
ServicesTypeOK == ManagedTypeOK /\ OutboxTypeOK /\ ConsumerTypeOK /\ CaptureTypeOK
=============================================================================
