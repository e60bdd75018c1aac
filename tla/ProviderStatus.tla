--------------------------- MODULE ProviderStatus ---------------------------
(***************************************************************************)
(* What an API process says of the worker's connection to the provider     *)
(* (services/container.py, provider_status; api/routes.py,                 *)
(* health_provider).  The worker adds reports to a Redis stream and the    *)
(* API answers from the last one.  The pass over the live sessions adds a  *)
(* report that carries the time the pass began; every change of state of   *)
(* the MQTT client, and every message it handles, adds one that carries    *)
(* no time.  Reports may fail to be written, and the worker may be killed. *)
(*                                                                         *)
(* Bounds: MaxTime instants.                                               *)
(***************************************************************************)
EXTENDS Integers

CONSTANTS
    Limit,     \* the age above which a report is stale: 120 s
    MqttOn,    \* does the worker run an MQTT client beside its passes?
    MaxTime,
    None

StatusAssumption == {Limit, MaxTime} \subseteq Nat /\ MqttOn \in BOOLEAN

VARIABLES
    now,
    worker,  \* up, closing, gone
    diedAt,  \* when the worker was last seen to be up
    mqtt,    \* connection_state of its MQTT client
    pass,    \* None or the time at which the pass under way began
    report,  \* None or the last entry of apex:live:status: [state, checked]
    answer   \* None or the API's last answer: [state, healthy, at]

vars == <<now, worker, diedAt, mqtt, pass, report, answer>>

PassStates == {"LIVE", "WAITING_FOR_PROVIDER", "PROVIDER_UNAVAILABLE", "SESSION_COMPLETE"}
MqttStates == {"CONNECTED", "DEGRADED", "DISCONNECTED"}
HealthyStates == {"CONNECTED", "DISABLED", "LIVE", "SESSION_COMPLETE"}

Init ==
    /\ now = 0 /\ worker = "up" /\ diedAt = 0
    /\ mqtt = "DISCONNECTED" /\ pass = None /\ report = None /\ answer = None

\* The publication may fail: both writers log it and go on.
Published(entry) == report' = entry \/ UNCHANGED report

\* run_once takes its time when it begins and reports when it ends; a pass
\* that raises reports nothing.
PassBegins ==
    /\ worker = "up" /\ pass = None /\ pass' = now
    /\ UNCHANGED <<now, worker, diedAt, mqtt, report, answer>>

PassReports(s) ==
    /\ worker = "up" /\ pass # None
    /\ Published([state |-> s, checked |-> pass]) /\ pass' = None
    /\ UNCHANGED <<now, worker, diedAt, mqtt, answer>>

PassFails ==
    /\ worker = "up" /\ pass # None /\ pass' = None
    /\ UNCHANGED <<now, worker, diedAt, mqtt, report, answer>>

\* _set_state of the MQTT client.
SetState(s) == mqtt' = s /\ Published([state |-> s, checked |-> None])

MqttReports(s) ==
    /\ worker = "up" /\ MqttOn /\ SetState(s)
    /\ UNCHANGED <<now, worker, diedAt, pass, answer>>

\* close() cancels the pass and disconnects the client.
Close ==
    /\ worker = "up" /\ worker' = "closing" /\ pass' = None
    /\ UNCHANGED <<now, diedAt, mqtt, report, answer>>

Disconnect ==
    /\ worker = "closing" /\ worker' = "gone"
    /\ IF MqttOn THEN SetState("DISCONNECTED") ELSE UNCHANGED <<mqtt, report>>
    /\ UNCHANGED <<now, diedAt, pass, answer>>

Crash ==
    /\ worker # "gone" /\ worker' = "gone" /\ pass' = None
    /\ UNCHANGED <<now, diedAt, mqtt, report, answer>>

Restart ==
    /\ worker = "gone" /\ worker' = "up" /\ mqtt' = "DISCONNECTED" /\ diedAt' = now
    /\ UNCHANGED <<now, pass, report, answer>>

Tick ==
    /\ now < MaxTime /\ now' = now + 1
    /\ diedAt' = IF worker = "gone" THEN diedAt ELSE now + 1
    /\ UNCHANGED <<worker, mqtt, pass, report, answer>>

-----------------------------------------------------------------------------
(* The API process.                                                        *)

TooOld(r) == r.checked # None /\ now - r.checked > Limit

\* Without a report the process shows its own client, which never connects.
StateShown ==
    IF report = None THEN "DISCONNECTED"
    ELSE IF TooOld(report) THEN "STALE" ELSE report.state

Answer(s) == answer' = [state |-> s, healthy |-> s \in HealthyStates, at |-> now]

\* Redis answers, or it does not.
Ask ==
    /\ Answer(StateShown) \/ Answer("PROVIDER_UNAVAILABLE")
    /\ UNCHANGED <<now, worker, diedAt, mqtt, pass, report>>

Next ==
    \/ PassBegins \/ PassFails \/ \E s \in PassStates : PassReports(s)
    \/ \E s \in MqttStates : MqttReports(s)
    \/ Close \/ Disconnect \/ Crash \/ Restart \/ Tick \/ Ask

Spec == Init /\ [][Next]_vars

-----------------------------------------------------------------------------
(* Properties.                                                             *)

TypeOK ==
    /\ now \in 0 .. MaxTime /\ diedAt \in 0 .. now
    /\ worker \in {"up", "closing", "gone"} /\ mqtt \in MqttStates
    /\ pass \in (0 .. now) \cup {None}
    /\ report = None \/ report \in [state : PassStates \cup MqttStates,
                                    checked : (0 .. now) \cup {None}]
    /\ answer = None \/ answer \in
          [state : PassStates \cup MqttStates \cup {"STALE"},
           healthy : BOOLEAN, at : 0 .. now]

\* "A report older than 120 seconds becomes STALE": once the worker has been
\* gone for longer than that, no answer calls its connection healthy
\* (provider_status, health_provider).
AnswersInTime == answer' # answer /\ answer'.healthy => now - diedAt <= Limit
=============================================================================
