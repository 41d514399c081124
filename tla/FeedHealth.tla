----------------------------- MODULE FeedHealth -----------------------------
(***************************************************************************)
(* FeedHealthMonitor (src/src/feeds/health.rs): the connection state of    *)
(* each registered feed and the time of its last message. A call for a     *)
(* feed that is not registered does nothing.                               *)
(***************************************************************************)
EXTENDS Integers

CONSTANTS
  Registered,   \* the feeds run() registers: Binance, and Coinbase if enabled
  StaleAfter,   \* stale_threshold
  Never         \* last_message_at: None

ASSUME HealthAssumption == StaleAfter \in Nat /\ Never \notin Nat

VARIABLES conn,    \* feed -> ConnectionState
          heard,   \* feed -> last_message_at
          now      \* Utc::now()

healthVars == <<conn, heard>>

ConnectionState == {"Disconnected", "Connecting", "Connected", "Reconnecting"}

HealthInit == conn = [f \in Registered |-> "Disconnected"] /\ heard = [f \in Registered |-> Never]

\* Mutant of SetState: a reconnect leaves the state alone.
SetStateUnlessReconnecting(f, state) ==
  conn' = IF f \in Registered /\ state # "Reconnecting" THEN [conn EXCEPT ![f] = state] ELSE conn

SetState(f, state) == conn' = IF f \in Registered THEN [conn EXCEPT ![f] = state] ELSE conn

RecordMessage(f) == heard' = IF f \in Registered THEN [heard EXCEPT ![f] = now] ELSE heard

IsStale(f) == heard[f] = Never \/ now - heard[f] > StaleAfter

IsHealthy(f) == f \in Registered /\ conn[f] = "Connected" /\ ~IsStale(f)
=============================================================================
