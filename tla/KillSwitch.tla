----------------------------- MODULE KillSwitch -----------------------------
(***************************************************************************)
(* KillSwitch (src/src/risk/kill_switch.rs): a flag the hot path reads     *)
(* without a lock and, behind a lock, the reason and the history.  Every   *)
(* writer changes the flag first and the state in a second step, and       *)
(* several threads hold a clone of the switch, so the two steps of two     *)
(* calls may interleave.                                                   *)
(***************************************************************************)
EXTENDS Naturals, Sequences

CONSTANTS Caller,    \* threads that hold a clone of the switch
          NoReason   \* current_reason() answers None

\* enum KillSwitchReason; the figures some reasons carry decide nothing.
Reason == {"Manual", "DailyDrawdownBreach", "TotalDrawdownBreach",
           "ConsecutiveLossBreach", "StaleFeedRegime", "AbnormalLatency",
           "ExecutionFailures", "OrderStateAnomaly", "ReconnectStorm"}

ASSUME NoReasonAssumption == NoReason \notin Reason

VARIABLES active,    \* the flag
          current,   \* reason of the current activation
          history,   \* reasons of all activations
          call,      \* caller -> what its call still has to write
          clash      \* history variable: an activation and a deactivation overlapped

switchVars == <<active, current, history, call, clash>>

Call == [op : {"none", "deactivate"}] \cup [op : {"activate"}, reason : Reason]

NoCall == [op |-> "none"]

SwitchTypeOK ==
  /\ active \in BOOLEAN
  /\ current \in Reason \cup {NoReason}
  /\ history \in Seq(Reason)
  /\ call \in [Caller -> Call]
  /\ clash \in BOOLEAN

SwitchInit ==
  /\ active = FALSE
  /\ current = NoReason
  /\ history = << >>
  /\ call = [t \in Caller |-> NoCall]
  /\ clash = FALSE

-----------------------------------------------------------------------------
Between(op) == \E t \in Caller : call[t].op = op

\* activate, first step: swap(true).
Activate(t, reason) ==
  /\ call[t] = NoCall
  /\ active' = TRUE
  /\ call' = [call EXCEPT ![t] = [op |-> "activate", reason |-> reason]]
  /\ clash' = (clash \/ Between("deactivate"))
  /\ UNCHANGED <<current, history>>

\* Mutant of RecordActivation: a re-trigger leaves the first reason in place.
RecordFirstActivation(t) ==
  /\ call[t].op = "activate"
  /\ current' = IF history = << >> THEN call[t].reason ELSE current
  /\ history' = Append(history, call[t].reason)
  /\ call' = [call EXCEPT ![t] = NoCall]
  /\ UNCHANGED <<active, clash>>

\* activate, second step, under the lock: also when it was active already.
RecordActivation(t) ==
  /\ call[t].op = "activate"
  /\ current' = call[t].reason
  /\ history' = Append(history, call[t].reason)
  /\ call' = [call EXCEPT ![t] = NoCall]
  /\ UNCHANGED <<active, clash>>

\* deactivate, first step: store(false).
Deactivate(t) ==
  /\ call[t] = NoCall
  /\ active' = FALSE
  /\ call' = [call EXCEPT ![t] = [op |-> "deactivate"]]
  /\ clash' = (clash \/ Between("activate"))
  /\ UNCHANGED <<current, history>>

\* deactivate, second step: the copy in the history is not updated.
ClearReason(t) ==
  /\ call[t].op = "deactivate"
  /\ current' = NoReason
  /\ call' = [call EXCEPT ![t] = NoCall]
  /\ UNCHANGED <<active, history, clash>>

FinishCall(t) == RecordActivation(t) \/ ClearReason(t)

-----------------------------------------------------------------------------
\* As long as no activation overlapped a deactivation, flag and reason agree
\* whenever no call is half done, however many activations overlapped each
\* other: what is_active and current_reason answer is one state of the switch
\* (kill_switch.rs: "Get the current activation reason (if active)").
SerialSwitchAgrees ==
  ~clash /\ (\A t \in Caller : call[t] = NoCall)
    => /\ active <=> current # NoReason
       /\ active => history # << >> /\ current = history[Len(history)]
=============================================================================
