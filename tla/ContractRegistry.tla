-------------------------- MODULE ContractRegistry --------------------------
(***************************************************************************)
(* ContractRegistry (src/src/discovery/cache.rs) and the discovery request *)
(* behind it (gamma.rs): the contracts known so far with the registry's    *)
(* own lock state, and whether recent refreshes went well. A token stands  *)
(* for its contract; its market is listed at one time and expires at       *)
(* another. set_lock has no caller in the app.                             *)
(***************************************************************************)
EXTENDS Integers, Functions

CONSTANTS
  Token,    \* outcome tokens of supported markets
  Listed,   \* token -> when the venue lists its market
  Expiry    \* token -> expiry of its market

ASSUME TokenAssumption == /\ Listed \in [Token -> Nat] /\ Expiry \in [Token -> Nat]
                          /\ \A t \in Token : Listed[t] < Expiry[t]

VARIABLES entries,    \* token -> lock_state of its ContractEntry
          failures,   \* consecutive_failures
          healthy     \* RegistryInner::healthy

registryVars == <<entries, failures, healthy>>

RegistryInit == entries = << >> /\ failures = 0 /\ healthy = FALSE

IsExpired(t, now) == Expiry[t] <= now

\* is_tradeable, over the entries.
ActiveContracts(now) == {t \in DOMAIN entries : entries[t] = "Unlocked" /\ ~IsExpired(t, now)}

\* What gamma::discover returns: markets that are listed and not expired.
Discovered(now) == {t \in Token : Listed[t] <= now /\ ~IsExpired(t, now)}

\* Mutant of CoolsDown: what a refresh does not return is taken for over.
CoolsDownWhenMissing(t, found, now) == t \notin found

CoolsDown(t, found, now) == IsExpired(t, now) /\ entries[t] # "Locked"

\* apply_discovery: expired entries cool down, new ones are added, and those
\* that exist keep what they have.
ApplyDiscovery(found, now) ==
  /\ entries' = [t \in DOMAIN entries \cup found |->
                   IF t \notin DOMAIN entries THEN "Unlocked"
                   ELSE IF CoolsDown(t, found, now) THEN "Cooldown" ELSE entries[t]]
  /\ failures' = 0 /\ healthy' = TRUE

RecordFailure ==
  /\ failures' = failures + 1
  /\ healthy' = (healthy /\ failures + 1 < 3)
  /\ UNCHANGED entries

\* The registry hides a contract from the loop only when its market is over:
\* a refresh that misses a market, fails, or comes late never takes a live
\* contract away, and Cooldown, which nothing ends, costs nothing
\* (cache.rs 116-121).
HidesOnlyExpired(now) == \A t \in DOMAIN entries : entries[t] # "Unlocked" => IsExpired(t, now)
=============================================================================
