---------------------------- MODULE ContractLock ----------------------------
(***************************************************************************)
(* ContractLockService (src/src/risk/contract_lock.rs) as the app uses it: *)
(* a record per contract with the times that end it, a clock, the queries  *)
(* that let a record lapse as they read it, and the background clean-up.   *)
(* unlock, clear and load_from_reconciliation have no caller in the app    *)
(* and are left out.                                                       *)
(***************************************************************************)
EXTENDS Domain, Integers

CONSTANTS
  Expiry,             \* contract -> expiry of its market
  PostExpiryBuffer,   \* post_expiry_buffer
  CooldownDuration,   \* cooldown_duration
  MaxTime             \* bound: the clock stops here

\* Time is counted from a moment at which every market is still open.
ASSUME TimesAssumption ==
  /\ Expiry \in [Contract -> Nat \ {0}]
  /\ PostExpiryBuffer \in Nat \ {0}
  /\ CooldownDuration \in Nat \ {0}
  /\ MaxTime \in Nat

VARIABLES locks,   \* contract -> LockRecord, for contracts that have one
          now      \* Utc::now()

vars == <<locks, now>>

NoTime == -1

LockRecord == [state : {"Locked", "Cooldown"}, cooldownUntil : Nat \cup {NoTime},
               marketExpiry : Nat]

\* A record's expiry is its contract's: lock() is given the registry entry's,
\* and a cooldown keeps it.
TypeOK ==
  /\ DOMAIN locks \subseteq Contract
  /\ locks \in [DOMAIN locks -> LockRecord]
  /\ \A c \in DOMAIN locks :
       /\ locks[c].marketExpiry = Expiry[c]
       /\ locks[c].state = "Cooldown" <=> locks[c].cooldownUntil # NoTime
  /\ now \in Nat

Init == locks = << >> /\ now = 0

-----------------------------------------------------------------------------
CooledDown(r) ==
  r.state = "Cooldown" /\ r.cooldownUntil # NoTime /\ now >= r.cooldownUntil

PastBuffer(r) == now >= r.marketExpiry + PostExpiryBuffer

\* Mutant of Lapsed: only a cooldown ends a record.
LapsedByCooldown(r) == CooledDown(r)

Lapsed(r) == CooledDown(r) \/ PastBuffer(r)

\* lock_state: a lapsed record reads as Unlocked although it is still there.
LockStateOf(c) ==
  IF c \notin DOMAIN locks \/ Lapsed(locks[c]) THEN "Unlocked" ELSE locks[c].state

\* The gates pass only a contract that is tradeable and whose market is open.
Lock(c) ==
  /\ LockStateOf(c) = "Unlocked"
  /\ now < Expiry[c]
  /\ locks' = Put(locks, c, [state |-> "Locked", cooldownUntil |-> NoTime,
                            marketExpiry |-> Expiry[c]])
  /\ UNCHANGED now

\* Mutant of Cooldown: the deadline is the moment of the call.
CooldownAtOnce(c) ==
  /\ locks' = IF c \in DOMAIN locks
              THEN [locks EXCEPT ![c].state = "Cooldown", ![c].cooldownUntil = now]
              ELSE locks
  /\ UNCHANGED now

\* Mutant of Cooldown: no deadline is set.
CooldownWithoutEnd(c) ==
  /\ locks' = IF c \in DOMAIN locks THEN [locks EXCEPT ![c].state = "Cooldown"] ELSE locks
  /\ UNCHANGED now

\* A contract without a record has nothing to cool down.
Cooldown(c) ==
  /\ locks' = IF c \in DOMAIN locks
              THEN [locks EXCEPT ![c].state = "Cooldown",
                                 ![c].cooldownUntil = now + CooldownDuration]
              ELSE locks
  /\ UNCHANGED now

\* Mutant of CleanupExpired: the post-expiry buffer is forgotten.
CleanupAtExpiry ==
  /\ locks' = Restrict(locks, {c \in DOMAIN locks :
                                 ~CooledDown(locks[c]) /\ now < locks[c].marketExpiry})
  /\ UNCHANGED now

CleanupExpired ==
  /\ locks' = Restrict(locks, {c \in DOMAIN locks : ~Lapsed(locks[c])})
  /\ UNCHANGED now

Tick == now < MaxTime /\ now' = now + 1 /\ UNCHANGED locks

Next == \/ \E c \in Contract : Lock(c) \/ Cooldown(c)
        \/ CleanupExpired
        \/ Tick

\* Time goes on.
Spec == Init /\ [][Next]_vars /\ WF_vars(Tick)

-----------------------------------------------------------------------------
(* The promise of LockService: what lock_state answers, whatever records    *)
(* the clean-up has or has not removed yet.                                *)
Service == INSTANCE LockService
             WITH lock    <- [c \in Contract |-> LockStateOf(c)],
                  expired <- {c \in Contract : Expiry[c] <= now}

ImplementsService == Service!LockSpec

\* The clean-up removes no record that still says something: between two
\* readings of the clock it is invisible to the gates, and so is the delay
\* with which it runs.
CleanupIsInvisible ==
  [][now' = now => \A c \in Contract :
       LockStateOf(c) # "Unlocked" => LockStateOf(c)' # "Unlocked"]_vars

\* No contract stays locked for ever, even if no cooldown is ever asked for.
\* (The clock must be able to pass every expiry: MaxTime is chosen so.)
LocksLapse == \A c \in Contract : LockStateOf(c) # "Unlocked" ~> LockStateOf(c) = "Unlocked"
=============================================================================
