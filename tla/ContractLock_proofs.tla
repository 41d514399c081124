------------------------ MODULE ContractLock_proofs -------------------------
(***************************************************************************)
(* Proofs about ContractLock, for any contracts, expiries, buffer and      *)
(* cooldown: its types, that it implements LockService, and that the       *)
(* clean-up task cannot be observed.                                       *)
(***************************************************************************)
EXTENDS ContractLock, TLAPS

\* The refinement mapping, under names of its own.
Answer == [c \in Contract |-> LockStateOf(c)]
PastExpiry == {c \in Contract : Expiry[c] <= now}

-----------------------------------------------------------------------------
\* The type invariant is inductive.  It says more than types: a record's
\* expiry is its contract's, and exactly the cooling records have a deadline.
LEMMA TypeInit == Init => TypeOK
  BY DEF Init, TypeOK

\* Every step keeps the records well-formed.
LEMMA TypeStep == TypeOK /\ [Next]_vars => TypeOK'
<1> SUFFICES ASSUME TypeOK, [Next]_vars PROVE TypeOK'
  OBVIOUS
<1> USE TimesAssumption
<1>1. ASSUME NEW c \in Contract, Lock(c) PROVE TypeOK'
  BY <1>1 DEF Lock, TypeOK, Put, LockRecord, NoTime
<1>2. ASSUME NEW c \in Contract, Cooldown(c) PROVE TypeOK'
  BY <1>2 DEF Cooldown, TypeOK, LockRecord, NoTime
<1>3. CASE CleanupExpired
  BY <1>3 DEF CleanupExpired, TypeOK, Restrict
<1>4. CASE Tick
  BY <1>4 DEF Tick, TypeOK
<1>5. CASE UNCHANGED vars
  BY <1>5 DEF vars, TypeOK
<1> QED
  BY <1>1, <1>2, <1>3, <1>4, <1>5 DEF Next

\* Every reachable state of the lock service is well typed.
THEOREM LockTypes == Spec => []TypeOK
  BY TypeInit, TypeStep, PTL DEF Spec

-----------------------------------------------------------------------------
\* The clean-up changes no answer: exactly the records that read as Unlocked
\* are removed.
LEMMA CleanupKeepsAnswers ==
  ASSUME CleanupExpired, NEW c \in Contract
  PROVE  LockStateOf(c)' = LockStateOf(c)
  BY DEF CleanupExpired, LockStateOf, Lapsed, CooledDown, PastBuffer, Restrict

\* Only the clock ends a lock: a step that takes no time leaves every
\* contract that is not tradeable so.
THEOREM CleanupNotObserved == Spec => CleanupIsInvisible
<1>1. ASSUME TypeOK, [Next]_vars, now' = now, NEW c \in Contract,
             LockStateOf(c) # "Unlocked"
      PROVE  LockStateOf(c)' # "Unlocked"
  <2> USE TimesAssumption
  <2>1. ASSUME NEW d \in Contract, Lock(d) PROVE LockStateOf(c)' # "Unlocked"
    BY <1>1, <2>1 DEF Lock, LockStateOf, Lapsed, CooledDown, PastBuffer, TypeOK, Put, LockRecord
  <2>2. ASSUME NEW d \in Contract, Cooldown(d) PROVE LockStateOf(c)' # "Unlocked"
    BY <1>1, <2>2 DEF Cooldown, LockStateOf, Lapsed, CooledDown, PastBuffer, TypeOK, LockRecord
  <2>3. CASE CleanupExpired
    BY <1>1, <2>3, CleanupKeepsAnswers
  <2>4. CASE Tick
    BY <1>1, <2>4 DEF Tick, TypeOK
  <2>5. CASE UNCHANGED vars
    BY <1>1, <2>5 DEF vars, LockStateOf, Lapsed, CooledDown, PastBuffer
  <2> QED
    BY <1>1, <2>1, <2>2, <2>3, <2>4, <2>5 DEF Next
<1>2. TypeOK /\ [Next]_vars
        => [now' = now => \A c \in Contract :
              LockStateOf(c) # "Unlocked" => LockStateOf(c)' # "Unlocked"]_vars
  BY <1>1
<1> QED
  BY <1>2, LockTypes, PTL DEF Spec, CleanupIsInvisible

-----------------------------------------------------------------------------
(* ContractLock implements LockService.  Each step is mapped to the promise *)
(* it keeps: locking and cooling down to the actions of those names, a tick *)
(* to TimePasses, and the clean-up to no step at all.                      *)

LEMMA AnswerType == ASSUME TypeOK PROVE Answer \in [Contract -> LockState]
  BY DEF Answer, LockStateOf, LockState, TypeOK, LockRecord

\* A lock is the service's lock of the same contract.
LEMMA LockRefines ==
  ASSUME TypeOK, NEW c \in Contract, Lock(c)
  PROVE  Service!Lock(c)
<1> USE TimesAssumption
<1>1. c \notin PastExpiry
  BY DEF Lock, PastExpiry, TypeOK
<1>2. \A d \in Contract : d # c => LockStateOf(d)' = LockStateOf(d)
  BY DEF Lock, Put, LockStateOf, Lapsed, CooledDown, PastBuffer
<1>3. LockStateOf(c)' = "Locked"
  BY DEF Lock, Put, LockStateOf, Lapsed, CooledDown, PastBuffer, TypeOK
<1>4. Answer' = [Answer EXCEPT ![c] = "Locked"]
  BY <1>2, <1>3 DEF Answer
<1>5. PastExpiry' = PastExpiry
  BY DEF Lock, PastExpiry
<1> QED
  BY <1>1, <1>4, <1>5 DEF Service!Lock, Answer, PastExpiry

\* A cooldown is the service's cooldown of that contract, or of none if it has
\* no record.
LEMMA CooldownRefines ==
  ASSUME TypeOK, NEW c \in Contract, Cooldown(c)
  PROVE  Service!Cooldown({c})
<1> USE TimesAssumption
<1> DEFINE kept == IF Answer[c] = "Unlocked" /\ Answer'[c] = "Unlocked" THEN {c} ELSE {}
<1>1. \A d \in Contract : d # c => LockStateOf(d)' = LockStateOf(d)
  BY DEF Cooldown, LockStateOf, Lapsed, CooledDown, PastBuffer, TypeOK, LockRecord
<1>2. LockStateOf(c)' \in {"Unlocked", "Cooldown"}
  BY DEF Cooldown, LockStateOf, TypeOK, LockRecord
<1>3. LockStateOf(c) # "Unlocked" => LockStateOf(c)' = "Cooldown"
  BY DEF Cooldown, LockStateOf, Lapsed, CooledDown, PastBuffer, TypeOK, LockRecord
<1>4. kept \in SUBSET {d \in {c} : Service!IsTradeable(d)}
  BY DEF Service!IsTradeable, Answer
<1>5. Answer' = [d \in Contract |-> IF d \in {c} \ kept THEN "Cooldown" ELSE Answer[d]]
  BY <1>1, <1>2, <1>3 DEF Answer
<1>6. PastExpiry' = PastExpiry
  BY DEF Cooldown, PastExpiry
<1> QED
  BY <1>4, <1>5, <1>6 DEF Service!Cooldown, Answer, PastExpiry

\* A tick of the clock is the passing of time: what lapses, lapses by a cooldown
\* or after an expiry.
LEMMA TickRefines ==
  ASSUME TypeOK, Tick
  PROVE  Service!TimePasses
<1> USE TimesAssumption
<1> DEFINE E == PastExpiry' \ PastExpiry
           S == {c \in Contract : Answer'[c] # Answer[c]}
<1>1. /\ E \in SUBSET (Contract \ PastExpiry)
      /\ PastExpiry' = PastExpiry \cup E
  BY DEF Tick, PastExpiry, TypeOK
<1>2. ASSUME NEW c \in Contract, LockStateOf(c)' # LockStateOf(c)
      PROVE  /\ LockStateOf(c)' = "Unlocked"
             /\ LockStateOf(c) = "Cooldown" \/ c \in PastExpiry
  BY <1>2 DEF Tick, LockStateOf, Lapsed, CooledDown, PastBuffer, PastExpiry, TypeOK, LockRecord
<1>3. S \in SUBSET {c \in Contract : Answer[c] = "Cooldown" \/ c \in PastExpiry}
  BY <1>2 DEF Answer
<1>4. Answer' = [c \in Contract |-> IF c \in S THEN "Unlocked" ELSE Answer[c]]
  BY <1>2 DEF Answer
<1> QED
  BY <1>1, <1>3, <1>4 DEF Service!TimePasses, Answer, PastExpiry

\* What lock_state answers evolves as LockService says: a contract leaves
\* "Locked" only into cooldown or after its market's expiry.
THEOREM Refinement == Spec => ImplementsService
<1>1. Init => Service!LockInit
  BY TimesAssumption DEF Init, Service!LockInit, LockStateOf
<1>2. TypeOK /\ [Next]_vars => [Service!LockNext]_(Service!lockVars)
  <2> SUFFICES ASSUME TypeOK, [Next]_vars
               PROVE  Service!LockNext \/ UNCHANGED Service!lockVars
    OBVIOUS
  <2>1. ASSUME NEW c \in Contract, Lock(c) PROVE Service!LockNext
    BY <2>1, LockRefines DEF Service!LockNext
  <2>2. ASSUME NEW c \in Contract, Cooldown(c) PROVE Service!LockNext
    BY <2>2, CooldownRefines DEF Service!LockNext
  <2>3. CASE CleanupExpired
    BY <2>3, CleanupKeepsAnswers DEF CleanupExpired, Service!lockVars
  <2>4. CASE Tick
    BY <2>4, TickRefines DEF Service!LockNext
  <2>5. CASE UNCHANGED vars
    BY <2>5 DEF vars, Service!lockVars, LockStateOf, Lapsed, CooledDown, PastBuffer
  <2> QED
    BY <2>1, <2>2, <2>3, <2>4, <2>5 DEF Next
<1> QED
  BY <1>1, <1>2, LockTypes, PTL DEF Spec, ImplementsService, Service!LockSpec
=============================================================================
