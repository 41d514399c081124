---------------------------- MODULE LockService -----------------------------
(***************************************************************************)
(* What the contract lock promises its callers: one lock state per         *)
(* contract, read by the signal gates and written by the main loop, with   *)
(* time passing in between.  ContractLock is the implementation, with its  *)
(* records, clock and clean-up task, and is shown to implement this        *)
(* module's specification.                                                 *)
(***************************************************************************)
EXTENDS Domain

VARIABLES lock,     \* contract -> what lock_state answers now
          expired   \* contracts whose market has expired

lockVars == <<lock, expired>>

LockTypeOK == lock \in [Contract -> LockState] /\ expired \subseteq Contract

LockInit == lock = [c \in Contract |-> "Unlocked"] /\ expired = {}

IsTradeable(c) == lock[c] = "Unlocked"

\* lock: an accepted signal, always for a market that has not expired.
Lock(c) ==
  /\ c \notin expired
  /\ lock' = [lock EXCEPT ![c] = "Locked"]
  /\ UNCHANGED expired

\* cooldown of a set of contracts.  One that was never locked, or whose
\* record was cleaned up, has nothing to cool down and stays unlocked; one
\* whose record has lapsed but still exists may enter cooldown again.
Cooldown(S) ==
  /\ \E kept \in SUBSET {c \in S : IsTradeable(c)} :
       lock' = [c \in Contract |->
                  IF c \in S \ kept THEN "Cooldown" ELSE lock[c]]
  /\ UNCHANGED expired

\* Mutant of TimePasses: the clean-up also drops contracts that are locked.
TimePassesAndForgets ==
  /\ \E E \in SUBSET (Contract \ expired) : expired' = expired \cup E
  /\ \E S \in SUBSET Contract :
       lock' = [c \in Contract |-> IF c \in S THEN "Unlocked" ELSE lock[c]]

\* Time passes: markets expire, cooldowns run out, and a contract is released
\* some time after its market's expiry whatever its lock.
TimePasses ==
  /\ \E E \in SUBSET (Contract \ expired) : expired' = expired \cup E
  /\ \E S \in SUBSET {c \in Contract : lock[c] = "Cooldown" \/ c \in expired} :
       lock' = [c \in Contract |-> IF c \in S THEN "Unlocked" ELSE lock[c]]

LockNext == \/ \E c \in Contract : Lock(c)
            \/ \E S \in SUBSET Contract : Cooldown(S)
            \/ TimePasses

LockSpec == LockInit /\ [][LockNext]_lockVars
=============================================================================
