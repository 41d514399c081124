------------------------------ MODULE LossyLog ------------------------------
(***************************************************************************)
(* What the event log promises its readers: events are accepted in order;  *)
(* some of them are kept, in that order and each once; what is kept stays  *)
(* kept; what is pending may be lost at any time.                          *)
(***************************************************************************)
EXTENDS Naturals, Sequences, FiniteSets, Functions

CONSTANT Id   \* events, numbered in the order in which they are offered

VARIABLES pending,  \* accepted and neither kept nor lost
          kept      \* what a reader gets for ever

logVars == <<pending, kept>>

LogInit == pending = {} /\ kept = << >>

Accept == /\ \E id \in Id : (\A k \in pending \cup Range(kept) : k < id) /\ pending' = pending \cup {id}
          /\ UNCHANGED kept

\* Some pending events are kept, others may go.
Keep == \E S \in SUBSET pending :
          /\ \A k \in Range(kept), s \in S : k < s
          /\ \E new \in [1..Cardinality(S) -> S] :
               /\ \A j, k \in DOMAIN new : j < k => new[j] < new[k]
               /\ kept' = kept \o new
          /\ pending' \subseteq pending \ S

LogSpec == LogInit /\ [][Accept \/ Keep]_logVars
=============================================================================
