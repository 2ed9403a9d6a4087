------------------------------ MODULE LossyMap ------------------------------
(***************************************************************************)
(* What a cache promises its callers: a map from keys to values that may   *)
(* lose an entry at any moment (eviction, expiry, Delete, Clear) but whose *)
(* entries only ever take a value some caller is writing.  A key never     *)
(* goes back to a value that was overwritten or removed unless a caller    *)
(* writes that value again.                                                *)
(***************************************************************************)
CONSTANTS Keys, Vals, None

VARIABLES
    store,   \* store[k]: the value a Get(k) would return, or None
    writes   \* the <<key, value>> pairs of the Set calls in progress

Init ==
    /\ store = [k \in Keys |-> None]
    /\ writes = {}

\* Callers begin and end writes as they like; in the same step each entry
\* keeps its value, is lost, or takes the value of a write in progress.
Step ==
    /\ writes' \subseteq Keys \X Vals
    /\ LET before == store
           after == store'
       IN  \A k \in Keys :
              \/ after[k] = before[k]
              \/ after[k] = None
              \/ <<k, after[k]>> \in writes

Spec == Init /\ [][Step]_<<store, writes>>
=============================================================================
