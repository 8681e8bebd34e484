----------------------------- MODULE SlotLease -----------------------------
(* What the sorted sets of call_concurrency promise to whoever counts on a  *)
(* cap: a pool of leases that never exceeds its limit, where a holder gets  *)
(* a lease at most once, and a lease that has lapsed never comes back.      *)
EXTENDS Naturals, FiniteSets

CONSTANTS Pool, Holder, Limit

VARIABLES
    held,   \* [Pool -> SUBSET Holder]
    used    \* the holders that ever had a lease

Init ==
    /\ held = [p \in Pool |-> {}]
    /\ used = {}

\* A new lease; some of the old ones may be found lapsed at that moment.
Take(p, h) ==
    /\ h \notin used
    /\ \E K \in SUBSET held[p] :
          /\ Cardinality(K) < Limit[p]
          /\ held' = [held EXCEPT ![p] = K \union {h}]
    /\ used' = used \union {h}

Lapse(p) ==
    /\ \E K \in SUBSET held[p] : held' = [held EXCEPT ![p] = K]
    /\ UNCHANGED used

Next == \E p \in Pool : Lapse(p) \/ \E h \in Holder : Take(p, h)

Spec == Init /\ [][Next]_<<held, used>>
============================================================================
