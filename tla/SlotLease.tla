------------------------------ MODULE SlotLease ------------------------------
(***************************************************************************)
(* What a pool of native workers promises its role, whatever its queue,    *)
(* processes and clocks do: a slot is charged to one request at a time,    *)
(* only a request of that slot, only the holder's release frees it, and    *)
(* nothing is granted after the pool closed.  A charge may stay for ever:  *)
(* that is how unacknowledged work is kept out of the slot.                *)
(***************************************************************************)
CONSTANTS Users, Slots, Home, Nobody

VARIABLES lease,   \* lease[s]: the request slot s is charged to, or Nobody
          open

Init == lease = [s \in Slots |-> Nobody] /\ open = TRUE

Acquire(u) ==
  /\ open /\ lease[Home[u]] = Nobody
  /\ lease' = [lease EXCEPT ![Home[u]] = u]
  /\ UNCHANGED open

Release(u) ==
  /\ lease[Home[u]] = u
  /\ lease' = [lease EXCEPT ![Home[u]] = Nobody]
  /\ UNCHANGED open

Close == open' = FALSE /\ UNCHANGED lease

Next == Close \/ \E u \in Users : Acquire(u) \/ Release(u)

Spec == Init /\ [][Next]_<<lease, open>>
=============================================================================
