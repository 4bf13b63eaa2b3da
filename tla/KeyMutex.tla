------------------------------ MODULE KeyMutex ------------------------------
(***************************************************************************)
(* What providersession.Lock promises its callers: one mutex per session   *)
(* key, for ever, with no trace of the table that finds it.                *)
(***************************************************************************)
CONSTANTS Runs, Keys, Free

VARIABLE holder    \* the run inside the section guarded by each key

Init == holder = [k \in Keys |-> Free]

Take(r, k) == /\ holder[k] = Free
              /\ \A j \in Keys : holder[j] # r
              /\ holder' = [holder EXCEPT ![k] = r]

Drop(r, k) == /\ holder[k] = r
              /\ holder' = [holder EXCEPT ![k] = Free]

Next == \E r \in Runs, k \in Keys : Take(r, k) \/ Drop(r, k)

Spec == Init /\ [][Next]_holder
=============================================================================
