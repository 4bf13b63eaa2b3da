------------------------- MODULE DelegationPromise -------------------------
(***************************************************************************)
(* What the delegation broker promises about the child Runs of one parent   *)
(* Attempt, with no broker in it: a request key stands for at most one      *)
(* child, a child is started only while no other child is running, and a    *)
(* completion verdict ("everything delegated has finished") is given only   *)
(* while no child is running.                                               *)
(***************************************************************************)
CONSTANT Keys

VARIABLES child,     \* child[k]: the child Run created for request key k
          attested   \* TRUE once the completion verdict was given

vars == <<child, attested>>

TerminalStatus == {"success", "failed"}
Status == {"none", "running"} \cup TerminalStatus

NoneRunning == \A k \in Keys : child[k] # "running"

Init == child = [k \in Keys |-> "none"] /\ attested = FALSE

Create(k) ==
    /\ child[k] = "none"
    /\ NoneRunning
    /\ child' = [child EXCEPT ![k] = "running"]
    /\ UNCHANGED attested

Finish(k, s) ==
    /\ child[k] = "running"
    /\ child' = [child EXCEPT ![k] = s]
    /\ UNCHANGED attested

Attest ==
    /\ ~attested
    /\ NoneRunning
    /\ attested' = TRUE
    /\ UNCHANGED child

Next == \/ \E k \in Keys : Create(k) \/ \E s \in TerminalStatus : Finish(k, s)
        \/ Attest

Spec == Init /\ [][Next]_vars
=============================================================================
