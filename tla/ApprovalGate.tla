---------------------------- MODULE ApprovalGate ----------------------------
(***************************************************************************)
(* What the approval workflow promises about one destructive action        *)
(* (docs/functionalities.md, "How It Works"): it is announced under a      *)
(* UUID, then approved or rejected, and an approval lets the action run    *)
(* once.  An approval whose resolution fails before anything ran may be    *)
(* resolved again.                                                         *)
(***************************************************************************)
EXTENDS Naturals

CONSTANT Approvals

VARIABLES
    phase,  \* phase[u] \in {"none", "pending", "approved", "closed"}
    ran     \* ran[u]: how often the action of u has run

gateVars == <<phase, ran>>

GateInit ==
    /\ phase = [u \in Approvals |-> "none"]
    /\ ran = [u \in Approvals |-> 0]

Move(u, from, to) == phase[u] = from /\ phase' = [phase EXCEPT ![u] = to]

Publish(u) == Move(u, "none", "pending") /\ UNCHANGED ran

Approve(u) == Move(u, "pending", "approved") /\ UNCHANGED ran

Reject(u) == Move(u, "pending", "closed") /\ UNCHANGED ran

Run(u) ==
    /\ phase[u] = "approved"
    /\ ran[u] = 0
    /\ ran' = [ran EXCEPT ![u] = 1]
    /\ UNCHANGED phase

Settle(u) == Move(u, "approved", "closed") /\ UNCHANGED ran

Retry(u) == ran[u] = 0 /\ Move(u, "approved", "pending") /\ UNCHANGED ran

\* Resolving u made the agent ask for another approval v
Chain(u, v) ==
    /\ phase[u] = "approved"
    /\ phase[v] = "none"
    /\ phase' = [phase EXCEPT ![u] = "closed", ![v] = "pending"]
    /\ UNCHANGED ran

GateNext ==
    \/ \E u \in Approvals :
          \/ Publish(u) \/ Approve(u) \/ Reject(u)
          \/ Run(u) \/ Settle(u) \/ Retry(u)
    \/ \E u, v \in Approvals : Chain(u, v)

GateSpec == GateInit /\ [][GateNext]_gateVars

=============================================================================
