----------------------------- MODULE MCProxyChain ----------------------------
(***************************************************************************)
(* ProxyChain for TLC: requests, tasks and actions are interchangeable.    *)
(***************************************************************************)
EXTENDS ProxyChain, TLC

Symmetry == Permutations(Requests) \cup Permutations(Tasks) \cup Permutations(Actions)

=============================================================================
