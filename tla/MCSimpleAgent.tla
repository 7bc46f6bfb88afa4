--------------------------- MODULE MCSimpleAgent ----------------------------
(***************************************************************************)
(* SimpleAgent for TLC: three tools, one of each kind that the code tells  *)
(* apart, and requests that are interchangeable.                           *)
(***************************************************************************)
EXTENDS SimpleAgent, TLC

CONSTANTS list, delete, ask

MCTools == {list, delete, ask}
MCToolsNoList == {delete, ask}
MCA2ATools == {ask}
MCDestructive == {delete}

Symmetry == Permutations(Requests)

=============================================================================
