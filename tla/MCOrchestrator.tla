--------------------------- MODULE MCOrchestrator ---------------------------
(***************************************************************************)
(* Trees for TLC.                                                          *)
(***************************************************************************)
EXTENDS Orchestrator, TLC

\* Two leaves in parallel, then a nested sequence of a leaf that may pause and a
\* loop, then a remote agent that may ask for an approval, then a last leaf
FullKind ==
    << >> :> "sequential"
 @@ <<1>> :> "parallel"
 @@ <<1, 1>> :> "llm"
 @@ <<1, 2>> :> "llm"
 @@ <<2>> :> "sequential"
 @@ <<2, 1>> :> "llm"
 @@ <<2, 2>> :> "loop"
 @@ <<2, 2, 1>> :> "llm"
 @@ <<2, 2, 2>> :> "a2a"
 @@ <<3>> :> "a2a"
 @@ <<4>> :> "llm"

FullCanExit == {<<2, 1>>, <<2, 2, 1>>}
FullHinted == {<<2, 1>>, <<2, 2, 2>>, <<4>>}
FullRemoteAsks == {<<2, 1>>, <<3>>}
FullFragile == {<<1, 2>>, <<4>>}

=============================================================================
