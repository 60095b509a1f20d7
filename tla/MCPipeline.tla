----------------------------- MODULE MCPipeline -----------------------------
(* Instances of Pipeline for TLC. *)
EXTENDS Pipeline, TLC

\* Every call addresses the same device; a stray may come from another one.
OneUnit == LET u == CHOOSE v \in Units : TRUE IN [c \in Calls |-> u]

\* Calls are interchangeable.
CallSymmetry == Permutations(Calls)

=============================================================================
