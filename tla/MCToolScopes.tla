---------------------------- MODULE MCToolScopes ----------------------------
(***************************************************************************)
(* Every tool with every token that its checks tell apart.                 *)
(***************************************************************************)
EXTENDS ToolScopes

\* mutationTools has 183 names.
ASSUME AllMutationTools == Cardinality(MutationTools) = 183
=============================================================================
