------------------------------- MODULE MCDrafts -------------------------------
(* Drafts with one whole text and one the agent was half way through.        *)
EXTENDS Drafts, TLC

CONSTANTS whole, half

\* Neither the keys nor the places a task runs in are told apart.
Symmetry == Permutations(Key) \cup Permutations(Task)
===============================================================================
