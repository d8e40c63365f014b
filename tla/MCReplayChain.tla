---------------------------- MODULE MCReplayChain ----------------------------
EXTENDS ReplayChain, TLC

\* Worktrees are interchangeable.
Worktrees == Permutations(Workspace)
=============================================================================
