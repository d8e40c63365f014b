\* Two processes on worktrees of one repository, or one that is started again,
\* in either mode; a patch that compiles and one that does not.
SPECIFICATION Spec
CONSTANTS
  Workspace = {w1, w2}
  Edit = {good, bad}
  Broken = {bad}
  None = None
  MaxCommit = 3
  MaxStart = 2
SYMMETRY Worktrees
CHECK_DEADLOCK FALSE
INVARIANTS EntryFaithful EntryAnchored 
PROPERTIES Transparent ReplayWritesNothing
