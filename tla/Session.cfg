\* Two builds that differ in all respects; two sessions in a row, or one with a busy window.
SPECIFICATION FairSpec
CONSTANTS
  Platforms = {"windows", "linux"}
  MaxSessions = 2
  Budgets <- MCBudgets
INVARIANTS SessionInv NoStaleReset DecoderComesBack HdrIsApplied
PROPERTIES SessionEnds LaunchEnds
