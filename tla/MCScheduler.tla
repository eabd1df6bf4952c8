----------------------------- MODULE MCScheduler -----------------------------
EXTENDS Scheduler, TLC

CONSTANTS j1, j2, d1, d2, d3

OneJob == {j1}
TwoJobs == {j1, j2}
TwoDispatches == {d1, d2}

All_local == [j \in Jobs |-> "local"]
All_linux == [j \in Jobs |-> "linux"]
All_macos == [j \in Jobs |-> "macos"]
OneClass == [j \in Jobs |-> "x64"]
OneSlot == [p \in Paths |-> 1]
TwoSlots == [p \in Paths |-> 2]

SymAll == Permutations(Dispatches) \cup Permutations(Jobs)
=============================================================================
