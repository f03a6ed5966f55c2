CONSTANTS
  N = 2
  Users = {"u1", "u2"}
  Actions = {"abort", "report"}
  MaxCalls = 2
SPECIFICATION Spec
INVARIANTS TornOnce QueryOnLive FreedUnused FreedAllTorn ReaperLetGo
PROPERTY ClaimStands
CHECK_DEADLOCK FALSE
