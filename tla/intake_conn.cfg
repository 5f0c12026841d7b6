\* five budgets of posts, scans, PATCHes and faults
SPECIFICATION FairSpec
CONSTANTS
  MaxPosts = 2
  MaxEvents = 1
  MaxPatches = 1
  MaxConns = 2
  Rows <- AllRows
  Budgets <- IntakeBudgets
INVARIANTS
  LogBeforeAct
  HandedOnce
  NeverSleepsOnWork
  SettingsMatchRow
PROPERTIES
  PostsGetTaken
