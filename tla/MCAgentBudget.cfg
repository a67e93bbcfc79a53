SPECIFICATION BudgetSpec
CONSTANTS
  Trials = {1, 2, 3}
  Concurrency = 2
  MaxSteps <- MCMaxSteps
  MaxAttempts <- MCMaxAttempts
  MaxOutput <- MCMaxOutput
  Estimates = {1, 3}
  Prompts = {1, 3}
  Completions = {0, 2, 4}
  InputPrice = 3
  OutputPrice = 3
  TokensPerMtok = 4
  Budgets <- MCBudgets
  MaxRecorded = 3
INVARIANTS
  CommittedReconciles
  BreachedByOverrunOnly
  RoundingNeverOverruns
  AdmittedPlanSuffices
  StatusAgreesWithLedger
  ReplayWithinReservation
CHECK_DEADLOCK FALSE
