SPECIFICATION Spec
CONSTANTS
  ShortRun = 5000
  LongRun = 60000
  Few = 10
  Many = 30
  Nap = 1000
  Rest = 30000
  LongRest = 60000
  PollTimeout = 600000
  Runtimes = {0, 5000, 60000, 600000}
  Inherited = TRUE
  MaxForks = 32
INVARIANTS TypeOK RateBounded PlannedRestartIsPrompt
CHECK_DEADLOCK FALSE
