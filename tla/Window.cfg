SPECIFICATION FairSpec
CONSTANTS
  Blocks = 2
  MaxEvents = 2
  MaxJobs = 2
INVARIANTS
  TypeOK
  ButtonsGuardWorker
  CancelledOnlyIfAsked
  CancelTakesEffect
PROPERTIES
  OutcomeIsLogged
  EveryJobEnds
