SPECIFICATION FairSpec
CONSTANTS
  Calls <- MCCalls
  Reqs <- MCReqs
  Statuses = {200, 204, 404, 429, 503}
  ClientTimeout = 0
  NoRateLimitBackoff = FALSE
  RequestTimeout = 1
  CoolDown = 2
  InitialInterval = 1
  MaxInterval = 2
  Horizon = 5
INVARIANTS BreakerStopsCalls RetriesOnlyTransient CallBounded ResultIsLastAttempt
PROPERTIES CancelEndsCall
