CONSTANTS
  Plan <- MCPlan
  Callers = {"request", "worker"}
  Publishers = {"p"}
  NoPublisher = "none"
  MaxTotal = 1
  Host <- MCHost
SPECIFICATION SSpec
INVARIANTS NoUseAfterClose FirstErrorWins OneUserPerPublisher DialerOutlivesPublishers
PROPERTIES ShutdownCompletes ImplementsLifecycle CancelEndsPublish
