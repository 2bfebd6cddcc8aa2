CONSTANTS
  Browsers = {"ann", "bob"}
  Hosts = {"h1", "h2"}
  Tab = "ann"
  Emails = {"ann@x", "Ann@x", "bob@x", "demo@x"}
  DemoAccount = "demo@x"
  HostOf <- MCHostOf
  AccountOf <- MCAccountOf
  Requests = {1}
  DefaultMaxRequests = 2
  WindowSeconds = 2
  Scenes <- MCScenes
  MaxClock = 4
  MaxCount = 4
  MaxTokens = 2
  MaxCalls = 2
  MaxRefreshes = 2
SPECIFICATION FairSpec
INVARIANTS RateIsBounded ConnectorsAreTheCallers ListsAreCurrent
PROPERTIES ClientsAreClosed
CHECK_DEADLOCK FALSE
