SPECIFICATION Spec
CONSTANTS
  high = high
  low = low
  DataRequest <- MCRequest
  Priority <- MCPriority
  HighPriority = 10
  NoData = NoData
  MaxVersion = 2
  MaxFail = 1
  Big = {1}
INVARIANTS NoReloadLost PromiseKept BestIsLoaded
PROPERTIES NeverDowngrades MainReturns RequestsServed
