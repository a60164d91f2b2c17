SPECIFICATION MCSpec
CONSTANTS
  t1 = t1  t2 = t2  t3 = t3
  o1 = o1  o2 = o2  o3 = o3
  d1 = d1  d2 = d2  d3 = d3
  NoThread = NoThread  NoObject = NoObject  NoData = NoData
  Threads <- MCThreads
  Objects <- MCObjects
  Data <- MCData
  MaxCalls <- Calls
PROPERTIES
  SwapIsAtomic
  SwapsReturn
