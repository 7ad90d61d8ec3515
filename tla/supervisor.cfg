SPECIFICATION FairSpec
CONSTANTS
  i1 = i1
  i2 = i2
  Inst = {i1, i2}
  s1 = s1
  Stop = {s1}
  None = None
  MaxExits = 1
  MaxFailures = 1
  MaxForgotten = 1
  MaxCrashes = 1

  
PROPERTIES
  Settles
CHECK_DEADLOCK FALSE
