SPECIFICATION FairSpec
CONSTANTS
  x = x y = y p1 = p1 p2 = p2
  Processes = {p1, p2}
  Fields = {x, y}
  Absent = Absent
  Broken = Broken
  Nobody = Nobody
  MaxValues = 2
  MaxFaults = 1
  MaxReloads = 1
  MaxTrusts = 1
INVARIANTS
  TrustDecides
  SettingsSurvive
PROPERTIES
  
  WritesAndReloadsEnd
CHECK_DEADLOCK FALSE
