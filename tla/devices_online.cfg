\* Two websockets of a device at one process, and a failure of some kind.
CONSTANTS
  d1 = d1  p1 = p1
  Device = {d1}
  Socket = {s1, s2}
  Process = {p1}
  DeviceOf <- OneDevice
  ProcessOf <- OneProcess
  Ttl = 3
  MaxFrames = 1
  MaxFailures = 1
SPECIFICATION FairSpec
INVARIANTS OpenIsRecorded
PROPERTIES FlagsConverge
