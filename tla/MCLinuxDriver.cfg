SPECIFICATION Spec
CONSTANTS
  Limits <- SmallLimits
  Socks <- TwoSocks
  s1 = s1
  s2 = s2
  Ports <- OnePort
  Buckets = 1
  CONFIG_HAFNIUM_MAX_VMS = 3
  CONFIG_HAFNIUM_MAX_VCPUS = 2
INVARIANTS
  
  SocketAlive
  SendsOwnMessage

  
  
CHECK_DEADLOCK FALSE
