SPECIFICATION EngineSpec
CONSTANTS
  Address <- MCAddress
  IPv4 <- MCIPv4
  Hosts <- MCHosts
  Resolver <- MCResolver
  Resolutions <- MCResolutions
INVARIANTS LocalUnreachabilityIsReported
