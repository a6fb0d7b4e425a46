\* The configuration saveJsonConf writes: computers named by their endpoint
\* 'ip:10000', while affected_paths holds bare IP addresses.
CONSTANTS
  r1 = r1
  r2 = r2
  Hosts <- MC_Hosts
  Switches <- MC_Switches
  TopoLinks <- MC_TopoLinks
  KeyOrder <- MC_KeyOrder
  LambdaPortSuffix = ":10000"
  NoNode = NoNode
  Routers <- MC_Routers
  Computers <- MC_EndpointComputers
  Paths <- MC_Paths
  InstalledEntries <- MC_InstalledEntries
  PortSuffix = ":10000"
  DryRun = FALSE
  MonitoredLinks <- MC_MonitoredLinks
  MaxCount = 2
  ThresholdBps = 7
  Interval = 1
  NoSample = NoSample
  HostOf <- MC_HostOf

INIT MonitorInit
NEXT MonitorNext

INVARIANT Coverage

