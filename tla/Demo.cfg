SPECIFICATION DemoSpec
CONSTANTS
  Deadline = 3
  PingTimeout = 2
  Pause = 1
  MaxInt = 7
  Second = 3
  MaxPort = 5
  MaxRows = 5
  PortFallback = 3
  ConnectFallback = 1
  QueryFallback = 2
  RowsFallback = 4
  Containers = {"c1", "c2"}
  Batches = 2
  FirstFiles <- ManyFiles
  UserLines <- AddedLines
  Parent = {"TARGET"}
  Shells = {{}, {"API_KEY"}}
  MaxEdits = 1
  Environments <- OneOddSetting
INVARIANTS
  WaitIsBounded
  ReadyInTimeIsFound
  OnlySeededIsNamed
  SettingsTakeEffect
  NoKeyTwice
  TimeoutsAreExact
PROPERTY
  UserLinesAreKept
