\* The links, the log, the files and the HMI, side by side.
CONSTANTS
  Capacity = 4
  Bytes = {0, 1}
  Messages <- SomeMessages
  SharedLine = TRUE
  MaxAlarms = 1
  Readers = {0, 1}
  LogSize = 2
  MaxRecord = 3
  MaxRead = 2
  CountLimit = 8
  Payloads <- SomePayloads
  Crc <- SomeCrc
  Values = {0, 1, 4}
  Sync = 4
  MaxPayload = 2
  RxSize = 16
  FeedLoss = 1
  PollLoss = 2
  MaxNoise = 1
  StepLimit = 12
  SavePeriod = 4
  MaxFailures = 1
  Addresses = {1, 2}
  FirstAddress = 1
  AnnouncePeriod = 2
  ClockLimit = 5
  Limits = {"user_charge_current_limit"}
  Settings = {"soc_scaling"}
  WriteLimit = 2
  MaxWrites = 2
  Highest = 3
  PageSize = 1

SPECIFICATION LinksSpec

INVARIANTS
  TransferOwnsItsBytes
  ReadsInOrder
  FeedRecovers
  PollRecovers
  FlashIsRecent
  SettingsAreSaved
  EventsPagedOnce

PROPERTIES
  SentInOrder
  BlockingSendReturns
  SentWhileCalled
  QuietWhilePolled
