SPECIFICATION FairSpec
CONSTANTS
  Post = {b1, b2}
  Nobody = Nobody
  owner = owner
  installer = installer
  Client = {owner, installer}
  Role <- Roles
  Uid <- Uids
  VehicleOwner <- FleetOwners
  VehicleDevice <- FleetDevices
  DeviceOwner <- DeviceOwners
  Body <- Bodies
  Wanted <- Subscriptions
  RecentCap = 1
  QueueCap = 1
  ByteXor <- BitXor
INVARIANTS TypeOK NoSendToClosed SameOrder DeliveredIsRecent StatsAgree
PROPERTIES PostsAnswered HungUpLeaves PublishedAtOnce
CHECK_DEADLOCK FALSE
