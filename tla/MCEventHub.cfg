SPECIFICATION HubSpec
CONSTANTS
  Subscribers = {s1, s2}
  Snapshots = {v1, v2}
  subscriberBuffer = 1
  MaxChanges = 2
INVARIANT NoFault
PROPERTIES ChannelsAreReleased LatestKnown
CHECK_DEADLOCK FALSE
