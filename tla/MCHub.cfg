\* A connection of a user, a topic with messages, and the hub is closed.
CONSTANTS
  c1 = c1   u1 = u1   feed = feed
  Clients = {c1}
  Users = {u1, Anonymous}
  Anonymous = Anonymous
  UserOf <- MCUserOf
  Topics = {feed}
  UserRoom <- MCUserRoom
  MaxMsgs = 3
  BroadcastCap = 1
  SendCap = 1
SPECIFICATION FairSpec
INVARIANTS
  MembersMatch
  OnlineSound
PROPERTIES
  NoGap
  ShutsDown
CHECK_DEADLOCK FALSE
