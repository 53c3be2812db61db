SPECIFICATION FairSpec
CONSTANTS
  Clients = {c1, c2}
  MaxEvents = 3
  MaxCloses = 2
  MaxRestarts = 1
PROPERTIES FollowsFeed EventsReachConnectedClients
