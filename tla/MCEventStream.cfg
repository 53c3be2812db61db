SPECIFICATION FairSpec
CONSTANTS
  Clients = {c1, c2}
  MaxEvents = 3
  MaxCloses = 2
  ColdClients = {c2}
INVARIANT ReceivedInOrder
PROPERTIES ImplementsFeed EventsReachConnectedClients
