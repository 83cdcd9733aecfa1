CONSTANTS
  N = 1
  Packet = {p}
  Replies1 = {a}
  Replies2 = {}
  MaxPackets = 2
  MaxLost = 2
  MaxReplies = 2
  WithStray = {1}
  Faults = {"socket", "bind", "send", "tooLong", "away"}
  Nowhere = Nowhere
  Clients <- MCClients
  Source <- MCSource
  Home <- MCHome
  Strays <- MCStrays
  ReplyOf <- MCReplyOf
  Blob <- MCBlob
  Address <- MCAddress
SPECIFICATION FairSpec
PROPERTIES EveryReplyReturns AwayIsNoticed ErrorCostsNoOther
INVARIANTS ActiveHasPort NewSocketGoesHome
