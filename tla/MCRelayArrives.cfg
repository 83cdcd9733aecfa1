CONSTANTS
  N = 2
  Packet = {p}
  Replies1 = {a}
  Replies2 = {c}
  MaxPackets = 2
  MaxLost = 1
  MaxReplies = 0
  WithStray = {}
  Faults = {"send", "away"}
  Nowhere = Nowhere
  Clients <- MCClients
  Source <- MCSource
  Home <- MCHome
  Strays <- MCStrays
  ReplyOf <- MCReplyOf
  Blob <- MCBlob
  Address <- MCAddress
SPECIFICATION FairSpec
PROPERTY EveryPacketArrives
