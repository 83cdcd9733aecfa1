CONSTANTS
  N = 1
  Packet = {p}
  Replies1 = {a}
  Replies2 = {}
  MaxPackets = 2
  MaxLost = 1
  MaxReplies = 1
  WithStray = {}
  Faults = {"away"}
  Nowhere = Nowhere
  Clients <- MCClients
  Source <- MCSource
  Home <- MCHome
  Strays <- MCStrays
  ReplyOf <- MCReplyOf
  Blob <- MCBlob
  Address <- MCAddress
SPECIFICATION Spec
INVARIANT FeedMayGoAway
