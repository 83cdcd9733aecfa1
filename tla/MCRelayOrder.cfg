CONSTANTS
  N = 2
  Packet = {p, q}
  Replies1 = {a, b}
  Replies2 = {c}
  MaxPackets = 2
  MaxLost = 1
  MaxReplies = 2
  WithStray = {}
  Faults = {"send"}
  Nowhere = Nowhere
  Clients <- MCClients
  Source <- MCSource
  Home <- MCHome
  Strays <- MCStrays
  ReplyOf <- MCReplyOf
  Blob <- MCBlob
  Address <- MCAddress
SYMMETRY Alike
SPECIFICATION Spec
INVARIANT TypeOK
PROPERTIES EveryPacketInOrder RepliesInOrder
