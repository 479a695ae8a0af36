SPECIFICATION FairSpec
CONSTANTS
  Nodes = {1, 2, 3, 4}
  Dummy = Dummy
  Null = Null
  Net = Net
  World = World
  w1 = w1
  w2 = w2
  Workers = {w1, w2}
  Threads = {Net, World, w1, w2}
  Consumer = Net
  Size <- MCSize
  SendBufferSize = 2
  MaxRead = 2
INVARIANTS
  NodesAlive
  SessionAlive
PROPERTIES
  ChannelRefined
  EveryPacketWritten
  RefusedIsClosed
