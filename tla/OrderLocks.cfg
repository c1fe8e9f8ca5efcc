SPECIFICATION Spec
CONSTANTS
  udp = udp
  sender = sender
  w1 = w1
  w2 = w2
  Workers = {w1, w2}
  UdpThread = udp
  Sender = sender
INVARIANTS TypeOK NoCircle ChannelsExclusive ClientsExclusiveButLinkClose
