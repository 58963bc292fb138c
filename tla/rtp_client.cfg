SPECIFICATION Spec
CONSTANTS
  PacketSize = 2
  SeqLimit = 2
  MaxAudio = 9
  Scenarios = {{}, {"pcap"}, {"mono"}, {"local"}, {"noSocket"}, {"refused", "slow", "expired"}, {"noOutput", "slow"}, {"noAudio"}, {"slow"}}
CHECK_DEADLOCK FALSE
INVARIANTS StreamContiguous OnlyTailLost NoOrphan
PROPERTIES SentInsideCall
