SPECIFICATION Spec
CONSTANTS
  Relays <- MCRelays
  Packets <- MCPackets
  Reports <- MCReports
  Files <- MCFiles
  Updates <- MCUpdates
INVARIANTS
  PacketCrosses
  PacketAckComesBack
  EventKept
  MergesOverlay
