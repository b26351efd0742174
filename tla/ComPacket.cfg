SPECIFICATION Spec
CONSTANTS
  COM_PACKET_PAYLOAD_SIZE = 8
  Crc <- MCCrc
  source_address = 26
  dest_address = 29
  Payloads <- MCPayloads
  Beyond <- MCBeyond
  NULL = NULL
  Commands <- MCCommands
  SetCommands <- MCSetCommands
  ParaCommands <- MCParaCommands
  Before <- MCBefore
  After <- MCAfter
  Timeouts = {1}
  Reused <- MCReused
  TickMod = 3
  MaxElapsed = 2
INVARIANTS TypeOK IntactIsReceived ReportsAreRefused AcceptedIsThere AcceptedWasSent CommandIsOrdered
INVARIANTS OversizeIsPassedOver TimeoutIsReal
