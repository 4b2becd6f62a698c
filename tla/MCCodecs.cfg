SPECIFICATION CodecSpec
CONSTANTS
  Group = 8
  ValueLimit = 16
  MaxULEBLen = 2
  IntLimit = 8
  TagLen = 1
  Magic = 15
  Media <- MCMedia
  RangeList <- MCRangeList
  Nonce = {0, 7, 8, 15}
  WireByte = {0, 1, 7, 8, 9}
  MaxPacket = 8
  MaxRanged = 3
  VP8HeaderLen = 3
  MaxVCL264 = 2
  MaxVCL265 = 3
  NALTypes264 = 4
  NALTypes265 = 8
  DroppedOBUs = {2}
  MaxLEBLen = 2
  maxH26xRetries = 3
  MaxFrames = 2
  FrameOverhead = 7
INVARIANTS SealedFrameOpens OneSetOfBytes RangesPartitionFrame NonceUsedOnce CodecRangesAccepted OnlyMetadataReadable AV1FrameSplitsAgain
CHECK_DEADLOCK FALSE
