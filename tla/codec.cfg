SPECIFICATION Spec
CONSTANTS
  Param_struct <- MCParam_struct
  Message_struct <- MCMessage_struct
  Anchors <- MCAnchors
  Samples <- MCSamples
  Replies <- MCReplies
  Readers <- MCReaders
  Configs <- MCConfigs
  MaxParts = 3
INVARIANTS DecodedAsSent DamageContained SuccessIsReal EncodedAsMeant ROSpecAsConfigured
CHECK_DEADLOCK FALSE
