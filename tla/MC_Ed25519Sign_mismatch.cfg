CONSTANTS
  P <- MC_P
  EncBits <- MC_EncBits
  LimbBits <- MC_LimbBits
  ScalarBytes <- MC_ScalarBytes
  BasePoint <- MC_BasePoint
  BaseOrder <- MC_BaseOrder
  Seeds <- MC_Seeds
  Messages <- MC_Messages
  AnyPublicHalf = TRUE
  MaxSigns = 2
SPECIFICATION Spec
\* After MaxSigns calls of ED25519_sign only key derivation can happen.
INVARIANT
  OneSignaturePerSeedAndMessage
