SPECIFICATION Spec
CONSTANTS
  DnsOverHttps = DnsOverHttps
  StaticIp = StaticIp
  AlternateRegion = AlternateRegion
  TokenHashes <- MCSecrets
  Secrets <- MCSecrets
  Coefficients <- MCCoefficients
  Registered <- MCRegistered
  Channels = {DnsOverHttps, StaticIp, AlternateRegion}
  Ticks = {1, 2}
  Signers = {"HwKey1", "HwKey2"}
  Operators = {1, 97, 255}
  T = 2
  N = 255
  Threshold = 2
  Hour = 2
  MaxDown = 3
  MaxIssues = 2
  MaxHand = 2
INVARIANTS QuorumsAgree AnyQuorumOpens
  TokenConsumedOnce HonestLogVerifies AnchoredMeansPublished
PROPERTIES PromotionIsEarned
CHECK_DEADLOCK FALSE
