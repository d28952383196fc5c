--------------------------- MODULE MCKmsPromotion ---------------------------
(***************************************************************************)
(* KmsPromotion on a small instance: two-of-255 sharing with holders at    *)
(* both ends of the index range, tokens of one length and of another.      *)
(***************************************************************************)
EXTENDS KmsPromotion

CONSTANTS DnsOverHttps, StaticIp, AlternateRegion

MCSecrets == {<<87>>, <<131>>, <<131, 1>>}
MCCoefficients == {<< <<83>>, <<202>> >>}
MCRegistered ==
  {<<DnsOverHttps, AlternateRegion, StaticIp>>, <<DnsOverHttps, DnsOverHttps, StaticIp>>}
=============================================================================
