SPECIFICATION FairSpec
CONSTANTS
  KeyPieces <- ThePieces
  Extensions <- TheExtensions
  Normal <- TheNormal
  Unescaped <- TheUnescaped
  Malformed = "malformed"
  Hosted <- TheHosted
  Dns <- TheDns
  NameLike <- TheNames
  Releases <- TheReleases
  Listed <- TheListed
  Configs <- TheConfigs
  Asks <- TheAsks
  Running <- Usual
  Downloads <- TheDownloads
  Requests = {r1, r2}
  Tiers = 2
  Hashed <- TheHashed
  AgeGated <- TheAgeGated
  b1 = b1
  Bytes = {b1, b2}
  Fresh = {b2}
  Published <- ThePublished
  Earlier <- TheEarlier
  None = None
  MaxTrouble = 1
CHECK_DEADLOCK FALSE
INVARIANTS
  TypeOK
  OldEnoughOnly
  DenialCoversVersion
  OuterFaultHeals
  TokensSeparate
  LinksResolve
PROPERTIES
  ImplementsGate
  
