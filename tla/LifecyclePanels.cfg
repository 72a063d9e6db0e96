SPECIFICATION FairSpec
CONSTANTS
  Panels = {"mi0283qt", "adafruit13", "itdb02_28", "hy28a", "ebay181283191283"}
  MayFail = TRUE
  MaxProbes = 2
INVARIANTS TypeOK Alive SentWhenReady SupplyBalanced LightFollows
PROPERTIES NearerEnd Unbinds
\* Nobody has to probe the device again.
CHECK_DEADLOCK FALSE
