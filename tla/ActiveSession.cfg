CONSTANTS
  Browsers = {b1, b2}
  MaxActs = 2
  MaxTroubles = 1
SPECIFICATION FairSessionSpec
INVARIANTS SessionTypeOK OneBrowserPasses SupersededByAnother
PROPERTIES RefusedIsSettled
CHECK_DEADLOCK FALSE
