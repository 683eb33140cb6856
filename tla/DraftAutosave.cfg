CONSTANTS
  Tabs = {t1, t2}
  Quoters = {t1}
  MaxEdits = 1
  MaxSaves = 1
  MaxOpenings = 2
  MaxTroubles = 1
SPECIFICATION FairSpec
INVARIANTS TypeOK SavedUnlessTaken
PROPERTIES ChangesAreStored
CHECK_DEADLOCK FALSE
