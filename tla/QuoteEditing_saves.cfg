CONSTANTS
  Tabs = {{ann1, ann2}}
  Savers = {ann1, ann2}
  Managers = {ann1, ann2}
  Revisers = {}
  Families = {f1, f2}
  Chosen = {}
  MaxVersion = 2
  MaxRows = 2
  MaxTroubles = 1
SYMMETRY Symmetry
SPECIFICATION Spec
INVARIANTS TypeOK OneQuotePerContents
PROPERTIES KeepsPromise
