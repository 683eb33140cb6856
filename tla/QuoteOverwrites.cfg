CONSTANTS
  Tabs = {{ann}, {bob}}
  Savers = {ann, bob}
  Managers = {}
  Revisers = {}
  Families = {f1}
  Chosen = {}
  MaxVersion = 3
  MaxRows = 1
  MaxTroubles = 0
SPECIFICATION BaseSpec
PROPERTIES NoSilentOverwrite
