CONSTANTS
  plain = plain
  shop = shop
  g1 = g1
  g2 = g2
  own = own
  kerala = kerala
  goa = goa
  central = central
  local = local
  kit = kit
  i1 = i1
  i2 = i2
  Presets = {plain, shop, g1, g2, own}
  Custom = {own}
  Generated = {g1, g2}
  Commercial = {shop}
  States = {kerala, goa}
  NoState = NoState
  Home <- MCHome
  Schemes = {central, local}
  Applies <- MCApplies
  Catalogues <- MCCatalogues
  Structures = {1, 2}
  Kits = {kit}
  Inputs = {i1, i2}
  Snapshots <- MCSnapshots
  None = None
  NoFigures = NoFigures
SPECIFICATION Spec
INVARIANTS TypeOK FiguresCurrent
PROPERTIES ChoiceKept SubsidyWithheld RowEditsStay
CONSTRAINT FewRows
