------------------------- MODULE MCCalculatorStore -------------------------
(* A model-checking instance of CalculatorStore.                           *)
EXTENDS CalculatorStore

CONSTANTS plain, shop, g1, g2, own, kerala, goa, central, local, kit, i1, i2

MCHome == [p \in Presets |-> IF p = shop THEN goa ELSE NoState]

(* A central scheme applies in every state, the other in one.              *)
MCApplies ==
  {<<central, "residential", x>> : x \in Places}
    \cup {<<local, "residential", goa>>, <<local, "commercial", goa>>}

Catalogue(P, S) == [presets |-> P, schemes |-> S]

MCCatalogues ==
  {Catalogue({plain, shop}, {central, local}), Catalogue({shop}, {local}),
   Catalogue({g1, g2}, {central}), Catalogue({}, {central})}

Snapshot(p, x, t, o) ==
  [preset |-> p, state |-> x, type |-> t, equipment |-> kit, inputs |-> i1,
   itc |-> FALSE, overrides |-> o, disabled |-> {}]

MCSnapshots ==
  {Snapshot(plain, kerala, "residential", {plain}),
   Snapshot(shop, goa, "commercial", {}),
   Snapshot(None, goa, "residential", {plain})}

(* Rows of one preset at a time in each of the two lists.                  *)
FewRows ==
  Cardinality(store.overrides) <= 1 /\ Cardinality(store.disabled) <= 1
=============================================================================
