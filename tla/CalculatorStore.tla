-------------------------- MODULE CalculatorStore --------------------------
(***************************************************************************)
(* The store of the calculator in one browser: the preset, the state, the  *)
(* subsidy scheme and the other inputs, the master data they are looked up *)
(* in, and the figures.  The figures are not derived when they are shown:  *)
(* each handler decides what to compute again, after it has changed the    *)
(* inputs.  Master data, drafts, custom presets and quotes arrive between  *)
(* the user's acts, in any order and any number of times.                  *)
(***************************************************************************)
EXTENDS Integers, FiniteSets

CONSTANTS
  Presets,      \* the solar systems: those of the settings (Custom), those
  Custom,       \* made of the equipment when the master data has none
  Generated,    \* (Generated), and those of the master data
  Commercial,   \* presets of the category commercial
  States, NoState,
  Home,         \* the state of each preset, NoState if it has none
  Schemes,
  Applies,      \* <<scheme, project type, state>>: where each one applies
  Catalogues,   \* the master data the server may send
  Structures,   \* the part of it that follows the page
  Kits,         \* equipment put together by hand, or none
  Inputs,       \* the margin, the discount and so on
  Snapshots,    \* what drafts, custom presets and quotes put back
  None, NoFigures

Types == {"residential", "commercial"}
Places == States \cup {NoState}
Equipment == Presets \cup Kits

ASSUME PresetsAssumption ==
  /\ Custom \subseteq Presets /\ Home \in [Presets -> Places]
  /\ None \notin Presets \cup Schemes
ASSUME CataloguesAssumption ==
  Catalogues \subseteq [presets : SUBSET (Presets \ Custom),
                        schemes : SUBSET Schemes]
ASSUME SnapshotsAssumption ==
  Snapshots \subseteq
    [preset : Presets \cup {None}, state : Places, type : Types,
     equipment : Equipment, inputs : Inputs, itc : BOOLEAN,
     overrides : SUBSET Presets, disabled : SUBSET Presets]

VARIABLE store

(* Before any master data has arrived.                                     *)
NoCatalogue == [presets |-> {}, schemes |-> {}]

First(S) == IF S = {} THEN None ELSE CHOOSE x \in S : TRUE

-----------------------------------------------------------------------------
(* What the engine computes                                                *)

Known(s) == IF s.loaded THEN s.catalogue.presets ELSE Custom

Eligible(s) ==
  {x \in s.catalogue.schemes : <<x, s.type, s.state>> \in Applies}

(* The scheme the figures use.                                             *)
Resolved(s) ==
  IF s.type = "commercial" THEN None
  ELSE IF s.scheme \in Eligible(s) THEN s.scheme ELSE First(Eligible(s))

(* Figures are told apart by what they were computed from; an error of the *)
(* engine counts as figures, too.                                          *)
Figures(s) ==
  [preset |-> s.preset, state |-> s.state, type |-> s.type,
   scheme |-> Resolved(s), rpc |-> s.rpc, catalogue |-> s.catalogue,
   structures |-> s.structures, equipment |-> s.equipment,
   inputs |-> s.inputs, itc |-> s.itc,
   overrides |-> s.overrides, disabled |-> s.disabled]

(* Variant: figures also of no preset.                                     *)
RecalculatedAlways(s) ==
  [s EXCEPT !.figures = Figures(s),
            !.gone = s.preset # None /\ s.preset \notin Known(s)]

Recalculated(s) ==
  [s EXCEPT !.figures = IF s.preset \in Known(s) THEN Figures(s)
                                                 ELSE NoFigures,
            !.gone = s.preset # None /\ s.preset \notin Known(s)]

(* "Selected preset no longer exists."                                     *)
Blocked(s) ==
  [s EXCEPT !.preset = None, !.figures = NoFigures, !.gone = TRUE]

-----------------------------------------------------------------------------
(* What the handlers are made of                                           *)

Repicked(s) ==
  IF s.scheme \in Eligible(s) THEN s
  ELSE [s EXCEPT !.scheme = First(Eligible(s)), !.rpc = "null"]

(* No preset is selected: the first one is, and all else is left.          *)
Assigned(s) ==
  IF s.preset = None /\ s.loaded
  THEN [s EXCEPT !.preset = First(s.catalogue.presets)]
  ELSE s

(* Variant: without the last reset.                                        *)
FetchKeepsAmount(s) ==
  LET t == Assigned(s)
  IN  Recalculated(IF ~t.loaded \/ t.type = "commercial"
                   THEN [t EXCEPT !.rpc = "zero"]
                   ELSE Repicked(t))

(* The server is no longer asked: 0 is written, or the engine's own        *)
(* computation allowed.                                                    *)
FetchRpcSubsidy(s) ==
  LET t == Assigned(s)
  IN  Recalculated(IF ~t.loaded \/ t.type = "commercial"
                   THEN [t EXCEPT !.rpc = "zero"]
                   ELSE [Repicked(t) EXCEPT !.rpc = "null"])

(* Variant: without "overrides: {}".                                       *)
ChosenKeepsRows(s, p) ==
  [s EXCEPT
     !.preset = p, !.equipment = p,
     !.state = IF Home[p] # NoState THEN Home[p] ELSE s.state,
     !.type = IF p \in Generated THEN s.type
              ELSE IF p \in Commercial THEN "commercial" ELSE "residential"]

(* A generated preset leaves the project type and the rows that are        *)
(* switched off.                                                           *)
Chosen(s, p) ==
  [s EXCEPT
     !.preset = p, !.equipment = p, !.overrides = {},
     !.state = IF Home[p] # NoState THEN Home[p] ELSE s.state,
     !.disabled = IF p \in Generated THEN s.disabled ELSE {},
     !.type = IF p \in Generated THEN s.type
              ELSE IF p \in Commercial THEN "commercial" ELSE "residential"]

SelectSystem(s, p) ==
  IF p \in Known(s) THEN FetchRpcSubsidy(Repicked(Chosen(s, p)))
                    ELSE Blocked(s)

(* Variant: a preset that is still there needs no calculation.             *)
SettledLazily(s) ==
  IF s.preset = None /\ s.catalogue.presets # {}
  THEN SelectSystem(s, First(s.catalogue.presets))
  ELSE IF s.preset # None /\ s.preset \notin s.catalogue.presets
  THEN Blocked(s) ELSE s

(* Variant: the first preset for one that is gone.                         *)
SettledSilently(s) ==
  IF s.preset \notin s.catalogue.presets /\ s.catalogue.presets # {}
  THEN SelectSystem(s, First(s.catalogue.presets))
  ELSE Recalculated(s)

(* After presets have arrived.                                             *)
Settled(s) ==
  IF s.preset = None /\ s.catalogue.presets # {}
  THEN SelectSystem(s, First(s.catalogue.presets))
  ELSE IF s.preset # None /\ s.preset \notin s.catalogue.presets
  THEN Blocked(s)
  ELSE Recalculated(s)

PutBack(s, q) ==
  [s EXCEPT !.preset = q.preset, !.state = q.state, !.type = q.type,
            !.equipment = q.equipment, !.inputs = q.inputs,
            !.overrides = q.overrides, !.disabled = q.disabled]

-----------------------------------------------------------------------------
Init ==
  \E k \in Kits, i \in Inputs, d \in Structures :
    store = [loaded |-> FALSE, catalogue |-> NoCatalogue, structures |-> d,
             preset |-> None, state |-> NoState, type |-> "residential",
             scheme |-> None, rpc |-> "null", equipment |-> k, inputs |-> i,
             itc |-> FALSE, overrides |-> {}, disabled |-> {},
             figures |-> NoFigures, gone |-> FALSE]

(* The user                                                                *)

PickPreset(p) == store' = SelectSystem(store, p)

PickState(x) ==
  store' = FetchRpcSubsidy(
             [Repicked([store EXCEPT !.state = x]) EXCEPT !.rpc = "null"])

(* The control is shown with the figures of a residential project.         *)
PickScheme(x) ==
  /\ store.figures # NoFigures /\ store.type = "residential"
  /\ store' = Recalculated(
       [store EXCEPT !.rpc = "null",
          !.scheme = IF x \in Eligible(store) THEN x
                     ELSE First(Eligible(store))])

ChangeEquipment(k) == store' = FetchRpcSubsidy([store EXCEPT !.equipment = k])

ChangeInput(i) == store' = Recalculated([store EXCEPT !.inputs = i])

ToggleItc == store' = [store EXCEPT !.itc = ~store.itc]

(* Rows are changed, restored and switched on and off in the table of the  *)
(* figures.                                                                *)
OverrideRows(o) ==
  /\ store.figures # NoFigures
  /\ store' = Recalculated([store EXCEPT !.overrides = o])

SwitchRows(o) ==
  /\ store.figures # NoFigures
  /\ store' = Recalculated([store EXCEPT !.disabled = o])

(* What is put back                                                        *)

(* The draft, when the page opens.                                         *)
RestoreDraft(q) ==
  LET known == store.catalogue.presets
      s == [PutBack(store, q) EXCEPT !.itc = q.itc]
  IN  store' = Recalculated(IF known # {} /\ q.preset \notin known
                            THEN [s EXCEPT !.preset = None] ELSE s)

LoadPreset(q) ==
  store' = Recalculated([PutBack(store, q) EXCEPT !.itc = q.itc])

LoadQuote(q) == store' = Recalculated(PutBack(store, q))

(* Master data                                                             *)

Fetched(m, d) ==
  Settled(Repicked([store EXCEPT !.catalogue = m, !.structures = d,
                                 !.loaded = TRUE]))

FetchMasterData(m, d) == store' = Fetched(m, d)

(* The same after a signal that the master data changed.  The calculation  *)
(* that follows takes the message of a blocked preset away.                *)
RefreshMasterData(m, d) == store' = Recalculated(Fetched(m, d))

FetchFails == store' = Recalculated(store)

(* The data of the rendered page, which counts as loaded once it has       *)
(* presets, and what is streamed after it.                                 *)
SetOfflineData(m) ==
  LET s == Repicked([store EXCEPT !.catalogue = m,
                       !.loaded = store.loaded \/ m.presets # {}])
  IN  store' = IF m.presets # {} THEN Settled(s) ELSE Recalculated(s)

SetDeferredData(d) ==
  store' = [store EXCEPT !.structures = d,
              !.loaded = store.loaded \/ store.catalogue.presets # {}]

ByUser ==
  \/ \E p \in Presets : PickPreset(p)
  \/ \E x \in States : PickState(x)
  \/ \E x \in Schemes : PickScheme(x)
  \/ \E k \in Kits : ChangeEquipment(k)
  \/ \E i \in Inputs : ChangeInput(i)
  \/ ToggleItc
  \/ \E o \in SUBSET (store.overrides \cup {store.preset}) : OverrideRows(o)
  \/ \E o \in SUBSET (store.disabled \cup {store.preset}) : SwitchRows(o)

Restoring ==
  \E q \in Snapshots : RestoreDraft(q) \/ LoadPreset(q) \/ LoadQuote(q)

ByServer ==
  \/ \E m \in Catalogues, d \in Structures :
       FetchMasterData(m, d) \/ RefreshMasterData(m, d)
  \/ FetchFails
  \/ \E m \in Catalogues : SetOfflineData(m)
  \/ \E d \in Structures : SetDeferredData(d)

Next == ByUser \/ Restoring \/ ByServer

Spec == Init /\ [][Next]_store

-----------------------------------------------------------------------------
FigureSet ==
  [preset : Presets, state : Places, type : Types,
   scheme : Schemes \cup {None}, rpc : {"null", "zero"},
   catalogue : Catalogues \cup {NoCatalogue}, structures : Structures,
   equipment : Equipment, inputs : Inputs, itc : BOOLEAN,
   overrides : SUBSET Presets, disabled : SUBSET Presets]

Stores ==
  [loaded : BOOLEAN, catalogue : Catalogues \cup {NoCatalogue},
   structures : Structures, preset : Presets \cup {None}, state : Places,
   type : Types, scheme : Schemes \cup {None}, rpc : {"null", "zero"},
   equipment : Equipment, inputs : Inputs, itc : BOOLEAN,
   overrides : SUBSET Presets, disabled : SUBSET Presets,
   figures : FigureSet \cup {NoFigures}, gone : BOOLEAN]

TypeOK == store \in Stores

Current(s) ==
  s.figures # NoFigures
    => /\ s.preset \in Known(s)
       /\ \E i \in BOOLEAN, d \in Structures :
            s.figures = [Figures(s) EXCEPT !.itc = i, !.structures = d]

(* Whatever arrives and in whatever order, the figures on the screen are   *)
(* those of the inputs and the master data of this moment, and of a preset *)
(* that exists in it; only switching the tax credit and the part of the    *)
(* master data that follows the page leave earlier figures.                *)
FiguresCurrent == Current(store)

(* The preset changes under the user only when it is gone from the master  *)
(* data, and then the calculation is blocked first.                        *)
ChoiceKept ==
  [][store.preset # None /\ store'.preset # store.preset
       => \/ store'.preset = None /\ store.preset \notin Known(store')
          \/ \E p \in Presets : PickPreset(p)
          \/ Restoring]_store

Withheld(s) == s.loaded /\ s.type = "residential" /\ s.rpc = "zero"

(* The 0 that stands for no subsidy, of a commercial project or from a     *)
(* time without master data, passes to a residential one only with what is *)
(* put back or with the first master data.                                 *)
SubsidyWithheld ==
  [][~Withheld(store) /\ Withheld(store') => ~store.loaded \/ Restoring]_store

Foreign(s) ==
  s.preset # None /\ ~(s.overrides \cup s.disabled \subseteq {s.preset})

(* Rows edited in the table of one preset change the figures of another    *)
(* only if the first one was gone and the store assigned the other, if the *)
(* other is generated, or if both were put back together.                  *)
RowEditsStay ==
  [][~Foreign(store) /\ Foreign(store')
       => store.preset = None \/ store'.preset \in Generated \/ Restoring]_store
=============================================================================
