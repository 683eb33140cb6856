----------------------- MODULE CalculatorStore_proofs -----------------------
(***************************************************************************)
(* Proofs of the properties of CalculatorStore for every set of presets,   *)
(* schemes, catalogues and snapshots.  The handlers are compositions of a  *)
(* few functions on the store; a lemma for each of these says what it      *)
(* leaves and what it settles, and the handlers follow from the lemmas.    *)
(***************************************************************************)
EXTENDS CalculatorStore, TLAPS

(* The fields that no calculation writes.                                  *)
SameMasterData(r, s) == r.loaded = s.loaded /\ r.catalogue = s.catalogue

SameProject(r, s) ==
  /\ r.type = s.type /\ r.state = s.state /\ r.itc = s.itc
  /\ r.structures = s.structures /\ r.inputs = s.inputs
  /\ r.equipment = s.equipment
  /\ r.overrides = s.overrides /\ r.disabled = s.disabled

-----------------------------------------------------------------------------
(* The first element of a list is one of its elements, or none.            *)
LEMMA FirstIsMember ==
  ASSUME NEW S
  PROVE  /\ S = {} => First(S) = None
         /\ S # {} => First(S) \in S
  BY DEF First

(* The schemes offered are schemes, so is the one the figures use.         *)
LEMMA SchemesTyped ==
  ASSUME NEW s \in Stores
  PROVE  /\ Eligible(s) \subseteq Schemes
         /\ First(Eligible(s)) \in Schemes \cup {None}
         /\ Resolved(s) \in Schemes \cup {None}
<1>1. Eligible(s) \subseteq Schemes
  <2>1. s.catalogue.schemes \subseteq Schemes
    <3>1. s.catalogue \in Catalogues \cup {NoCatalogue}
      BY DEF Stores
    <3> QED
      BY <3>1, CataloguesAssumption DEF NoCatalogue
  <2> QED
    BY <2>1 DEF Eligible
<1>2. First(Eligible(s)) \in Schemes \cup {None}
  BY <1>1, FirstIsMember
<1> QED
  BY <1>1, <1>2 DEF Resolved

(* The presets of the master data are presets, and not those of the        *)
(* settings.                                                               *)
LEMMA KnownTyped ==
  ASSUME NEW s \in Stores
  PROVE  /\ s.catalogue.presets \subseteq Presets
         /\ Known(s) \subseteq Presets /\ None \notin Known(s)
<1>1. s.catalogue \in Catalogues \cup {NoCatalogue}
  BY DEF Stores
<1>2. s.catalogue.presets \subseteq Presets
  BY <1>1, CataloguesAssumption DEF NoCatalogue
<1> QED
  BY <1>2, PresetsAssumption DEF Known

(* The figures of a known preset are of their type.                        *)
LEMMA FiguresTyped ==
  ASSUME NEW s \in Stores, s.preset \in Known(s)
  PROVE  Figures(s) \in FigureSet
  BY SchemesTyped, KnownTyped DEF Figures, FigureSet, Stores

(* Writing what is there changes nothing.                                  *)
LEMMA FiguresUnchanged ==
  ASSUME NEW f \in FigureSet
  PROVE  f = [f EXCEPT !.itc = f.itc, !.structures = f.structures]
  BY DEF FigureSet

(* A calculation leaves everything but the figures, and leaves them        *)
(* current.                                                                *)
LEMMA Recalculation ==
  ASSUME NEW s \in Stores
  PROVE  LET r == Recalculated(s)
         IN  /\ r \in Stores /\ Current(r)
             /\ SameMasterData(r, s) /\ SameProject(r, s)
             /\ r.preset = s.preset /\ r.scheme = s.scheme /\ r.rpc = s.rpc
<1> DEFINE r == Recalculated(s)
<1>1. s.preset \in Known(s) => Figures(s) \in FigureSet
  BY FiguresTyped
<1>2. r \in Stores
  BY <1>1 DEF Recalculated, Stores
<1>3. /\ SameMasterData(r, s) /\ SameProject(r, s)
      /\ r.preset = s.preset /\ r.scheme = s.scheme /\ r.rpc = s.rpc
  BY DEF Recalculated, Stores, SameMasterData, SameProject
<1>4. Known(r) = Known(s)
  BY <1>3 DEF Known, SameMasterData
<1>5. Figures(r) = Figures(s)
  <2>1. Eligible(r) = Eligible(s)
    BY <1>3 DEF Eligible, SameMasterData, SameProject
  <2>2. Resolved(r) = Resolved(s)
    BY <1>3, <2>1 DEF Resolved, SameProject
  <2> QED
    BY <1>3, <2>2 DEF Figures, SameMasterData, SameProject
<1>6. r.figures = IF s.preset \in Known(s) THEN Figures(s) ELSE NoFigures
  BY DEF Recalculated, Stores
<1>7. ASSUME s.preset \in Known(s)
      PROVE  Figures(s) = [Figures(s) EXCEPT !.itc = s.itc,
                                             !.structures = s.structures]
  <2>1. Figures(s).itc = s.itc /\ Figures(s).structures = s.structures
    BY DEF Figures
  <2> QED
    BY <1>1, <1>7, <2>1, FiguresUnchanged
<1>8. s.itc \in BOOLEAN /\ s.structures \in Structures
  BY DEF Stores
<1>9. Current(r)
  BY <1>3, <1>4, <1>5, <1>6, <1>7, <1>8 DEF Current
<1> QED
  BY <1>2, <1>3, <1>9

(* Blocking leaves no preset and no figures.                               *)
LEMMA Blocking ==
  ASSUME NEW s \in Stores
  PROVE  LET r == Blocked(s)
         IN  /\ r \in Stores /\ Current(r)
             /\ SameMasterData(r, s) /\ SameProject(r, s)
             /\ r.preset = None /\ r.rpc = s.rpc
  BY DEF Blocked, Stores, Current, SameMasterData, SameProject

(* Picking a scheme again leaves the preset and the project, and may take  *)
(* the amount of the server away.                                          *)
LEMMA Repicking ==
  ASSUME NEW s \in Stores
  PROVE  LET r == Repicked(s)
         IN  /\ r \in Stores
             /\ SameMasterData(r, s) /\ SameProject(r, s)
             /\ r.preset = s.preset /\ r.rpc \in {s.rpc, "null"}
  BY SchemesTyped DEF Repicked, Stores, SameMasterData, SameProject

(* The preset assigned is the first one, and only in place of none.        *)
LEMMA Assigning ==
  ASSUME NEW s \in Stores
  PROVE  LET r == Assigned(s)
         IN  /\ r \in Stores
             /\ SameMasterData(r, s) /\ SameProject(r, s)
             /\ s.preset # None => r.preset = s.preset
             /\ r.scheme = s.scheme /\ r.rpc = s.rpc
<1>1. First(s.catalogue.presets) \in Presets \cup {None}
  BY FirstIsMember, KnownTyped
<1> QED
  BY <1>1 DEF Assigned, Stores, SameMasterData, SameProject

(* With master data, a residential project never keeps the 0 through a     *)
(* fetch of the subsidy.                                                   *)
LEMMA Fetching ==
  ASSUME NEW s \in Stores
  PROVE  LET r == FetchRpcSubsidy(s)
         IN  /\ r \in Stores /\ Current(r)
             /\ SameMasterData(r, s) /\ SameProject(r, s)
             /\ s.preset # None => r.preset = s.preset
             /\ ~Withheld(r)
<1> DEFINE t == Assigned(s)
           z == [t EXCEPT !.rpc = "zero"]
           n == [Repicked(t) EXCEPT !.rpc = "null"]
           u == IF ~t.loaded \/ t.type = "commercial" THEN z ELSE n
<1>1. /\ t \in Stores /\ SameMasterData(t, s) /\ SameProject(t, s)
      /\ s.preset # None => t.preset = s.preset
  BY Assigning
<1> HIDE DEF t
<1>2. /\ z \in Stores /\ SameMasterData(z, t) /\ SameProject(z, t)
      /\ z.preset = t.preset
  BY <1>1 DEF Stores, SameMasterData, SameProject
<1>3. /\ n \in Stores /\ SameMasterData(n, t) /\ SameProject(n, t)
      /\ n.preset = t.preset /\ n.rpc = "null"
  <2> DEFINE p == Repicked(t)
  <2>1. /\ p \in Stores /\ SameMasterData(p, t) /\ SameProject(p, t)
        /\ p.preset = t.preset
    BY <1>1, Repicking
  <2> HIDE DEF p
  <2>2. n = [p EXCEPT !.rpc = "null"]
    BY DEF p
  <2> QED
    BY <2>1, <2>2 DEF Stores, SameMasterData, SameProject
<1>4. /\ u \in Stores /\ SameMasterData(u, s) /\ SameProject(u, s)
      /\ s.preset # None => u.preset = s.preset
      /\ ~Withheld(u)
  <2>1. u.loaded /\ u.type = "residential" => u.rpc = "null"
    BY <1>1, <1>2, <1>3 DEF SameMasterData, SameProject
  <2> QED
    BY <1>1, <1>2, <1>3, <2>1 DEF SameMasterData, SameProject, Withheld
<1> HIDE DEF u
<1>5. FetchRpcSubsidy(s) = Recalculated(u)
  BY DEF FetchRpcSubsidy, t, u
<1> QED
  BY <1>4, <1>5, Recalculation DEF SameMasterData, SameProject, Withheld

(* Choosing a preset clears the rows edited in the table of another.       *)
LEMMA Choosing ==
  ASSUME NEW s \in Stores, NEW p \in Presets
  PROVE  LET r == Chosen(s, p)
         IN  /\ r \in Stores /\ SameMasterData(r, s)
             /\ r.preset = p /\ r.overrides = {}
             /\ p \notin Generated => r.disabled = {}
<1>1. Home[p] \in Places /\ p \in Equipment
  BY PresetsAssumption DEF Equipment
<1> QED
  BY <1>1 DEF Chosen, Stores, SameMasterData, Types

(* A preset of the master data is chosen with figures of its own; any      *)
(* other is refused.                                                       *)
LEMMA Selecting ==
  ASSUME NEW s \in Stores, NEW p \in Presets
  PROVE  LET r == SelectSystem(s, p)
         IN  /\ r \in Stores /\ Current(r) /\ SameMasterData(r, s)
             /\ p \notin Known(s) => r.preset = None /\ r.rpc = s.rpc
                                     /\ r.type = s.type
             /\ p \in Known(s) => /\ r.preset = p /\ ~Withheld(r)
                                  /\ r.overrides = {}
                                  /\ p \notin Generated => r.disabled = {}
<1>1. CASE p \notin Known(s)
  BY <1>1, Blocking DEF SelectSystem, SameProject
<1>2. CASE p \in Known(s)
  <2> DEFINE t == Chosen(s, p)
             u == Repicked(t)
  <2>1. /\ t \in Stores /\ SameMasterData(t, s)
        /\ t.preset = p /\ t.overrides = {}
        /\ p \notin Generated => t.disabled = {}
    BY Choosing
  <2> HIDE DEF t
  <2>2. /\ u \in Stores /\ SameMasterData(u, t) /\ SameProject(u, t)
        /\ u.preset = t.preset
    BY <2>1, Repicking
  <2> HIDE DEF u
  <2>3. SelectSystem(s, p) = FetchRpcSubsidy(u)
    BY <1>2 DEF SelectSystem, t, u
  <2>4. u.preset # None
    BY <2>1, <2>2, PresetsAssumption
  <2> QED
    BY <1>2, <2>1, <2>2, <2>3, <2>4, Fetching
       DEF SameMasterData, SameProject
<1> QED
  BY <1>1, <1>2

-----------------------------------------------------------------------------
(* What a step of the store may do                                         *)

KeepsChoice(r, s) ==
  s.preset # None =>
    \/ r.preset = s.preset
    \/ r.preset = None /\ s.preset \notin Known(r)

KeepsSubsidy(r, s) == s.loaded /\ Withheld(r) => Withheld(s)

KeepsRows(r, s) ==
  Foreign(r) => Foreign(s) \/ s.preset = None \/ r.preset \in Generated

(* The catalogue comes with the flag that it has come.  It is this that    *)
(* makes the late setting of the flag in SetDeferredData harmless: the     *)
(* presets that are known do not change under the figures.                 *)
Sound(s) ==
  /\ s \in Stores /\ Current(s)
  /\ ~s.loaded => s.catalogue.presets = {}

StoreInv == Sound(store)

(* Once presets have arrived, one that is gone is blocked, one that is     *)
(* there is kept, and the first is chosen only for none.                   *)
LEMMA Settling ==
  ASSUME NEW s \in Stores, s.loaded
  PROVE  LET r == Settled(s)
         IN  /\ r \in Stores /\ Current(r) /\ SameMasterData(r, s)
             /\ KeepsChoice(r, s) /\ KeepsSubsidy(r, s) /\ KeepsRows(r, s)
<1> DEFINE r == Settled(s)
           P == s.catalogue.presets
<1>1. Known(s) = P
  BY DEF Known
<1>2. CASE s.preset = None /\ P # {}
  <2>1. First(P) \in P /\ First(P) \in Presets
    BY <1>2, FirstIsMember, KnownTyped
  <2>2. r = SelectSystem(s, First(P))
    BY <1>2 DEF Settled
  <2> QED
    BY <1>1, <1>2, <2>1, <2>2, Selecting
       DEF KeepsChoice, KeepsSubsidy, KeepsRows
<1>3. CASE s.preset # None /\ s.preset \notin P
  <2>1. r = Blocked(s)
    BY <1>3 DEF Settled
  <2>2. Known(Blocked(s)) = P
    BY <1>1, Blocking DEF Known, SameMasterData
  <2> QED
    BY <1>3, <2>1, <2>2, Blocking
       DEF KeepsChoice, KeepsSubsidy, KeepsRows, SameMasterData, SameProject,
           Withheld, Foreign
<1>4. CASE /\ ~(s.preset = None /\ P # {})
           /\ ~(s.preset # None /\ s.preset \notin P)
  <2>1. r = Recalculated(s)
    BY <1>4 DEF Settled
  <2> QED
    BY <2>1, Recalculation
       DEF KeepsChoice, KeepsSubsidy, KeepsRows, SameMasterData, SameProject,
           Withheld, Foreign
<1> QED
  BY <1>2, <1>3, <1>4

(* The handlers of new presets: the lists are replaced, the scheme picked  *)
(* again and the choice settled.                                           *)
LEMMA Arriving ==
  ASSUME NEW s, Sound(s), NEW m \in Catalogues, NEW d \in Structures
  PROVE  LET t == Repicked([s EXCEPT !.catalogue = m, !.structures = d,
                                     !.loaded = TRUE])
             r == Settled(t)
         IN  /\ Sound(r) /\ KeepsChoice(r, s)
             /\ KeepsSubsidy(r, s) /\ KeepsRows(r, s)
<1> DEFINE z == [s EXCEPT !.catalogue = m, !.structures = d, !.loaded = TRUE]
           t == Repicked(z)
<1>1. /\ z \in Stores /\ z.loaded
      /\ z.preset = s.preset /\ z.rpc = s.rpc /\ z.type = s.type
      /\ z.overrides = s.overrides /\ z.disabled = s.disabled
  BY DEF Stores, Sound
<1> HIDE DEF z
<1>2. /\ t \in Stores /\ SameMasterData(t, z) /\ SameProject(t, z)
      /\ t.preset = z.preset /\ t.rpc \in {z.rpc, "null"}
  BY <1>1, Repicking
<1> HIDE DEF t
<1>3. t.loaded
  BY <1>1, <1>2 DEF SameMasterData
<1>4. KeepsChoice(t, s) /\ KeepsSubsidy(t, s) /\ KeepsRows(t, s)
  BY <1>1, <1>2
     DEF KeepsChoice, KeepsSubsidy, KeepsRows, Withheld, Foreign, SameProject
<1>5. /\ Settled(t) \in Stores /\ Current(Settled(t))
      /\ SameMasterData(Settled(t), t) /\ KeepsChoice(Settled(t), t)
      /\ KeepsSubsidy(Settled(t), t) /\ KeepsRows(Settled(t), t)
  BY <1>2, <1>3, Settling
<1>6. t.preset = s.preset /\ t.overrides = s.overrides
      /\ t.disabled = s.disabled
  BY <1>1, <1>2 DEF SameProject
<1>7. Sound(Settled(t))
  BY <1>3, <1>5 DEF Sound, SameMasterData
<1>8. KeepsChoice(Settled(t), s) /\ KeepsRows(Settled(t), s)
  BY <1>5, <1>6 DEF KeepsChoice, KeepsRows, Foreign
<1>9. KeepsSubsidy(Settled(t), s)
  BY <1>3, <1>4, <1>5 DEF KeepsSubsidy
<1> QED
  BY <1>7, <1>8, <1>9 DEF t, z

(* A calculation of a sound store is one more sound step.                  *)
LEMMA Recalculating ==
  ASSUME NEW s \in Stores, ~s.loaded => s.catalogue.presets = {}
  PROVE  LET r == Recalculated(s)
         IN  /\ Sound(r) /\ KeepsChoice(r, s)
             /\ KeepsSubsidy(r, s) /\ KeepsRows(r, s)
BY Recalculation
   DEF Sound, KeepsChoice, KeepsSubsidy, KeepsRows, SameMasterData,
       SameProject, Withheld, Foreign

-----------------------------------------------------------------------------
(* The first store holds no figures.                                       *)
LEMMA InitSound == Init => StoreInv
<1> SUFFICES ASSUME Init PROVE StoreInv
  OBVIOUS
<1>1. store \in Stores
  BY DEF Init, Stores, NoCatalogue, Types, Places, Equipment
<1>2. store.figures = NoFigures /\ store.catalogue.presets = {}
  BY DEF Init, NoCatalogue
<1> QED
  BY <1>1, <1>2 DEF StoreInv, Sound, Current

(* A fetch of the subsidy after a change of the state or the equipment     *)
(* leaves the choice, the rows and no 0.                                   *)
LEMMA FetchStep ==
  ASSUME NEW s, Sound(s), NEW t \in Stores, SameMasterData(t, s),
         t.preset = s.preset, t.overrides = s.overrides,
         t.disabled = s.disabled
  PROVE  LET r == FetchRpcSubsidy(t)
         IN  /\ Sound(r) /\ KeepsChoice(r, s)
             /\ KeepsSubsidy(r, s) /\ KeepsRows(r, s)
BY Fetching
   DEF Sound, KeepsChoice, KeepsSubsidy, KeepsRows, SameMasterData,
       SameProject, Foreign

(* Switching the credit, and the part of the master data that follows the  *)
(* page: the figures are those of before, and still of the same inputs.    *)
LEMMA ParametersStep ==
  ASSUME NEW s, Sound(s), NEW a \in BOOLEAN, NEW b \in Structures,
         NEW c \in {s.loaded, s.loaded \/ s.catalogue.presets # {}}
  PROVE  LET r == [s EXCEPT !.itc = a, !.structures = b, !.loaded = c]
         IN  /\ Sound(r) /\ KeepsChoice(r, s)
             /\ KeepsSubsidy(r, s) /\ KeepsRows(r, s)
<1> DEFINE r == [s EXCEPT !.itc = a, !.structures = b, !.loaded = c]
<1>1. s \in Stores
  BY DEF Sound
<1>2. c = s.loaded
  BY <1>1 DEF Sound, Stores
<1>3. /\ r \in Stores /\ SameMasterData(r, s)
      /\ r.preset = s.preset /\ r.type = s.type /\ r.state = s.state
      /\ r.scheme = s.scheme /\ r.rpc = s.rpc
      /\ r.equipment = s.equipment /\ r.inputs = s.inputs
      /\ r.overrides = s.overrides /\ r.disabled = s.disabled
      /\ r.figures = s.figures /\ r.itc = a /\ r.structures = b
  BY <1>1, <1>2 DEF Stores, SameMasterData
<1> HIDE DEF r
<1>4. Known(r) = Known(s)
  BY <1>3 DEF Known, SameMasterData
<1>5. Resolved(r) = Resolved(s)
  <2>1. Eligible(r) = Eligible(s)
    BY <1>3 DEF Eligible, SameMasterData
  <2> QED
    BY <1>3, <2>1 DEF Resolved
<1>6. Current(r)
  <2> SUFFICES ASSUME r.figures # NoFigures
               PROVE  /\ r.preset \in Known(r)
                      /\ \E i \in BOOLEAN, d \in Structures :
                           r.figures = [Figures(r) EXCEPT !.itc = i,
                                                          !.structures = d]
    BY DEF Current
  <2>1. PICK i \in BOOLEAN, d \in Structures :
          s.figures = [Figures(s) EXCEPT !.itc = i, !.structures = d]
    BY <1>3 DEF Sound, Current
  <2>2. [Figures(r) EXCEPT !.itc = i, !.structures = d]
          = [Figures(s) EXCEPT !.itc = i, !.structures = d]
    <3>1. Figures(s) \in FigureSet /\ Figures(r) \in FigureSet
      BY <1>1, <1>3, <1>4, FiguresTyped DEF Sound, Current
    <3> DEFINE f == Figures(r)
               g == Figures(s)
    <3>2. /\ f.preset = g.preset /\ f.state = g.state /\ f.type = g.type
          /\ f.scheme = g.scheme /\ f.rpc = g.rpc
          /\ f.catalogue = g.catalogue
          /\ f.equipment = g.equipment /\ f.inputs = g.inputs
          /\ f.overrides = g.overrides /\ f.disabled = g.disabled
      BY <1>3, <1>5 DEF Figures, SameMasterData
    <3> HIDE DEF f, g
    <3>3. f \in FigureSet /\ g \in FigureSet
      BY <3>1 DEF f, g
    <3>4. [f EXCEPT !.itc = i, !.structures = d]
            = [g EXCEPT !.itc = i, !.structures = d]
      BY <3>2, <3>3 DEF FigureSet
    <3> QED
      BY <3>4 DEF f, g
  <2> QED
    BY <1>3, <1>4, <2>1, <2>2 DEF Sound, Current
<1>7. Sound(r)
  BY <1>3, <1>6 DEF Sound, SameMasterData
<1>8. KeepsChoice(r, s) /\ KeepsSubsidy(r, s) /\ KeepsRows(r, s)
  BY <1>3 DEF KeepsChoice, KeepsSubsidy, KeepsRows, SameMasterData, Withheld,
              Foreign
<1> QED
  BY <1>7, <1>8 DEF r

(* Each act of the user.                                                   *)
LEMMA UserStep ==
  ASSUME StoreInv, ByUser
  PROVE  /\ Sound(store')
         /\ KeepsChoice(store', store) \/ \E p \in Presets : PickPreset(p)
         /\ KeepsSubsidy(store', store) /\ KeepsRows(store', store)
<1>1. store \in Stores /\ Sound(store)
  BY DEF StoreInv, Sound
<1>2. CASE \E p \in Presets : PickPreset(p)
  <2>1. PICK p \in Presets : store' = SelectSystem(store, p)
    BY <1>2 DEF PickPreset
  <2>2. Sound(store')
    BY <1>1, <2>1, Selecting DEF Sound, SameMasterData
  <2>3. KeepsSubsidy(store', store) /\ KeepsRows(store', store)
    BY <1>1, <2>1, Selecting
       DEF KeepsSubsidy, KeepsRows, Withheld, Foreign, SameMasterData
  <2> QED
    BY <1>2, <2>2, <2>3
<1>3. ASSUME NEW x \in States, PickState(x)
      PROVE  /\ Sound(store') /\ KeepsChoice(store', store)
             /\ KeepsSubsidy(store', store) /\ KeepsRows(store', store)
  <2> DEFINE z == [store EXCEPT !.state = x]
             u == Repicked(z)
             n == [u EXCEPT !.rpc = "null"]
  <2>1. /\ z \in Stores /\ SameMasterData(z, store)
        /\ z.preset = store.preset /\ z.overrides = store.overrides
        /\ z.disabled = store.disabled
    BY <1>1 DEF Stores, SameMasterData, Places
  <2>2. store' = FetchRpcSubsidy(n)
    BY <1>3 DEF PickState
  <2> HIDE DEF z
  <2>3. /\ u \in Stores /\ SameMasterData(u, z) /\ SameProject(u, z)
        /\ u.preset = z.preset
    BY <2>1, Repicking
  <2> HIDE DEF u
  <2>4. /\ n \in Stores /\ SameMasterData(n, u) /\ n.preset = u.preset
        /\ n.overrides = u.overrides /\ n.disabled = u.disabled
    BY <2>3 DEF Stores, SameMasterData
  <2> HIDE DEF n
  <2>5. /\ SameMasterData(n, store) /\ n.preset = store.preset
        /\ n.overrides = store.overrides /\ n.disabled = store.disabled
    BY <2>1, <2>3, <2>4 DEF SameMasterData, SameProject
  <2> QED
    BY <1>1, <2>2, <2>4, <2>5, FetchStep
<1>4. ASSUME NEW x \in Schemes, PickScheme(x)
      PROVE  /\ Sound(store') /\ KeepsChoice(store', store)
             /\ KeepsSubsidy(store', store) /\ KeepsRows(store', store)
  <2> DEFINE y == IF x \in Eligible(store) THEN x ELSE First(Eligible(store))
             z == [store EXCEPT !.rpc = "null", !.scheme = y]
  <2>1. y \in Schemes \cup {None}
    BY <1>1, SchemesTyped
  <2>2. store' = Recalculated(z)
    BY <1>4 DEF PickScheme
  <2> HIDE DEF y
  <2>3. /\ z \in Stores /\ SameMasterData(z, store)
        /\ z.preset = store.preset /\ z.overrides = store.overrides
        /\ z.disabled = store.disabled /\ z.rpc = "null"
    BY <1>1, <2>1 DEF Stores, SameMasterData
  <2> HIDE DEF z
  <2> QED
    BY <1>1, <2>2, <2>3, Recalculating
       DEF Sound, SameMasterData, KeepsChoice, KeepsSubsidy, KeepsRows,
           Withheld, Foreign
<1>5. ASSUME NEW k \in Kits, ChangeEquipment(k)
      PROVE  /\ Sound(store') /\ KeepsChoice(store', store)
             /\ KeepsSubsidy(store', store) /\ KeepsRows(store', store)
  <2> DEFINE z == [store EXCEPT !.equipment = k]
  <2>1. /\ z \in Stores /\ SameMasterData(z, store)
        /\ z.preset = store.preset /\ z.overrides = store.overrides
        /\ z.disabled = store.disabled
    BY <1>1 DEF Stores, SameMasterData, Equipment
  <2> QED
    BY <1>1, <1>5, <2>1, FetchStep DEF ChangeEquipment
<1>6. ASSUME NEW i \in Inputs, ChangeInput(i)
      PROVE  /\ Sound(store') /\ KeepsChoice(store', store)
             /\ KeepsSubsidy(store', store) /\ KeepsRows(store', store)
  <2> DEFINE z == [store EXCEPT !.inputs = i]
  <2>1. /\ z \in Stores /\ SameMasterData(z, store)
        /\ z.preset = store.preset /\ z.overrides = store.overrides
        /\ z.disabled = store.disabled
        /\ z.rpc = store.rpc /\ z.type = store.type
    BY <1>1 DEF Stores, SameMasterData
  <2>2. store' = Recalculated(z)
    BY <1>6 DEF ChangeInput
  <2> HIDE DEF z
  <2> QED
    BY <1>1, <2>1, <2>2, Recalculating
       DEF Sound, SameMasterData, KeepsChoice, KeepsSubsidy, KeepsRows,
           Withheld, Foreign
<1>7. ASSUME ToggleItc
      PROVE  /\ Sound(store') /\ KeepsChoice(store', store)
             /\ KeepsSubsidy(store', store) /\ KeepsRows(store', store)
  <2>1. store' = [store EXCEPT !.itc = ~store.itc,
                    !.structures = store.structures, !.loaded = store.loaded]
    BY <1>1, <1>7 DEF ToggleItc, Stores
  <2>2. /\ (~store.itc) \in BOOLEAN /\ store.structures \in Structures
        /\ store.loaded \in BOOLEAN
    BY <1>1 DEF Stores
  <2> QED
    BY <1>1, <2>1, <2>2, ParametersStep
<1>8. ASSUME NEW o \in SUBSET (store.overrides \cup {store.preset}),
             OverrideRows(o)
      PROVE  /\ Sound(store') /\ KeepsChoice(store', store)
             /\ KeepsSubsidy(store', store) /\ KeepsRows(store', store)
  <2> DEFINE z == [store EXCEPT !.overrides = o]
  <2>1. store.preset \in Presets /\ store.overrides \subseteq Presets
    BY <1>1, <1>8, KnownTyped DEF OverrideRows, Sound, Current, Stores
  <2>2. /\ z \in Stores /\ SameMasterData(z, store)
        /\ z.preset = store.preset /\ z.overrides = o
        /\ z.disabled = store.disabled
        /\ z.rpc = store.rpc /\ z.type = store.type
    BY <1>1, <2>1 DEF Stores, SameMasterData
  <2>3. store' = Recalculated(z)
    BY <1>8 DEF OverrideRows
  <2> HIDE DEF z
  <2>4. Foreign(z) => Foreign(store)
    BY <2>2 DEF Foreign
  <2> QED
    BY <1>1, <2>2, <2>3, <2>4, Recalculating
       DEF Sound, SameMasterData, KeepsChoice, KeepsSubsidy, KeepsRows,
           Withheld
<1>9. ASSUME NEW o \in SUBSET (store.disabled \cup {store.preset}),
             SwitchRows(o)
      PROVE  /\ Sound(store') /\ KeepsChoice(store', store)
             /\ KeepsSubsidy(store', store) /\ KeepsRows(store', store)
  <2> DEFINE z == [store EXCEPT !.disabled = o]
  <2>1. store.preset \in Presets /\ store.disabled \subseteq Presets
    BY <1>1, <1>9, KnownTyped DEF SwitchRows, Sound, Current, Stores
  <2>2. /\ z \in Stores /\ SameMasterData(z, store)
        /\ z.preset = store.preset /\ z.disabled = o
        /\ z.overrides = store.overrides
        /\ z.rpc = store.rpc /\ z.type = store.type
    BY <1>1, <2>1 DEF Stores, SameMasterData
  <2>3. store' = Recalculated(z)
    BY <1>9 DEF SwitchRows
  <2> HIDE DEF z
  <2>4. Foreign(z) => Foreign(store)
    BY <2>2 DEF Foreign
  <2> QED
    BY <1>1, <2>2, <2>3, <2>4, Recalculating
       DEF Sound, SameMasterData, KeepsChoice, KeepsSubsidy, KeepsRows,
           Withheld
<1> QED
  BY <1>2, <1>3, <1>4, <1>5, <1>6, <1>7, <1>8, <1>9 DEF ByUser

(* What is put back may be anything of its types; the figures are computed *)
(* again from it.                                                          *)
LEMMA RestoreStep ==
  ASSUME StoreInv, Restoring
  PROVE  Sound(store')
<1>1. store \in Stores /\ Sound(store)
  BY DEF StoreInv, Sound
<1>2. PICK q \in Snapshots : RestoreDraft(q) \/ LoadPreset(q) \/ LoadQuote(q)
  BY DEF Restoring
<1> DEFINE z == PutBack(store, q)
           c == [z EXCEPT !.itc = q.itc]
           n == [c EXCEPT !.preset = None]
<1>3. z \in Stores /\ SameMasterData(z, store)
  BY <1>1, SnapshotsAssumption DEF PutBack, Stores, SameMasterData
<1> HIDE DEF z
<1>4. /\ c \in Stores /\ SameMasterData(c, store)
      /\ n \in Stores /\ SameMasterData(n, store)
  <2>1. q.itc \in BOOLEAN
    BY SnapshotsAssumption
  <2> QED
    BY <1>3, <2>1 DEF Stores, SameMasterData
<1>5. store' \in {Recalculated(z), Recalculated(c), Recalculated(n)}
  BY <1>2 DEF RestoreDraft, LoadPreset, LoadQuote, z
<1> HIDE DEF c, n
<1> QED
  BY <1>1, <1>3, <1>4, <1>5, Recalculating DEF Sound, SameMasterData

(* Each arrival of master data, and its failure.                           *)
LEMMA ServerStep ==
  ASSUME StoreInv, ByServer
  PROVE  /\ Sound(store') /\ KeepsChoice(store', store)
         /\ KeepsSubsidy(store', store) /\ KeepsRows(store', store)
<1>1. store \in Stores /\ Sound(store)
  BY DEF StoreInv, Sound
<1>2. ASSUME NEW m \in Catalogues, NEW d \in Structures
      PROVE  /\ Sound(Fetched(m, d)) /\ KeepsChoice(Fetched(m, d), store)
             /\ KeepsSubsidy(Fetched(m, d), store)
             /\ KeepsRows(Fetched(m, d), store)
  BY <1>1, Arriving DEF Fetched
<1>3. ASSUME NEW m \in Catalogues, NEW d \in Structures, FetchMasterData(m, d)
      PROVE  /\ Sound(store') /\ KeepsChoice(store', store)
             /\ KeepsSubsidy(store', store) /\ KeepsRows(store', store)
  BY <1>2, <1>3 DEF FetchMasterData
<1>4. ASSUME NEW m \in Catalogues, NEW d \in Structures,
             RefreshMasterData(m, d)
      PROVE  /\ Sound(store') /\ KeepsChoice(store', store)
             /\ KeepsSubsidy(store', store) /\ KeepsRows(store', store)
  <2> DEFINE f == Fetched(m, d)
  <2>1. /\ Sound(f) /\ KeepsChoice(f, store)
        /\ KeepsSubsidy(f, store) /\ KeepsRows(f, store)
    BY <1>2
  <2>2. store' = Recalculated(f)
    BY <1>4 DEF RefreshMasterData
  <2> HIDE DEF f
  <2>3. /\ Sound(store') /\ SameMasterData(store', f) /\ SameProject(store', f)
        /\ store'.preset = f.preset /\ store'.rpc = f.rpc
    BY <2>1, <2>2, Recalculation, Recalculating DEF Sound
  <2>4. Known(store') = Known(f)
    BY <2>3 DEF Known, SameMasterData
  <2> QED
    BY <2>1, <2>3, <2>4
       DEF KeepsChoice, KeepsSubsidy, KeepsRows, Withheld, Foreign,
           SameMasterData, SameProject
<1>5. ASSUME FetchFails
      PROVE  /\ Sound(store') /\ KeepsChoice(store', store)
             /\ KeepsSubsidy(store', store) /\ KeepsRows(store', store)
  BY <1>1, <1>5, Recalculating DEF FetchFails, Sound
<1>6. ASSUME NEW m \in Catalogues, SetOfflineData(m)
      PROVE  /\ Sound(store') /\ KeepsChoice(store', store)
             /\ KeepsSubsidy(store', store) /\ KeepsRows(store', store)
  <2>1. CASE m.presets # {}
    <3> DEFINE d == store.structures
    <3>1. [store EXCEPT !.catalogue = m,
             !.loaded = store.loaded \/ m.presets # {}]
            = [store EXCEPT !.catalogue = m, !.structures = d,
                            !.loaded = TRUE]
      BY <1>1, <2>1 DEF Stores
    <3>2. store' = Settled(Repicked([store EXCEPT !.catalogue = m,
                                       !.structures = d, !.loaded = TRUE]))
      BY <1>6, <2>1, <3>1 DEF SetOfflineData
    <3>3. d \in Structures
      BY <1>1 DEF Stores
    <3> HIDE DEF d
    <3> QED
      BY <1>1, <3>2, <3>3, Arriving
  <2>2. CASE m.presets = {}
    <3> DEFINE z == [store EXCEPT !.catalogue = m,
                       !.loaded = store.loaded \/ m.presets # {}]
               t == Repicked(z)
    <3>1. /\ z \in Stores /\ z.loaded = store.loaded
          /\ z.catalogue.presets = {}
          /\ z.preset = store.preset /\ z.rpc = store.rpc
          /\ z.type = store.type
          /\ z.overrides = store.overrides /\ z.disabled = store.disabled
      BY <1>1, <2>2 DEF Stores
    <3>2. store' = Recalculated(t)
      BY <1>6, <2>2 DEF SetOfflineData
    <3> HIDE DEF z
    <3>3. /\ t \in Stores /\ SameMasterData(t, z) /\ SameProject(t, z)
          /\ t.preset = z.preset /\ t.rpc \in {z.rpc, "null"}
      BY <3>1, Repicking
    <3> HIDE DEF t
    <3>4. /\ Sound(store') /\ SameMasterData(store', t)
          /\ SameProject(store', t)
          /\ store'.preset = t.preset /\ store'.rpc = t.rpc
      BY <3>1, <3>2, <3>3, Recalculation, Recalculating
         DEF SameMasterData
    <3> QED
      BY <3>1, <3>3, <3>4
         DEF KeepsChoice, KeepsSubsidy, KeepsRows, Withheld, Foreign,
             SameMasterData, SameProject
  <2> QED
    BY <2>1, <2>2
<1>7. ASSUME NEW d \in Structures, SetDeferredData(d)
      PROVE  /\ Sound(store') /\ KeepsChoice(store', store)
             /\ KeepsSubsidy(store', store) /\ KeepsRows(store', store)
  <2> DEFINE c == store.loaded \/ store.catalogue.presets # {}
  <2>1. store.itc \in BOOLEAN
    BY <1>1 DEF Stores
  <2>2. store' = [store EXCEPT !.itc = store.itc, !.structures = d,
                               !.loaded = c]
    BY <1>1, <1>7 DEF SetDeferredData, Stores
  <2> HIDE DEF c
  <2>3. c = (store.loaded \/ store.catalogue.presets # {})
    BY DEF c
  <2> QED
    BY <1>1, <2>1, <2>2, <2>3, ParametersStep
<1> QED
  BY <1>3, <1>4, <1>5, <1>6, <1>7 DEF ByServer

-----------------------------------------------------------------------------
(* The store stays of its types, its figures stay current, and no preset   *)
(* is in the catalogue before the flag says so.                            *)
THEOREM StoreSafety == Spec => []StoreInv
<1>1. StoreInv /\ [Next]_store => StoreInv'
  <2> SUFFICES ASSUME StoreInv, [Next]_store PROVE Sound(store')
    BY DEF StoreInv
  <2>1. CASE ByUser
    BY <2>1, UserStep
  <2>2. CASE Restoring
    BY <2>2, RestoreStep
  <2>3. CASE ByServer
    BY <2>3, ServerStep
  <2>4. CASE UNCHANGED store
    BY <2>4 DEF StoreInv
  <2> QED
    BY <2>1, <2>2, <2>3, <2>4 DEF Next
<1> QED
  BY <1>1, InitSound, PTL DEF Spec

(* Type correctness of the store, for every set of presets, catalogues and *)
(* snapshots.                                                              *)
THEOREM StoreTypes == Spec => []TypeOK
<1>1. StoreInv => TypeOK
  BY DEF StoreInv, Sound, TypeOK
<1> QED
  BY <1>1, StoreSafety, PTL

(* The figures shown are those of the present inputs and master data.      *)
THEOREM FiguresAreCurrent == Spec => []FiguresCurrent
<1>1. StoreInv => FiguresCurrent
  BY DEF StoreInv, Sound, FiguresCurrent
<1> QED
  BY <1>1, StoreSafety, PTL

(* Only the user, what is put back, and the loss of it change the preset.  *)
THEOREM ChoiceIsKept == Spec => ChoiceKept
<1> DEFINE A == store.preset # None /\ store'.preset # store.preset
                  => \/ store'.preset = None /\ store.preset \notin Known(store')
                     \/ \E p \in Presets : PickPreset(p)
                     \/ Restoring
<1>1. StoreInv /\ [Next]_store => [A]_store
  <2> SUFFICES ASSUME StoreInv, Next PROVE A
    OBVIOUS
  <2>1. CASE ByUser
    BY <2>1, UserStep DEF KeepsChoice
  <2>2. CASE ByServer
    BY <2>2, ServerStep DEF KeepsChoice
  <2> QED
    BY <2>1, <2>2 DEF Next
<1> QED
  BY <1>1, StoreSafety, PTL DEF Spec, ChoiceKept

(* Once master data is there, the 0 for no subsidy reaches a residential   *)
(* project only with what is put back.                                     *)
THEOREM SubsidyIsNotWithheld == Spec => SubsidyWithheld
<1> DEFINE A == ~Withheld(store) /\ Withheld(store')
                  => ~store.loaded \/ Restoring
<1>1. StoreInv /\ [Next]_store => [A]_store
  <2> SUFFICES ASSUME StoreInv, Next PROVE A
    OBVIOUS
  <2>1. CASE ByUser
    BY <2>1, UserStep DEF KeepsSubsidy
  <2>2. CASE ByServer
    BY <2>2, ServerStep DEF KeepsSubsidy
  <2> QED
    BY <2>1, <2>2 DEF Next
<1> QED
  BY <1>1, StoreSafety, PTL DEF Spec, SubsidyWithheld

(* The rows edited in one table do not change the figures of another       *)
(* preset, but in the ways named.                                          *)
THEOREM RowEditsAreKept == Spec => RowEditsStay
<1> DEFINE A == ~Foreign(store) /\ Foreign(store')
                  => \/ store.preset = None \/ store'.preset \in Generated
                     \/ Restoring
<1>1. StoreInv /\ [Next]_store => [A]_store
  <2> SUFFICES ASSUME StoreInv, Next PROVE A
    OBVIOUS
  <2>1. CASE ByUser
    BY <2>1, UserStep DEF KeepsRows
  <2>2. CASE ByServer
    BY <2>2, ServerStep DEF KeepsRows
  <2> QED
    BY <2>1, <2>2 DEF Next
<1> QED
  BY <1>1, StoreSafety, PTL DEF Spec, RowEditsStay
=============================================================================
