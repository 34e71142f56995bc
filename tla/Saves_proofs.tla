----------------------------- MODULE Saves_proofs -----------------------------
(***************************************************************************)
(* What F4SE keeps in the co-save: the identifiers of forms resolve, for   *)
(* every width of a place, all load orders and any number of saves,        *)
(* restarts and loads; what a plugin reads is what it wrote, for any number*)
(* of plugins, records and data; and scripts stay registered, for any      *)
(* objects, scripts and keys.                                              *)
(***************************************************************************)
EXTENDS FormIds, CoSave, EventRegistrations, FiniteSetTheorems, WellFoundedInduction, TLAPS

(* What makes it inductive: the file lists what savedOrder listed, a load  *)
(* fills the map from that list, and no order has more plugins than a byte *)
(* counts.                                                                 *)
FileListsSavedOrder ==
  /\ savedOrder \in LoadOrders
  /\ file # NoFile =>
       file.regular = savedOrder.regular /\ file.light = Listed(savedOrder.light)
  /\ loaded => file # NoFile

MapsFollowFile ==
  loaded =>
    /\ numMods = Len(file.regular)
    /\ \A i \in 0..(Byte - 2) :
         i < Len(file.regular) => indexMap[i] = GetLoadedModIndex(file.regular[i + 1])
    /\ numLightMods = Len(file.light)
    /\ \A i \in 0..(Lights - 2) :
         i < Len(file.light) => lightIndexMap[i] = GetLoadedLightModIndex(file.light[i + 1]) % Byte

IdsInv == order \in LoadOrders /\ FileListsSavedOrder /\ MapsFollowFile

LEMMA SmallRemainder ==
  ASSUME NEW n \in Nat, NEW b \in Nat, n < b PROVE n % b = n
PROOF
  BY Z3T(30)

LEMMA Remainder ==
  ASSUME NEW n \in Nat, NEW b \in Nat, 0 < b
  PROVE  n % b \in Nat /\ n % b < b /\ n % b <= n
PROOF
<1>1. n % b \in Nat /\ n % b < b
  BY Z3T(30)
<1>2. CASE n < b
  BY <1>2, SmallRemainder
<1> QED
  BY <1>1, <1>2

(* A list of at most Byte - 2 names goes through the byte unharmed.        *)
LEMMA ShortListsAreKept ==
  ASSUME NEW o \in LoadOrders
  PROVE  Listed(o.regular) = o.regular
PROOF
<1>1. /\ o.regular \in Seq(Names) /\ Len(o.regular) <= Byte - 2
  BY OrderAssumption
<1>2. Len(o.regular) \in Nat /\ Byte \in Nat /\ Len(o.regular) < Byte
  BY <1>1, WidthAssumption
<1>3. Len(o.regular) % Byte = Len(o.regular)
  BY <1>2, SmallRemainder
<1>4. SubSeq(o.regular, 1, Len(o.regular)) = o.regular
  BY <1>1
<1> QED
  BY <1>3, <1>4 DEF Listed

(* The place of a name in a load order is below 0xFE, or 0xFF if the name  *)
(* is missing; it is where the name is.                                    *)
LEMMA PlaceOfName ==
  ASSUME NEW o \in LoadOrders, NEW name
  PROVE  /\ (\E i \in DOMAIN o.regular : o.regular[i] = name) =>
              \E i \in DOMAIN o.regular :
                o.regular[i] = name /\ Place(name, o.regular, Created) = i - 1 /\ i - 1 # Created
         /\ ~(\E i \in DOMAIN o.regular : o.regular[i] = name) =>
              Place(name, o.regular, Created) = Created
PROOF
<1>1. o.regular \in Seq(Names) /\ Len(o.regular) <= Byte - 2
  BY OrderAssumption
<1>2. DOMAIN o.regular = 1..Len(o.regular) /\ Len(o.regular) \in Nat
  BY <1>1
<1>3. Byte \in Nat /\ 2 < Byte
  BY WidthAssumption
<1>4. CASE \E i \in DOMAIN o.regular : o.regular[i] = name
  <2> DEFINE k == CHOOSE i \in DOMAIN o.regular : o.regular[i] = name
  <2>1. k \in DOMAIN o.regular /\ o.regular[k] = name
    BY <1>4
  <2>2. Place(name, o.regular, Created) = k - 1
    BY <1>4 DEF Place
  <2>3. k - 1 # Created
    BY <2>1, <1>1, <1>2, <1>3 DEF Created
  <2> QED
    BY <1>4, <2>1, <2>2, <2>3
<1>5. CASE ~ \E i \in DOMAIN o.regular : o.regular[i] = name
  BY <1>5 DEF Place
<1> QED
  BY <1>4, <1>5

LEMMA IdsInvHolds == FormIdsSpec => []IdsInv
PROOF
<1>1. FormIdsInit => IdsInv
  BY DEF FormIdsInit, IdsInv, FileListsSavedOrder, MapsFollowFile
<1>2. IdsInv /\ [FormIdsNext]_idVars => IdsInv'
  <2> SUFFICES ASSUME IdsInv, [FormIdsNext]_idVars PROVE IdsInv'
    OBVIOUS
  <2>1. ASSUME NEW o \in LoadOrders, StartGame(o) PROVE IdsInv'
    BY <2>1 DEF StartGame, IdsInv, FileListsSavedOrder, MapsFollowFile
  <2>2. CASE SaveModLists
    <3>1. Listed(order.regular) = order.regular
      BY ShortListsAreKept DEF IdsInv
    <3>2. FileListsSavedOrder'
      BY <2>2, <3>1 DEF SaveModLists, IdsInv, FileListsSavedOrder
    <3> QED
      BY <2>2, <3>2 DEF SaveModLists, IdsInv, MapsFollowFile
  <2>3. CASE LoadModLists
    <3>1. FileListsSavedOrder'
      BY <2>3 DEF LoadModLists, IdsInv, FileListsSavedOrder
    <3>2. ASSUME NEW i \in 0..(Byte - 2), i < Len(file.regular)
          PROVE  indexMap'[i] = GetLoadedModIndex(file.regular[i + 1])
      BY <2>3, <3>2 DEF LoadModLists, LoadedIndex
    <3>3. ASSUME NEW i \in 0..(Lights - 2), i < Len(file.light)
          PROVE  lightIndexMap'[i] = GetLoadedLightModIndex(file.light[i + 1]) % Byte
      BY <2>3, <3>3 DEF LoadModLists, LoadedLightIndex
    <3>4. MapsFollowFile'
      BY <2>3, <3>2, <3>3
      DEF LoadModLists, MapsFollowFile, GetLoadedModIndex, GetLoadedLightModIndex
    <3> QED
      BY <2>3, <3>1, <3>4 DEF LoadModLists, IdsInv
  <2>4. CASE UNCHANGED idVars
    BY <2>4
    DEF idVars, IdsInv, FileListsSavedOrder, MapsFollowFile, GetLoadedModIndex,
        GetLoadedLightModIndex
  <2> QED
    BY <2>1, <2>2, <2>3, <2>4 DEF FormIdsNext
<1> QED
  BY <1>1, <1>2, PTL DEF FormIdsSpec

(* What the map makes of one form.                                         *)
LEMMA ResolvesByMap ==
  ASSUME IdsInv, loaded, NEW f \in Forms, f.mod < Light
  PROVE  RegularFormResolves(f)
PROOF
<1> DEFINE regular == savedOrder.regular
<1>1. /\ Byte \in Nat /\ 2 < Byte /\ f.mod \in 0..(Byte - 1) /\ f.mod < Byte - 2
  BY WidthAssumption DEF Forms, Light
<1>2. /\ numMods = Len(regular) /\ Len(regular) \in Nat
      /\ f.mod < Len(regular) => indexMap[f.mod] = Place(regular[f.mod + 1], order.regular, Created)
  <2>1. file.regular = regular /\ regular \in Seq(Names)
    BY OrderAssumption DEF IdsInv, FileListsSavedOrder
  <2>2. f.mod \in 0..(Byte - 2)
    BY <1>1
  <2> QED
    BY <2>1, <2>2 DEF IdsInv, MapsFollowFile, GetLoadedModIndex
<1>3. ResolveFormId(f) = IF ResolveModIndex(f.mod) = Created THEN Refused
                         ELSE To([f EXCEPT !.mod = ResolveModIndex(f.mod)])
  BY <1>1 DEF ResolveFormId, Created, Light
<1>4. CASE f.mod < Len(regular)
  <2> DEFINE name == regular[f.mod + 1]
  <2>1. ResolveModIndex(f.mod) = Place(name, order.regular, Created)
    BY <1>2, <1>4 DEF ResolveModIndex
  <2>2. order \in LoadOrders
    BY DEF IdsInv
  <2>3. CASE \E i \in DOMAIN order.regular : order.regular[i] = name
    <3>1. PICK i \in DOMAIN order.regular :
            order.regular[i] = name /\ Place(name, order.regular, Created) = i - 1
            /\ i - 1 # Created
      BY <2>2, <2>3, PlaceOfName
    <3>2. ResolveFormId(f) = To([f EXCEPT !.mod = i - 1])
      BY <1>3, <2>1, <3>1
    <3> QED
      BY <1>4, <2>3, <3>1, <3>2 DEF RegularFormResolves
  <2>4. CASE ~ \E i \in DOMAIN order.regular : order.regular[i] = name
    <3>1. Place(name, order.regular, Created) = Created
      BY <2>2, <2>4, PlaceOfName
    <3> QED
      BY <1>3, <1>4, <2>1, <2>4, <3>1 DEF RegularFormResolves
  <2> QED
    BY <2>3, <2>4
<1>5. CASE ~(f.mod < Len(regular))
  <2>1. ResolveModIndex(f.mod) = Created
    BY <1>2, <1>5 DEF ResolveModIndex
  <2> QED
    BY <1>3, <1>5, <2>1 DEF RegularFormResolves
<1> QED
  BY <1>4, <1>5

(* The same for a light plugin, as long as both places and the length of   *)
(* the list fit in a byte.                                                 *)
LEMMA ResolvesByLightMap ==
  ASSUME IdsInv, loaded, NEW f \in Forms, NEW i \in DOMAIN order.light,
         f.mod = Light, f.light < Len(savedOrder.light), Len(savedOrder.light) < Byte,
         order.light[i] = savedOrder.light[f.light + 1], i <= Byte
  PROVE  ResolveFormId(f) = To([f EXCEPT !.light = i - 1])
PROOF
<1> DEFINE light == savedOrder.light
           name == light[f.light + 1]
<1>1. /\ Byte \in Nat /\ 2 < Byte /\ Byte < Lights /\ Lights \in Nat
      /\ Word \in Nat /\ Lights < Word /\ f.light \in 0..(Lights - 1)
  BY WidthAssumption DEF Forms
<1>2. savedOrder \in LoadOrders /\ order \in LoadOrders
  BY DEF IdsInv, FileListsSavedOrder
<1>3. light \in Seq(Names) /\ order.light \in Seq(Names) /\ Distinct(order.light)
  BY <1>2, OrderAssumption
<1>4. Listed(light) = light
  <2>0. Len(light) \in Nat /\ Byte \in Nat /\ Len(light) < Byte
    BY <1>1, <1>3
  <2>1. Len(light) % Byte = Len(light)
    BY <2>0, SmallRemainder
  <2>2. SubSeq(light, 1, Len(light)) = light
    BY <1>3
  <2> QED
    BY <2>1, <2>2 DEF Listed
<1>5. file.light = light /\ numLightMods = Len(light)
  BY <1>4 DEF IdsInv, FileListsSavedOrder, MapsFollowFile
<1>6. f.light \in 0..(Lights - 2) /\ f.light < numLightMods
  BY <1>1, <1>3, <1>5
<1>7. Place(name, order.light, None) = i - 1
  <2> DEFINE k == CHOOSE j \in DOMAIN order.light : order.light[j] = name
  <2>1. k \in DOMAIN order.light /\ order.light[k] = name
    OBVIOUS
  <2>2. k = i
    BY <2>1, <1>3 DEF Distinct
  <2> QED
    BY <2>1, <2>2 DEF Place
<1>8. i \in Nat /\ 1 <= i /\ i - 1 \in Nat /\ i - 1 < Byte
  BY <1>1, <1>3
<1>9. (i - 1) % Byte = i - 1
  BY <1>1, <1>8, SmallRemainder
<1>10. lightIndexMap[f.light] = GetLoadedLightModIndex(file.light[f.light + 1]) % Byte
  BY <1>5, <1>6 DEF IdsInv, MapsFollowFile
<1>11. ResolveLightModIndex(f.light) = i - 1
  BY <1>5, <1>6, <1>7, <1>9, <1>10 DEF ResolveLightModIndex, GetLoadedLightModIndex
<1>12. i - 1 # None
  BY <1>1, <1>8 DEF None
<1>13. Light # Created
  BY <1>1 DEF Light, Created
<1> QED
  BY <1>11, <1>12, <1>13 DEF ResolveFormId

(* A form resolves to the form of the same number in the same plugin after *)
(* any sequence of saves, restarts with other load orders, and loads       *)
(* (LoadModList, LoadLightModList, ResolveFormId), light plugins with the  *)
(* proviso of LightFormsResolve.                                           *)
THEOREM FormsAlwaysResolve == FormIdsSpec => []FormsResolve
PROOF
<1>1. IdsInv => RegularFormsResolve
  BY ResolvesByMap DEF RegularFormsResolve
<1>2. IdsInv => LightFormsResolve
  BY ResolvesByLightMap DEF LightFormsResolve
<1>3. IdsInv => FormsResolve
  BY <1>1, <1>2 DEF FormsResolve
<1> QED
  BY <1>3, IdsInvHolds, PTL

-----------------------------------------------------------------------------
LEMMA CreatedIsKept ==
  ASSUME NEW f \in Forms, f.mod = Created
  PROVE  ResolveFormId(f) = To(f)
PROOF
<1>1. Light # Created
  BY WidthAssumption DEF Light, Created
<1> QED
  BY <1>1 DEF ResolveFormId

(* A form that resolves at all goes where its plugin is now, which is no   *)
(* place of created forms.                                                 *)
LEMMA ResolvedIsInPlugin ==
  ASSUME IdsInv, loaded, NEW f \in Forms, f.mod < Light, ResolveFormId(f).resolved
  PROVE  /\ f.mod + 1 \in DOMAIN savedOrder.regular
         /\ \E i \in DOMAIN order.regular :
              /\ order.regular[i] = savedOrder.regular[f.mod + 1]
              /\ i - 1 # Created
              /\ ResolveFormId(f) = To([f EXCEPT !.mod = i - 1])
PROOF
<1>1. RegularFormResolves(f) /\ ResolveFormId(f) # Refused
  BY ResolvesByMap DEF Refused
<1>2. f.mod < Len(savedOrder.regular)
  BY <1>1 DEF RegularFormResolves
<1>3. PICK i \in DOMAIN order.regular :
        /\ order.regular[i] = savedOrder.regular[f.mod + 1]
        /\ ResolveFormId(f) = To([f EXCEPT !.mod = i - 1])
  BY <1>1, <1>2 DEF RegularFormResolves
<1>4. /\ order \in LoadOrders /\ order.regular \in Seq(Names)
      /\ Len(order.regular) <= Byte - 2 /\ savedOrder.regular \in Seq(Names)
  BY OrderAssumption DEF IdsInv, FileListsSavedOrder
<1>5. i - 1 # Created
  BY <1>3, <1>4, WidthAssumption DEF Created
<1>6. f.mod + 1 \in DOMAIN savedOrder.regular
  BY <1>2, <1>4 DEF Forms
<1> QED
  BY <1>3, <1>5, <1>6

LEMMA ToIsInjective ==
  ASSUME NEW x, NEW y, To(x) = To(y)
  PROVE  x = y
PROOF
<1>1. To(x).form = x /\ To(y).form = y
  BY DEF To
<1> QED
  BY <1>1

(* A light form that resolves at all does so through the byte of its place *)
(* in the file, and remains a light form.                                  *)
LEMMA ResolvedLightForm ==
  ASSUME IdsInv, loaded, NEW f \in Forms, f.mod = Light, ResolveFormId(f).resolved
  PROVE  /\ f.light + 1 \in DOMAIN savedOrder.light
         /\ ResolveFormId(f) =
              To([f EXCEPT !.light = Place(savedOrder.light[f.light + 1], order.light, None) % Byte])
PROOF
<1> DEFINE light == savedOrder.light
<1>1. /\ Byte \in Nat /\ 2 < Byte /\ Byte < Lights /\ Lights \in Nat /\ Light # Created
      /\ f.light \in 0..(Lights - 1)
  BY WidthAssumption DEF Forms, Light, Created
<1>2. savedOrder \in LoadOrders /\ light \in Seq(Names)
  BY OrderAssumption DEF IdsInv, FileListsSavedOrder
<1>3. PICK n : n = Len(light) % Byte
  OBVIOUS
<1>4. n \in Nat /\ n < Byte /\ n <= Len(light) /\ Len(light) \in Nat
  <2>1. PICK m \in Nat : m = Len(light)
    BY <1>2
  <2>2. n = m % Byte /\ 0 < Byte /\ Byte \in Nat
    BY <1>1, <1>3, <2>1
  <2>3. n \in Nat /\ n < Byte /\ n <= m
    BY <2>2, Remainder
  <2> QED
    BY <2>1, <2>3
<1>5. Len(Listed(light)) = n /\ \A k \in 1..n : Listed(light)[k] = light[k]
  BY <1>2, <1>3, <1>4 DEF Listed
<1>6. file.light = Listed(light) /\ numLightMods = n
  BY <1>5 DEF IdsInv, FileListsSavedOrder, MapsFollowFile
<1>7. /\ ResolveLightModIndex(f.light) # None
      /\ ResolveFormId(f) = To([f EXCEPT !.light = ResolveLightModIndex(f.light)])
  <2>1. ResolveFormId(f) = IF ResolveLightModIndex(f.light) = None THEN Refused
                           ELSE To([f EXCEPT !.light = ResolveLightModIndex(f.light)])
    BY <1>1 DEF ResolveFormId
  <2> QED
    BY <2>1 DEF Refused
<1>8. f.light < n /\ ResolveLightModIndex(f.light) = lightIndexMap[f.light]
  BY <1>6, <1>7 DEF ResolveLightModIndex
<1>9. f.light \in 0..(Lights - 2) /\ f.light < Len(file.light) /\ f.light + 1 \in 1..n
  BY <1>1, <1>4, <1>5, <1>6, <1>8
<1>10. lightIndexMap[f.light] = GetLoadedLightModIndex(file.light[f.light + 1]) % Byte
  BY <1>9 DEF IdsInv, MapsFollowFile
<1>11. file.light[f.light + 1] = light[f.light + 1]
  BY <1>5, <1>6, <1>9
<1>12. f.light + 1 \in DOMAIN light
  BY <1>2, <1>4, <1>9
<1> QED
  BY <1>7, <1>8, <1>10, <1>11, <1>12 DEF GetLoadedLightModIndex

(* Two light forms whose plugins are loaded where a byte reaches.          *)
LEMMA LightFormsStayApart ==
  ASSUME IdsInv, loaded, NEW f \in Forms, NEW g \in Forms, f.mod = Light, g.mod = Light,
         ResolveFormId(f).resolved, ResolveFormId(f) = ResolveFormId(g),
         HasByteForPlace(f), HasByteForPlace(g)
  PROVE  f = g
PROOF
<1>1. /\ savedOrder \in LoadOrders /\ savedOrder.light \in Seq(Names) /\ Distinct(savedOrder.light)
      /\ order \in LoadOrders /\ order.light \in Seq(Names) /\ Distinct(order.light)
      /\ Byte \in Nat
  BY OrderAssumption, WidthAssumption DEF IdsInv, FileListsSavedOrder
<1>2. ASSUME NEW x \in Forms, x.mod = Light, ResolveFormId(x).resolved, HasByteForPlace(x)
      PROVE  /\ x.light + 1 \in DOMAIN savedOrder.light
             /\ \E i \in DOMAIN order.light :
                  /\ order.light[i] = savedOrder.light[x.light + 1]
                  /\ ResolveFormId(x) = To([x EXCEPT !.light = i - 1])
  <2>1. PICK i \in DOMAIN order.light : i <= Byte /\ order.light[i] = savedOrder.light[x.light + 1]
    BY <1>2 DEF HasByteForPlace
  <2>2. PICK name : name = savedOrder.light[x.light + 1]
    OBVIOUS
  <2>3. Place(name, order.light, None) = i - 1
    <3> DEFINE k == CHOOSE j \in DOMAIN order.light : order.light[j] = name
    <3>1. k \in DOMAIN order.light /\ order.light[k] = name
      BY <2>1, <2>2
    <3>2. k = i
      BY <2>1, <2>2, <3>1, <1>1 DEF Distinct
    <3> QED
      BY <2>1, <2>2, <3>2 DEF Place
  <2>4. i - 1 \in Nat /\ i - 1 < Byte
    BY <1>1, <2>1
  <2>5. (i - 1) % Byte = i - 1
    BY <1>1, <2>4, SmallRemainder
  <2> QED
    BY <1>2, <2>1, <2>2, <2>3, <2>5, ResolvedLightForm
<1>3. PICK i \in DOMAIN order.light :
        /\ order.light[i] = savedOrder.light[f.light + 1]
        /\ ResolveFormId(f) = To([f EXCEPT !.light = i - 1])
  BY <1>2
<1>4. PICK j \in DOMAIN order.light :
        /\ order.light[j] = savedOrder.light[g.light + 1]
        /\ ResolveFormId(g) = To([g EXCEPT !.light = j - 1])
  BY <1>2
<1>5. [f EXCEPT !.light = i - 1] = [g EXCEPT !.light = j - 1]
  BY <1>3, <1>4, ToIsInjective
<1>6. i - 1 = j - 1 /\ f.id = g.id
  <2>1. /\ [f EXCEPT !.light = i - 1].light = i - 1 /\ [g EXCEPT !.light = j - 1].light = j - 1
        /\ [f EXCEPT !.light = i - 1].id = f.id /\ [g EXCEPT !.light = j - 1].id = g.id
    BY DEF Forms
  <2> QED
    BY <1>5, <2>1
<1>7. i = j
  BY <1>1, <1>6
<1>8. f.light + 1 = g.light + 1
  BY <1>1, <1>2, <1>3, <1>4, <1>7 DEF Distinct
<1>9. f.light = g.light
  BY <1>8 DEF Forms
<1> QED
  BY <1>6, <1>9 DEF Forms

(* Nor does a light form resolve to what another form resolves to.         *)
LEMMA LightFormsStayLight ==
  ASSUME IdsInv, loaded, NEW f \in Forms, NEW g \in Forms, f.mod = Light, g.mod # Light,
         ResolveFormId(f).resolved, ResolveFormId(f) = ResolveFormId(g)
  PROVE  FALSE
PROOF
<1>1. /\ Byte \in Nat /\ 2 < Byte /\ Light = Byte - 2 /\ Created = Byte - 1
      /\ g.mod \in 0..(Byte - 1)
  BY WidthAssumption DEF Forms, Light, Created
<1>2. PICK l : ResolveFormId(f) = To([f EXCEPT !.light = l])
  BY ResolvedLightForm
<1>3. [f EXCEPT !.light = l].mod = Light
  BY DEF Forms
<1>4. CASE g.mod = Created
  <2>1. [f EXCEPT !.light = l] = g
    BY <1>2, <1>4, CreatedIsKept, ToIsInjective
  <2> QED
    BY <1>1, <1>3, <1>4, <2>1
<1>5. CASE g.mod # Created
  <2>1. g.mod < Light
    BY <1>1, <1>5
  <2>2. PICK i \in DOMAIN order.regular : ResolveFormId(g) = To([g EXCEPT !.mod = i - 1])
    BY <2>1, ResolvedIsInPlugin
  <2>3. [f EXCEPT !.light = l] = [g EXCEPT !.mod = i - 1]
    BY <1>2, <2>2, ToIsInjective
  <2>4. [g EXCEPT !.mod = i - 1].mod = i - 1
    BY DEF Forms
  <2>5. order.regular \in Seq(Names) /\ Len(order.regular) <= Byte - 2
    BY OrderAssumption DEF IdsInv
  <2>6. i \in Nat /\ i - 1 < Light
    BY <1>1, <2>5
  <2>7. Light = i - 1
    BY <1>3, <2>3, <2>4
  <2> QED
    BY <1>1, <2>6, <2>7
<1> QED
  BY <1>4, <1>5

(* Two forms that are none of a light plugin's and resolve to one are one. *)
LEMMA OtherFormsStayApart ==
  ASSUME IdsInv, loaded, NEW f \in Forms, NEW g \in Forms, f.mod # Light, g.mod # Light,
         ResolveFormId(f).resolved, ResolveFormId(f) = ResolveFormId(g)
  PROVE  f = g
PROOF
<1>1. \A x \in Forms : x.mod # Light => x.mod = Created \/ x.mod < Light
  BY WidthAssumption DEF Forms, Light, Created
<1>2. \A x, y : To(x) = To(y) => x = y
  BY ToIsInjective
\* A form of a plugin never resolves to one the game created.
<1>3. ASSUME NEW x \in Forms, NEW y \in Forms, x.mod < Light, y.mod = Created,
             ResolveFormId(x).resolved, ResolveFormId(x) = ResolveFormId(y)
      PROVE  FALSE
  <2>1. PICK i \in DOMAIN order.regular :
          i - 1 # Created /\ ResolveFormId(x) = To([x EXCEPT !.mod = i - 1])
    BY <1>3, ResolvedIsInPlugin
  <2>2. [x EXCEPT !.mod = i - 1] = y
    BY <1>2, <1>3, <2>1, CreatedIsKept
  <2>3. [x EXCEPT !.mod = i - 1].mod = i - 1
    BY DEF Forms
  <2> QED
    BY <1>3, <2>1, <2>2, <2>3
<1>4. CASE f.mod < Light /\ g.mod < Light
  <2>1. PICK i \in DOMAIN order.regular :
          /\ order.regular[i] = savedOrder.regular[f.mod + 1]
          /\ ResolveFormId(f) = To([f EXCEPT !.mod = i - 1])
    BY <1>4, ResolvedIsInPlugin
  <2>2. PICK j \in DOMAIN order.regular :
          /\ order.regular[j] = savedOrder.regular[g.mod + 1]
          /\ ResolveFormId(g) = To([g EXCEPT !.mod = j - 1])
    BY <1>4, ResolvedIsInPlugin
  <2>3. [f EXCEPT !.mod = i - 1] = [g EXCEPT !.mod = j - 1]
    BY <1>2, <2>1, <2>2
  <2>4. i - 1 = j - 1 /\ f.light = g.light /\ f.id = g.id
    <3>1. /\ [f EXCEPT !.mod = i - 1].mod = i - 1 /\ [g EXCEPT !.mod = j - 1].mod = j - 1
          /\ [f EXCEPT !.mod = i - 1].light = f.light /\ [g EXCEPT !.mod = j - 1].light = g.light
          /\ [f EXCEPT !.mod = i - 1].id = f.id /\ [g EXCEPT !.mod = j - 1].id = g.id
      BY DEF Forms
    <3> QED
      BY <2>3, <3>1
  <2>5. order \in LoadOrders /\ order.regular \in Seq(Names) /\ savedOrder \in LoadOrders
    BY OrderAssumption DEF IdsInv, FileListsSavedOrder
  <2>6. i = j
    BY <2>4, <2>5
  <2>7. savedOrder.regular[f.mod + 1] = savedOrder.regular[g.mod + 1]
    BY <2>1, <2>2, <2>6
  <2>8. f.mod + 1 = g.mod + 1
    BY <1>4, <2>5, <2>7, ResolvedIsInPlugin, OrderAssumption DEF Distinct
  <2>9. f.mod = g.mod
    BY <2>8 DEF Forms
  <2> QED
    BY <2>4, <2>9 DEF Forms
<1>5. CASE f.mod = Created /\ g.mod = Created
  <2>1. To(f) = To(g)
    BY <1>5, CreatedIsKept
  <2> QED
    BY <1>2, <2>1
<1> QED
  BY <1>1, <1>3, <1>4, <1>5

(* Forms that resolve to one and differ are light plugins' forms, one of   *)
(* which has no byte for its place.                                        *)
LEMMA FormsStayApart ==
  ASSUME IdsInv, loaded, NEW f \in Forms, NEW g \in Forms, f # g,
         ResolveFormId(f).resolved, ResolveFormId(f) = ResolveFormId(g)
  PROVE  f.mod = Light /\ g.mod = Light /\ (~HasByteForPlace(f) \/ ~HasByteForPlace(g))
PROOF
<1>1. CASE f.mod = Light /\ g.mod = Light
  BY <1>1, LightFormsStayApart
<1>2. CASE f.mod = Light /\ g.mod # Light
  BY <1>2, LightFormsStayLight
<1>3. CASE f.mod # Light /\ g.mod = Light
  BY <1>3, LightFormsStayLight
<1>4. CASE f.mod # Light /\ g.mod # Light
  BY <1>4, OtherFormsStayApart
<1> QED
  BY <1>1, <1>2, <1>3, <1>4

(* Handles of different forms come to stand for the same one only if both  *)
(* are of light plugins and one of these is not loaded or in a place that  *)
(* a byte does not hold; those of created forms stay as they are           *)
(* (ResolveHandle); whatever the load orders of save and session are.      *)
THEOREM HandlesAlwaysStayApart == FormIdsSpec => []HandlesStayApart
PROOF
<1>1. ASSUME IdsInv, loaded, NEW h \in Handles, h.form.mod = Created
      PROVE  ResolveHandle(h) = [resolved |-> TRUE, handle |-> h]
  <2>1. h.form \in Forms /\ [h EXCEPT !.form = h.form] = h
    BY DEF Handles
  <2>2. To(h.form).resolved /\ To(h.form).form = h.form
    BY DEF To
  <2> QED
    BY <1>1, <2>1, <2>2, CreatedIsKept DEF ResolveHandle
<1>2. ASSUME IdsInv, loaded, NEW h \in Handles, NEW k \in Handles,
             h # k, ResolveHandle(h).resolved, ResolveHandle(k).resolved,
             ResolveHandle(h) = ResolveHandle(k)
      PROVE  /\ h.form.mod = Light /\ k.form.mod = Light
             /\ ~HasByteForPlace(h.form) \/ ~HasByteForPlace(k.form)
  <2>1. h.form \in Forms /\ k.form \in Forms
    BY DEF Handles
  <2>2. ~Refused.resolved
    BY DEF Refused
  <2>3. ResolveFormId(h.form).resolved /\ ResolveFormId(k.form).resolved
    BY <1>2, <2>2 DEF ResolveHandle
  <2>4. /\ ResolveHandle(h).handle = [h EXCEPT !.form = ResolveFormId(h.form).form]
        /\ ResolveHandle(k).handle = [k EXCEPT !.form = ResolveFormId(k.form).form]
    BY <2>3 DEF ResolveHandle
  <2>5. ResolveFormId(h.form).form = ResolveFormId(k.form).form /\ h.high = k.high
    <3>1. [h EXCEPT !.form = ResolveFormId(h.form).form]
            = [k EXCEPT !.form = ResolveFormId(k.form).form]
      BY <1>2, <2>4
    <3>2. \A form : /\ [h EXCEPT !.form = form].form = form
                    /\ [h EXCEPT !.form = form].high = h.high
                    /\ [k EXCEPT !.form = form].form = form
                    /\ [k EXCEPT !.form = form].high = k.high
      BY DEF Handles
    <3> DEFINE fh == ResolveFormId(h.form).form
               fk == ResolveFormId(k.form).form
    <3>3. [h EXCEPT !.form = fh].form = fh /\ [h EXCEPT !.form = fh].high = h.high
      BY <3>2
    <3>4. [k EXCEPT !.form = fk].form = fk /\ [k EXCEPT !.form = fk].high = k.high
      BY <3>2
    <3>5. [h EXCEPT !.form = fh] = [k EXCEPT !.form = fk]
      BY <3>1
    <3> HIDE DEF fh, fk
    <3>6. fh = fk /\ h.high = k.high
      BY <3>3, <3>4, <3>5
    <3> QED
      BY <3>6 DEF fh, fk
  <2>6. \A x \in Forms : ResolveFormId(x) = Refused \/ ResolveFormId(x) = To(ResolveFormId(x).form)
    <3>1. \A x : To(x).form = x
      BY DEF To
    <3>2. \A x \in Forms : ResolveFormId(x) = Refused \/ \E form : ResolveFormId(x) = To(form)
      BY DEF ResolveFormId
    <3> QED
      BY <3>1, <3>2
  <2>7. ResolveFormId(h.form) = ResolveFormId(k.form)
    BY <2>1, <2>2, <2>3, <2>5, <2>6
  <2>8. h.form # k.form
    BY <1>2, <2>5 DEF Handles
  <2>9. PICK f \in Forms, g \in Forms : f = h.form /\ g = k.form
    BY <2>1
  <2>10. f # g /\ ResolveFormId(f).resolved /\ ResolveFormId(f) = ResolveFormId(g)
    BY <2>3, <2>7, <2>8, <2>9
  <2>11. f.mod = Light /\ g.mod = Light /\ (~HasByteForPlace(f) \/ ~HasByteForPlace(g))
    BY <1>2, <2>10, FormsStayApart
  <2> QED
    BY <2>9, <2>11
<1>3. IdsInv => HandlesStayApart
  BY <1>1, <1>2 DEF HandlesStayApart
<1> QED
  BY <1>3, IdsInvHolds, PTL

-----------------------------------------------------------------------------
(***************************************************************************)
(* The file of the co-save.  Its cells are where the history places says:  *)
(* the parts of the plugins one behind the other, each with its records    *)
(* one behind the other; what a save has still to write are the headers it *)
(* has skipped.                                                            *)
(***************************************************************************)
Written == {p \in Plugins : wrote[p] # <<>>}
DataLen(p, n) == Len(wrote[p][n].data)

(* Record 0 is the header of the plugin.                                   *)
RecordAt(p, n) == places[p][n + 1]
RecordEnd(p, n) == RecordAt(p, n) + 1 + (IF n = 0 THEN 0 ELSE DataLen(p, n))
PartAt(p) == RecordAt(p, 0)
PartEnd(p) == RecordEnd(p, Len(wrote[p]))

RecordsInOrder(p) ==
  /\ wrote[p] \in Seq(Record) /\ places[p] \in Seq(Nat)
  /\ wrote[p] = <<>> => places[p] = <<>>
  /\ wrote[p] # <<>> => /\ Len(places[p]) = Len(wrote[p]) + 1
                        /\ PartAt(p) >= 1
  /\ \A n \in 1..Len(wrote[p]) :
       /\ RecordAt(p, n) = RecordEnd(p, n - 1)
       /\ \A m \in 0..n - 1 : RecordEnd(p, m) <= RecordAt(p, n)
       /\ wrote[p][n].type = <<p, n>> /\ n <= MaxRecords
       /\ \A k \in 1..DataLen(p, n) : wrote[p][n].data[k] = k /\ k <= MaxData

PartsInOrder ==
  /\ \A p \in Plugins : RecordsInOrder(p)
  /\ \A p, q \in Written : p < q => PartEnd(p) <= PartAt(q)

(* Whatever is behind the file's header is in a part.                      *)
CoveredTo(end) ==
  \A i \in 1..end - 1 : \E p \in Written : PartAt(p) <= i /\ i < PartEnd(p)

CellIs(at, cell) == at < Len(cells) /\ cells[at + 1] = cell
HeaderIsThere(p) ==
  CellIs(PartAt(p), [uid |-> p, numChunks |-> Len(wrote[p]), length |-> PartEnd(p) - PartAt(p) - 1])
RecordIsThere(p, n) == CellIs(RecordAt(p, n), [type |-> <<p, n>>, length |-> DataLen(p, n)])
DataAreThere(p, n) == \A k \in 1..DataLen(p, n) : CellIs(RecordAt(p, n) + k, [datum |-> k])
PartIsThere(p) ==
  HeaderIsThere(p) /\ \A n \in 1..Len(wrote[p]) : RecordIsThere(p, n) /\ DataAreThere(p, n)

FileIsWhole ==
  /\ Len(cells) >= 1 /\ cells[1] = FileHeader
  /\ \A p \in Written : PartIsThere(p) /\ PartEnd(p) <= Len(cells)
  /\ CoveredTo(Len(cells))

(* While it is saved.                                                      *)
OpenPart ==
  LET n == Len(wrote[current])
  IN /\ pluginHeader.uid = current /\ pluginHeader.numChunks = n
     /\ chunkOpen <=> n > 0
     /\ n = 0 => pluginHeader.length = 0
     /\ n > 0 => /\ headerAt = PartAt(current) /\ chunkAt = RecordAt(current, n)
                 /\ offset = PartEnd(current)
                 /\ chunkHeader = [type |-> <<current, n>>, length |-> 0]
                 /\ pluginHeader.length = chunkAt - headerAt - 1
                 /\ \A m \in 1..n - 1 : RecordIsThere(current, m) /\ DataAreThere(current, m)
                 /\ DataAreThere(current, n)

Saving == mode \in {"save", "saving"}
SavingInv ==
  /\ ~complete /\ onDisk /\ offset >= 1
  /\ mode = "saving" => current # 0
  /\ \A p \in Written : /\ current = 0 \/ p < current \/ (mode = "saving" /\ p = current)
                        /\ PartEnd(p) <= offset
                        /\ mode = "save" \/ p # current => PartIsThere(p)
  /\ CoveredTo(offset)
  /\ Len(cells) <= offset
  /\ mode = "save" \/ wrote[current] = <<>> =>
       IF Written = {} THEN cells = <<>> /\ offset = 1 ELSE Len(cells) = offset
  /\ got = Nothing /\ readAll = {}
  /\ mode = "saving" => OpenPart

(* On the disk.                                                            *)
DiskInv ==
  /\ ~complete => cells = <<>> \/ cells[1] = Hole
  /\ complete /\ onDisk => FileIsWhole
  /\ ~onDisk => cells = <<>> /\ mode = "idle"
  /\ Saving => SavingInv

(* While it is loaded.                                                     *)
AtBoundary ==
  \/ cells = <<>> /\ ~complete /\ offset = 0 /\ hadData = {}
  \/ complete /\ offset = 1 /\ hadData = {}
  \/ complete /\ \E p \in Written : offset = PartEnd(p) /\ \A q \in hadData : q <= p

InPart ==
  LET n == Len(got[current])
  IN /\ complete /\ current \in Written \cap hadData
     /\ \A q \in hadData : q <= current
     /\ expected = PartEnd(current)
     /\ n <= Len(wrote[current]) /\ pluginHeader.numChunks = Len(wrote[current]) - n
     /\ IF chunkOpen
        THEN /\ n > 0 /\ chunkHeader.length <= DataLen(current, n)
             /\ Len(got[current][n].data) = DataLen(current, n) - chunkHeader.length
             /\ offset = RecordEnd(current, n) - chunkHeader.length
        ELSE offset = RecordEnd(current, n)

LoadingInv ==
  /\ mode = "load" => AtBoundary
  /\ mode = "loading" => InPart
  /\ mode \in {"load", "loading"} =>
       (\A p \in Plugins \ hadData : got[p] = <<>>) /\ readAll \subseteq hadData
  /\ mode = "resting" => current \in installed \ hadData

GotInv ==
  \A p \in hadData :
    /\ Len(got[p]) <= Len(wrote[p])
    /\ p \in readAll => Len(got[p]) = Len(wrote[p])
    /\ \A n \in 1..Len(got[p]) :
         /\ got[p][n].type = <<p, n>>
         /\ Len(got[p][n].data) <= DataLen(p, n)
         /\ \A k \in 1..Len(got[p][n].data) : got[p][n].data[k] = k

CoSaveInv == SaveTypeOK /\ PartsInOrder /\ DiskInv /\ LoadingInv /\ GotInv

-----------------------------------------------------------------------------
LEMMA LeastNumber ==
  ASSUME NEW T \in SUBSET Nat, T # {}
  PROVE  \E x \in T : \A y \in T : x <= y
PROOF
<1>1. \E x \in T : \A y \in T : ~ (<<y, x>> \in OpToRel(<, Nat))
  BY NatLessThanWellFounded, WFMin
<1>2. \A x, y \in T : y < x => <<y, x>> \in OpToRel(<, Nat)
  BY DEF OpToRel
<1>3. \E x \in T : \A y \in T : ~ (y < x)
  BY <1>1, <1>2, Zenon
<1> QED
  BY <1>3

(* The next plugin, if there is one, comes later.                          *)
LEMMA NextIsLater ==
  ASSUME NEW S \in SUBSET Plugins, NEW p \in Nat
  PROVE  /\ NextOf(p, S) \in S \cup {0}
         /\ NextOf(p, S) # 0 => NextOf(p, S) > p
PROOF
<1>1. CASE After(p, S) = {}
  BY <1>1 DEF NextOf
<1>2. CASE After(p, S) # {}
  <2>1. After(p, S) \in SUBSET Nat /\ After(p, S) \subseteq S
    BY HandlesAssumption DEF After
  <2>2. PICK x \in After(p, S) : \A y \in After(p, S) : x <= y
    BY <1>2, <2>1, LeastNumber
  <2>3. Lowest(After(p, S)) \in After(p, S)
    BY <2>2 DEF Lowest
  <2>4. QED
    BY <1>2, <2>1, <2>3 DEF NextOf, After
<1> QED
  BY <1>1, <1>2

-----------------------------------------------------------------------------
(* What a write does to the cells.                                         *)
LEMMA CellKinds ==
  /\ Hole \in Cell /\ FileHeader \in Cell
  /\ ChunkHeader \subseteq Cell /\ PluginHeader \subseteq Cell
  /\ \A k \in 1..MaxData : [datum |-> k] \in Cell
  /\ Hole # FileHeader
PROOF
<1>1. DOMAIN Hole = {"hole"} /\ DOMAIN FileHeader = {"f4se"}
  BY DEF Hole, FileHeader
<1>2. Hole # FileHeader
  BY <1>1
<1> QED
  BY <1>2 DEF Cell

LEMMA PutFacts ==
  ASSUME NEW f \in Seq(Cell), NEW at \in Nat, NEW cell \in Cell
  PROVE  /\ Put(f, at, cell) \in Seq(Cell)
         /\ Len(Put(f, at, cell)) = IF at >= Len(f) THEN at + 1 ELSE Len(f)
         /\ \A i \in 1..Len(Put(f, at, cell)) :
              Put(f, at, cell)[i] = IF i = at + 1 THEN cell
                                    ELSE IF i <= Len(f) THEN f[i] ELSE Hole
PROOF
<1> DEFINE n == IF at >= Len(f) THEN at + 1 ELSE Len(f)
           g == [i \in 1..n |-> IF i = at + 1 THEN cell ELSE IF i <= Len(f) THEN f[i] ELSE Hole]
<1>1. n \in Nat
  OBVIOUS
<1>2. \A i \in 1..n : (IF i = at + 1 THEN cell ELSE IF i <= Len(f) THEN f[i] ELSE Hole) \in Cell
  BY CellKinds
<1>3. g \in [1..n -> Cell]
  BY <1>2
<1>4. g \in Seq(Cell) /\ Len(g) = n
  BY <1>1, <1>3
<1>5. g = Put(f, at, cell)
  BY DEF Put
<1> QED
  BY <1>1, <1>4, <1>5

(* A cell that was there and is not written stays.                         *)
LEMMA PutKeeps ==
  ASSUME cells \in Seq(Cell), NEW at \in Nat, NEW cell \in Cell,
         cells' = Put(cells, at, cell)
  PROVE  /\ cells' \in Seq(Cell)
         /\ Len(cells') = IF at >= Len(cells) THEN at + 1 ELSE Len(cells)
         /\ cells'[at + 1] = cell
         /\ \A j \in Nat : j < Len(cells) /\ j # at => cells'[j + 1] = cells[j + 1]
         /\ at # 0 /\ (cells = <<>> \/ cells[1] = Hole) => cells'[1] = Hole
PROOF
<1>1. /\ cells' \in Seq(Cell)
      /\ Len(cells') = IF at >= Len(cells) THEN at + 1 ELSE Len(cells)
      /\ \A i \in 1..Len(cells') :
           cells'[i] = IF i = at + 1 THEN cell ELSE IF i <= Len(cells) THEN cells[i] ELSE Hole
  BY PutFacts, ZenonT(40)
<1>2. Len(cells) \in Nat
  OBVIOUS
<1>3. cells'[at + 1] = cell
  BY <1>1, <1>2
<1>4. \A j \in Nat : j < Len(cells) /\ j # at => cells'[j + 1] = cells[j + 1]
  BY <1>1, <1>2
<1>5. ASSUME at # 0, cells = <<>> \/ cells[1] = Hole PROVE cells'[1] = Hole
  <2>1. 1 \in 1..Len(cells')
    BY <1>1, <1>2
  <2>2. cells'[1] = IF 1 <= Len(cells) THEN cells[1] ELSE Hole
    BY <1>1, <1>5, <2>1
  <2>3. QED
    BY <1>5, <2>2
<1> QED
  BY <1>1, <1>3, <1>4, <1>5
-----------------------------------------------------------------------------
(* The types of all variables.                                             *)
LEMMA HeaderChanges ==
  /\ \A h \in ChunkHeader, n \in Nat :
       [h EXCEPT !.length = n] = [type |-> h.type, length |-> n]
  /\ \A h \in PluginHeader, n \in Nat :
       /\ [h EXCEPT !.length = n] = [uid |-> h.uid, numChunks |-> h.numChunks, length |-> n]
       /\ [h EXCEPT !.numChunks = n] = [uid |-> h.uid, numChunks |-> n, length |-> h.length]
  /\ \A r \in Record, s \in Seq(0..MaxData) :
       [r EXCEPT !.data = s] = [type |-> r.type, data |-> s]
  /\ \A h \in ChunkHeader : h.type \in Types \cup {NoType} /\ h.length \in Nat
  /\ \A h \in PluginHeader :
       h.uid \in Plugins \cup {0} /\ h.numChunks \in Nat /\ h.length \in Nat
  /\ \A r \in Record : r.type \in Types \cup {NoType} /\ r.data \in Seq(0..MaxData)
  /\ <<>> \in Seq(Cell)
PROOF
<1>1. \A h \in ChunkHeader, n \in Nat : [h EXCEPT !.length = n] = [type |-> h.type, length |-> n]
  BY DEF ChunkHeader
<1>2. \A h \in PluginHeader, n \in Nat :
       /\ [h EXCEPT !.length = n] = [uid |-> h.uid, numChunks |-> h.numChunks, length |-> n]
       /\ [h EXCEPT !.numChunks = n] = [uid |-> h.uid, numChunks |-> n, length |-> h.length]
  BY DEF PluginHeader
<1>3. \A r \in Record, s \in Seq(0..MaxData) : [r EXCEPT !.data = s] = [type |-> r.type, data |-> s]
  BY DEF Record
<1> QED
  BY <1>1, <1>2, <1>3 DEF ChunkHeader, PluginHeader, Record

LEMMA SaveTypeInit == SaveInit => SaveTypeOK
PROOF
<1> SUFFICES ASSUME SaveInit PROVE SaveTypeOK
  OBVIOUS
<1>1. Nothing \in [Plugins -> Seq(Record)] /\ Nothing \in [Plugins -> Seq(Nat)]
  BY DEF Nothing
<1>2. NoHeader \in PluginHeader /\ NoChunk \in ChunkHeader
  BY DEF NoHeader, NoChunk, PluginHeader, ChunkHeader
<1>3. cells \in Seq(Cell) /\ wrote \in [Plugins -> Seq(Record)] /\ got \in [Plugins -> Seq(Record)]
      /\ places \in [Plugins -> Seq(Nat)]
  BY <1>1, HeaderChanges DEF SaveInit
<1>4. pluginHeader \in PluginHeader /\ chunkHeader \in ChunkHeader /\ runs \in 0..MaxRuns
  BY <1>2, HandlesAssumption DEF SaveInit
<1> QED
  BY <1>3, <1>4 DEF SaveInit, SaveTypeOK

LEMMA ReadTypes ==
  ASSUME NEW cell \in Cell
  PROVE  /\ AsPlugin(cell) \in PluginHeader /\ AsChunk(cell) \in ChunkHeader
         /\ AsDatum(cell) \in 0..MaxData
PROOF
<1>1. NoHeader \in PluginHeader /\ NoChunk \in ChunkHeader
  BY DEF NoHeader, NoChunk, PluginHeader, ChunkHeader
<1>2. CASE cell = Hole
  <2>1. DOMAIN cell = {"hole"}
    BY <1>2 DEF Hole
  <2>2. QED
    BY <1>1, <2>1, HandlesAssumption DEF AsPlugin, AsChunk, AsDatum
<1>3. CASE cell = FileHeader
  <2>1. DOMAIN cell = {"f4se"}
    BY <1>3 DEF FileHeader
  <2>2. QED
    BY <1>1, <2>1, HandlesAssumption DEF AsPlugin, AsChunk, AsDatum
<1>4. CASE cell \in ChunkHeader
  <2>1. DOMAIN cell = {"type", "length"}
    BY <1>4 DEF ChunkHeader
  <2>2. QED
    BY <1>1, <1>4, <2>1, HandlesAssumption DEF AsPlugin, AsChunk, AsDatum
<1>5. CASE cell \in PluginHeader
  <2>1. DOMAIN cell = {"uid", "numChunks", "length"}
    BY <1>5 DEF PluginHeader
  <2>2. QED
    BY <1>1, <1>5, <2>1, HandlesAssumption DEF AsPlugin, AsChunk, AsDatum
<1>6. CASE cell \in [datum : 1..MaxData]
  <2>1. DOMAIN cell = {"datum"} /\ cell.datum \in 1..MaxData
    BY <1>6
  <2>2. QED
    BY <1>1, <2>1, HandlesAssumption DEF AsPlugin, AsChunk, AsDatum
<1> QED
  BY <1>2, <1>3, <1>4, <1>5, <1>6 DEF Cell

(* What a flush writes is a header.                                        *)
LEMMA FlushTypes ==
  ASSUME SaveTypeOK, DiskInv, mode = "saving"
  PROVE  /\ FlushedHeader \in ChunkHeader /\ FlushedLength \in Nat
         /\ FlushedFile \in Seq(Cell)
PROOF
<1>1. OpenPart /\ current \in Plugins
  BY DEF DiskInv, Saving, SavingInv, SaveTypeOK
<1>2. chunkOpen => offset \in Nat /\ chunkAt \in Nat /\ offset >= chunkAt + 1
  <2> SUFFICES ASSUME chunkOpen PROVE offset >= chunkAt + 1
    BY DEF SaveTypeOK
  <2>1. Len(wrote[current]) \in Nat \ {0}
    BY <1>1 DEF OpenPart, SaveTypeOK
  <2>2. wrote[current][Len(wrote[current])] \in Record
    BY <1>1, <2>1 DEF SaveTypeOK
  <2>3. DataLen(current, Len(wrote[current])) \in Nat
    BY <2>2 DEF Record, DataLen
  <2>4. QED
    BY <1>1, <2>1, <2>3 DEF OpenPart, PartEnd, RecordEnd, SaveTypeOK
<1>3. FlushedHeader \in ChunkHeader
  <2>1. CASE chunkOpen
    <3>1. offset - chunkAt - 1 \in Nat
      BY <1>2, <2>1
    <3>2. FlushedHeader = [type |-> chunkHeader.type, length |-> offset - chunkAt - 1]
      BY <2>1, <3>1, HeaderChanges DEF FlushedHeader, SaveTypeOK
    <3>3. QED
      BY <3>1, <3>2, HeaderChanges DEF SaveTypeOK, ChunkHeader
  <2>2. CASE ~chunkOpen
    BY <2>2 DEF FlushedHeader, SaveTypeOK
  <2>3. QED
    BY <2>1, <2>2
<1>4. FlushedLength \in Nat
  BY <1>2 DEF FlushedLength, SaveTypeOK, PluginHeader
<1>5. FlushedFile \in Seq(Cell)
  BY <1>3, PutFacts, CellKinds DEF FlushedFile, SaveTypeOK
<1> QED
  BY <1>3, <1>4, <1>5

LEMMA SaveSideTypes ==
  ASSUME SaveTypeOK, DiskInv,
         SaveStart \/ SaveCall \/ OpenRecord \/ WriteRecordData \/ SaveReturn \/ SaveEnd
  PROVE  SaveTypeOK'
PROOF
<1>0. installed \in SUBSET Plugins /\ 0 \in Nat /\ Plugins \subseteq Nat
  BY HandlesAssumption DEF SaveTypeOK
<1>1. CASE SaveStart
  <2>1. Nothing \in [Plugins -> Seq(Record)] /\ Nothing \in [Plugins -> Seq(Nat)]
    BY DEF Nothing
  <2>2. NextOf(0, installed) \in Plugins \cup {0}
    BY <1>0, NextIsLater
  <2>3. runs' \in 0..MaxRuns
    BY <1>1, HandlesAssumption DEF SaveStart, SaveTypeOK
  <2>4. QED
    BY <1>1, <2>1, <2>2, <2>3, HeaderChanges DEF SaveStart, SaveTypeOK, header, chunk
<1>2. CASE SaveCall
  <2>1. pluginHeader' \in PluginHeader
    BY <1>2 DEF SaveCall, SaveTypeOK, PluginHeader
  <2>2. QED
    BY <1>2, <2>1 DEF SaveCall, SaveTypeOK, disk, history
<1>3. CASE OpenRecord
  <2>1. mode = "saving" /\ current \in Plugins
    BY <1>3 DEF OpenRecord, DiskInv, Saving, SavingInv, SaveTypeOK
  <2> DEFINE n == pluginHeader.numChunks + 1
             at == IF pluginHeader.numChunks = 0 THEN offset + 1 ELSE offset
             rec == [type |-> <<current, n>>, data |-> <<>>]
  <2>2. n \in 1..MaxRecords /\ pluginHeader.numChunks \in Nat /\ at \in Nat
    BY <1>3, HeaderChanges, SMTT(40) DEF OpenRecord, SaveTypeOK
  <2>3. rec \in Record /\ [type |-> <<current, n>>, length |-> 0] \in ChunkHeader
    BY <2>1, <2>2 DEF Record, ChunkHeader, Types
  <2>4. pluginHeader' \in PluginHeader
    <3>1. pluginHeader' = [pluginHeader EXCEPT !.length = FlushedLength, !.numChunks = n]
      BY <1>3 DEF OpenRecord
    <3>2. pluginHeader' = [uid |-> pluginHeader.uid, numChunks |-> n, length |-> FlushedLength]
      BY <3>1 DEF SaveTypeOK, PluginHeader
    <3>3. QED
      BY <3>2, <2>1, <2>2, FlushTypes DEF PluginHeader, SaveTypeOK
  <2>5. wrote' = [wrote EXCEPT ![current] = Append(wrote[current], rec)]
    BY <1>3 DEF OpenRecord
  <2>6. wrote' \in [Plugins -> Seq(Record)]
    BY <2>1, <2>3, <2>5 DEF SaveTypeOK
  <2>7. places' \in [Plugins -> Seq(Nat)]
    <3>1. places' = [places EXCEPT ![current] = IF pluginHeader.numChunks = 0 THEN <<offset, at>>
                                                ELSE Append(places[current], at)]
      BY <1>3 DEF OpenRecord
    <3>2. <<offset, at>> \in Seq(Nat) /\ Append(places[current], at) \in Seq(Nat)
      BY <2>1, <2>2 DEF SaveTypeOK
    <3>3. QED
      BY <2>1, <3>1, <3>2 DEF SaveTypeOK
  <2>8. /\ headerAt' \in Nat /\ chunkAt' \in Nat /\ offset' \in Nat /\ chunkOpen' \in BOOLEAN
        /\ chunkHeader' \in ChunkHeader /\ cells' \in Seq(Cell)
    <3>1. headerAt' = (IF pluginHeader.numChunks = 0 THEN offset ELSE headerAt)
          /\ chunkAt' = at /\ offset' = at + 1 /\ chunkOpen' = TRUE /\ cells' = FlushedFile
          /\ chunkHeader' = [type |-> <<current, n>>, length |-> 0]
      BY <1>3 DEF OpenRecord
    <3>2. cells' \in Seq(Cell)
      BY <2>1, <3>1, FlushTypes
    <3>3. QED
      BY <2>2, <2>3, <3>1, <3>2 DEF SaveTypeOK
  <2>9. QED
    BY <1>3, <2>4, <2>6, <2>7, <2>8 DEF OpenRecord, SaveTypeOK
<1>4. CASE WriteRecordData
  <2>1. mode = "saving" /\ chunkOpen /\ current \in Plugins
    BY <1>4 DEF WriteRecordData, DiskInv, Saving, SavingInv, SaveTypeOK
  <2> DEFINE n == Len(wrote[current])
             datum == Len(wrote[current][n].data) + 1
  <2>2. n \in 1..Len(wrote[current]) /\ wrote[current][n] \in Record
    BY <2>1 DEF DiskInv, Saving, SavingInv, OpenPart, SaveTypeOK
  <2>3. datum \in 1..MaxData /\ Append(wrote[current][n].data, datum) \in Seq(0..MaxData)
    BY <1>4, <2>2, HandlesAssumption DEF WriteRecordData, Record
  <2>4. cells' = Put(cells, offset, [datum |-> datum])
    BY <1>4 DEF WriteRecordData
  <2>5. cells' \in Seq(Cell)
    BY <2>3, <2>4, PutFacts, CellKinds DEF SaveTypeOK
  <2>6. wrote' = [wrote EXCEPT ![current][n].data = Append(wrote[current][n].data, datum)]
    BY <1>4 DEF WriteRecordData
  <2>7. [wrote[current][n] EXCEPT !.data = Append(wrote[current][n].data, datum)] \in Record
    BY <2>2, <2>3 DEF Record
  <2>8. [wrote[current] EXCEPT ![n] = [wrote[current][n] EXCEPT !.data = Append(wrote[current][n].data, datum)]]
          \in Seq(Record)
    BY <2>1, <2>2, <2>7 DEF SaveTypeOK
  <2>9. wrote' \in [Plugins -> Seq(Record)]
    BY <2>1, <2>6, <2>8 DEF SaveTypeOK
  <2>10. QED
    BY <1>4, <2>5, <2>9, SMTT(40) DEF WriteRecordData, SaveTypeOK, header, chunk
<1>5. CASE SaveReturn
  <2>1. mode = "saving" /\ current \in Nat
    BY <1>0, <1>5 DEF SaveReturn, SaveTypeOK
  <2>2. pluginHeader' \in PluginHeader
    BY <1>5, <2>1, FlushTypes, HeaderChanges DEF SaveReturn, SaveTypeOK, PluginHeader
  <2>3. cells' \in Seq(Cell)
    BY <1>5, <2>1, <2>2, FlushTypes, PutFacts, CellKinds DEF SaveReturn, SaveTypeOK
  <2>4. current' \in Plugins \cup {0}
    BY <1>0, <1>5, <2>1, NextIsLater DEF SaveReturn
  <2>5. QED
    BY <1>5, <2>1, <2>2, <2>3, <2>4, FlushTypes DEF SaveReturn, SaveTypeOK, history
<1>6. CASE SaveEnd
  <2>1. cells' \in Seq(Cell)
    BY <1>6, PutFacts, CellKinds DEF SaveEnd, SaveTypeOK
  <2>2. QED
    BY <1>6, <2>1 DEF SaveEnd, SaveTypeOK, header, chunk, history
<1> QED
  BY <1>1, <1>2, <1>3, <1>4, <1>5, <1>6

LEMMA LoadSideTypes ==
  ASSUME SaveTypeOK, LoadingInv,
         \/ \E plugins \in SUBSET Plugins : Restart(plugins)
         \/ LoadStart \/ LoadCall \/ GetNextRecordInfo \/ NoFurtherRecord \/ ReadRecordData
         \/ LoadReturn \/ RestCall \/ LoadEnd \/ DeleteSave \/ UNCHANGED saveVars
  PROVE  SaveTypeOK'
PROOF
<1>0. /\ installed \in SUBSET Plugins /\ 0 \in Nat /\ Plugins \subseteq Nat /\ current \in Nat
      /\ Nothing \in [Plugins -> Seq(Record)] /\ Nothing \in [Plugins -> Seq(Nat)]
      /\ NoHeader \in PluginHeader /\ NoChunk \in ChunkHeader
  BY HandlesAssumption DEF SaveTypeOK, Nothing, NoHeader, NoChunk, PluginHeader, ChunkHeader
<1>1. ASSUME NEW plugins \in SUBSET Plugins, Restart(plugins) PROVE SaveTypeOK'
  <2>1. runs' \in 0..MaxRuns
    BY <1>1, HandlesAssumption DEF Restart, SaveTypeOK
  <2>2. QED
    BY <1>0, <1>1, <2>1 DEF Restart, SaveTypeOK, disk
<1>2. CASE LoadStart
  <2>1. runs' \in 0..MaxRuns
    BY <1>2, HandlesAssumption DEF LoadStart, SaveTypeOK
  <2>2. QED
    BY <1>0, <1>2, <2>1 DEF LoadStart, SaveTypeOK, disk, header, chunk
<1>3. CASE LoadCall
  <2>1. cells[offset + 1] \in Cell
    BY <1>3 DEF LoadCall, SaveTypeOK
  <2>2. pluginHeader' \in PluginHeader
    BY <1>3, <2>1, ReadTypes DEF LoadCall
  <2>3. pluginHeader'.uid \in Plugins \cup {0} /\ pluginHeader'.length \in Nat
    BY <2>2 DEF PluginHeader
  <2>4. QED
    <3>1. offset + 1 \in Nat /\ offset + 1 + pluginHeader'.length \in Nat
      BY <2>3 DEF SaveTypeOK
    <3>2. CASE pluginHeader'.uid \in installed
      BY <1>3, <2>2, <2>3, <3>1, <3>2, HandlesAssumption DEF LoadCall, SaveTypeOK, disk, history
    <3>3. CASE pluginHeader'.uid \notin installed
      BY <1>3, <2>2, <2>3, <3>1, <3>3 DEF LoadCall, SaveTypeOK, disk, history
    <3>4. QED
      BY <3>2, <3>3
<1>4. CASE GetNextRecordInfo
  <2>1. current \in Plugins \/ current = 0
    BY DEF SaveTypeOK
  <2>2. PastRecord \in Nat
    BY DEF PastRecord, SaveTypeOK, ChunkHeader
  <2>3. ReadChunkHeader(PastRecord) \in ChunkHeader
    <3>1. CASE PastRecord < Len(cells)
      <4>1. cells[PastRecord + 1] \in Cell
        BY <2>2, <3>1 DEF SaveTypeOK
      <4>2. QED
        BY <3>1, <4>1, ReadTypes DEF ReadChunkHeader
    <3>2. CASE ~(PastRecord < Len(cells))
      BY <3>2 DEF ReadChunkHeader, SaveTypeOK
    <3>3. QED
      BY <3>1, <3>2
  <2>4. [type |-> chunkHeader'.type, data |-> <<>>] \in Record
    BY <1>4, <2>3 DEF GetNextRecordInfo, ChunkHeader, Record
  <2>5. got' = [got EXCEPT ![current] = Append(got[current], [type |-> chunkHeader'.type, data |-> <<>>])]
    BY <1>4 DEF GetNextRecordInfo
  <2>6. got' \in [Plugins -> Seq(Record)]
    <3>1. current \in Plugins
      BY <1>4 DEF GetNextRecordInfo, Reading, LoadingInv, InPart, Written, SaveTypeOK
    <3>2. Append(got[current], [type |-> chunkHeader'.type, data |-> <<>>]) \in Seq(Record)
      BY <2>4, <3>1 DEF SaveTypeOK
    <3>3. QED
      BY <2>5, <3>1, <3>2 DEF SaveTypeOK
  <2>7. pluginHeader' \in PluginHeader
    <3>1. pluginHeader.numChunks - 1 \in Nat /\ pluginHeader \in PluginHeader
      BY <1>4, HeaderChanges, SMTT(40) DEF GetNextRecordInfo, SaveTypeOK
    <3>2. pluginHeader' = [pluginHeader EXCEPT !.numChunks = pluginHeader.numChunks - 1]
      BY <1>4 DEF GetNextRecordInfo
    <3>3. pluginHeader' = [uid |-> pluginHeader.uid, numChunks |-> pluginHeader.numChunks - 1,
                           length |-> pluginHeader.length]
      BY <3>1, <3>2, HeaderChanges
    <3>4. QED
      BY <3>1, <3>3, HeaderChanges DEF PluginHeader
  <2>8. QED
    BY <1>4, <2>2, <2>3, <2>6, <2>7 DEF GetNextRecordInfo, SaveTypeOK, disk
<1>5. CASE NoFurtherRecord
  <2>1. PastRecord \in Nat
    BY DEF PastRecord, SaveTypeOK, ChunkHeader
  <2>2. current \in Plugins
    BY <1>5 DEF NoFurtherRecord, Reading, LoadingInv, InPart, Written, SaveTypeOK
  <2>3. QED
    BY <1>5, <2>1, <2>2 DEF NoFurtherRecord, SaveTypeOK, disk, header
<1>6. CASE ReadRecordData
  <2>1. chunkHeader' \in ChunkHeader
    <3>1. chunkHeader.length - 1 \in Nat /\ chunkHeader \in ChunkHeader
      BY <1>6, HeaderChanges, SMTT(40) DEF ReadRecordData, SaveTypeOK
    <3>2. chunkHeader' = [chunkHeader EXCEPT !.length = chunkHeader.length - 1]
      BY <1>6 DEF ReadRecordData
    <3>3. chunkHeader' = [type |-> chunkHeader.type, length |-> chunkHeader.length - 1]
      BY <3>1, <3>2, HeaderChanges
    <3>4. QED
      BY <3>1, <3>3, HeaderChanges DEF ChunkHeader
  <2>2. CASE offset < Len(cells)
    <3> DEFINE n == Len(got[current])
               datum == AsDatum(cells[offset + 1])
    <3>1. datum \in 0..MaxData
      <4>1. cells[offset + 1] \in Cell
        BY <2>2 DEF SaveTypeOK
      <4>2. QED
        BY <4>1, ReadTypes
    <3>2. got' = [got EXCEPT ![current][n].data = Append(got[current][n].data, datum)]
      BY <1>6, <2>2 DEF ReadRecordData
    <3>3. current \in Plugins
      BY <1>6 DEF ReadRecordData, Reading, LoadingInv, InPart, Written, SaveTypeOK
    <3>4. [got[current] EXCEPT ![n] = [got[current][n] EXCEPT !.data = Append(got[current][n].data, datum)]]
            \in Seq(Record)
      <4>0. got[current] \in Seq(Record) /\ n \in Nat
        BY <3>3 DEF SaveTypeOK
      <4>1. CASE n = 0
        <5>1. n \notin DOMAIN got[current]
          BY <4>0, <4>1
        <5>2. [got[current] EXCEPT ![n] = [got[current][n] EXCEPT !.data = Append(got[current][n].data, datum)]]
                = got[current]
          BY <4>0, <5>1
        <5>3. QED
          BY <4>0, <5>2
      <4>2. CASE n # 0
        <5>1. got[current][n] \in Record
          BY <4>0, <4>2
        <5>2. [got[current][n] EXCEPT !.data = Append(got[current][n].data, datum)] \in Record
          <6>1. got[current][n].data \in Seq(0..MaxData)
            BY <5>1, HeaderChanges
          <6>2. Append(got[current][n].data, datum) \in Seq(0..MaxData)
            BY <3>1, <6>1
          <6>3. [got[current][n] EXCEPT !.data = Append(got[current][n].data, datum)]
                  = [type |-> got[current][n].type, data |-> Append(got[current][n].data, datum)]
            BY <5>1, <6>2, HeaderChanges
          <6>4. QED
            BY <5>1, <6>2, <6>3, HeaderChanges DEF Record
        <5>3. QED
          BY <4>0, <4>2, <5>2
      <4>3. QED
        BY <4>1, <4>2
    <3>5. got' \in [Plugins -> Seq(Record)]
      BY <3>2, <3>3, <3>4 DEF SaveTypeOK
    <3>6. offset' \in Nat /\ UNCHANGED <<disk, mode, current, header, chunkOpen, chunkAt, expected, hadData,
                                      installed, runs, wrote, places, readAll>>
      BY <1>6, <2>2 DEF ReadRecordData, SaveTypeOK
    <3>7. QED
      BY <2>1, <3>5, <3>6 DEF SaveTypeOK, disk, header
  <2>3. CASE ~(offset < Len(cells))
    <3>1. UNCHANGED <<offset, got, disk, mode, current, header, chunkOpen, chunkAt, expected, hadData,
                      installed, runs, wrote, places, readAll>>
      BY <1>6, <2>3 DEF ReadRecordData
    <3>2. QED
      BY <2>1, <3>1 DEF SaveTypeOK, disk, header
  <2>4. QED
    BY <2>2, <2>3
<1>7. CASE LoadReturn
  BY <1>7 DEF LoadReturn, SaveTypeOK, disk, header, chunk, history
<1>8. CASE RestCall
  <2>1. NextOf(current, NoData) \in Plugins \cup {0}
    <3>1. NoData \in SUBSET Plugins
      BY DEF NoData, SaveTypeOK
    <3>2. QED
      BY <1>0, <3>1, NextIsLater
  <2>2. QED
    BY <1>8, <2>1 DEF RestCall, SaveTypeOK, disk, header, chunk, history
<1>9. CASE LoadEnd
  BY <1>9 DEF LoadEnd, SaveTypeOK, disk, header, chunk, history
<1>10. CASE DeleteSave
  BY <1>10, HeaderChanges DEF DeleteSave, SaveTypeOK, header, chunk, history
<1>11. CASE UNCHANGED saveVars
  BY <1>11 DEF saveVars, SaveTypeOK
<1> QED
  BY <1>1, <1>2, <1>3, <1>4, <1>5, <1>6, <1>7, <1>8, <1>9, <1>10, <1>11
-----------------------------------------------------------------------------
(* The places of a part that was written are numbers and grow.             *)
LEMMA PlaceFacts ==
  ASSUME PartsInOrder, NEW p \in Written
  PROVE  /\ p \in Plugins /\ p \in Nat /\ p # 0
         /\ Len(wrote[p]) \in Nat /\ Len(wrote[p]) >= 1
         /\ Len(places[p]) = Len(wrote[p]) + 1
         /\ \A n \in 0..Len(wrote[p]) :
              /\ RecordAt(p, n) \in Nat /\ RecordEnd(p, n) \in Nat
              /\ RecordAt(p, n) < RecordEnd(p, n)
              /\ PartAt(p) <= RecordAt(p, n) /\ RecordEnd(p, n) <= PartEnd(p)
         /\ \A n \in 1..Len(wrote[p]) :
              /\ wrote[p][n] \in Record /\ wrote[p][n].data \in Seq(0..MaxData)
              /\ DataLen(p, n) \in Nat
              /\ RecordEnd(p, n) = RecordAt(p, n) + 1 + DataLen(p, n)
              /\ RecordAt(p, n) = RecordEnd(p, n - 1)
              /\ PartAt(p) < RecordAt(p, n)
              /\ \A m \in 0..n - 1 : RecordEnd(p, m) <= RecordAt(p, n)
         /\ PartAt(p) \in Nat /\ PartEnd(p) \in Nat
         /\ 1 <= PartAt(p) /\ PartAt(p) < PartEnd(p)
         /\ RecordEnd(p, 0) = PartAt(p) + 1
PROOF
<1>1. RecordsInOrder(p) /\ p \in Plugins /\ wrote[p] # <<>>
  BY DEF Written, PartsInOrder
<1>2. p \in Nat /\ p # 0
  BY <1>1, HandlesAssumption
<1>3. /\ Len(wrote[p]) \in Nat /\ Len(wrote[p]) >= 1 /\ Len(places[p]) = Len(wrote[p]) + 1
      /\ places[p] \in Seq(Nat) /\ wrote[p] \in Seq(Record)
  BY <1>1 DEF RecordsInOrder
<1>4. \A n \in 0..Len(wrote[p]) : RecordAt(p, n) \in Nat
  <2> SUFFICES ASSUME NEW n \in 0..Len(wrote[p]) PROVE RecordAt(p, n) \in Nat
    OBVIOUS
  <2>1. n + 1 \in 1..Len(places[p])
    BY <1>3
  <2>2. QED
    BY <1>3, <2>1 DEF RecordAt
<1>5. \A n \in 1..Len(wrote[p]) : /\ wrote[p][n] \in Record /\ wrote[p][n].data \in Seq(0..MaxData)
                                  /\ DataLen(p, n) \in Nat
  <2> SUFFICES ASSUME NEW n \in 1..Len(wrote[p])
               PROVE  /\ wrote[p][n] \in Record /\ wrote[p][n].data \in Seq(0..MaxData)
                      /\ DataLen(p, n) \in Nat
    OBVIOUS
  <2>1. wrote[p][n] \in Record
    BY <1>3
  <2>2. wrote[p][n].data \in Seq(0..MaxData)
    BY <2>1, HeaderChanges
  <2>3. QED
    BY <2>1, <2>2 DEF DataLen
<1>6. \A n \in 0..Len(wrote[p]) : RecordEnd(p, n) \in Nat /\ RecordAt(p, n) < RecordEnd(p, n)
  <2> SUFFICES ASSUME NEW n \in 0..Len(wrote[p])
               PROVE  RecordEnd(p, n) \in Nat /\ RecordAt(p, n) < RecordEnd(p, n)
    OBVIOUS
  <2>1. CASE n = 0
    BY <1>4, <2>1 DEF RecordEnd
  <2>2. CASE n # 0
    BY <1>4, <1>5, <2>2, SMTT(40) DEF RecordEnd
  <2>3. QED
    BY <2>1, <2>2
<1>7. \A n \in 1..Len(wrote[p]) :
        /\ RecordEnd(p, n) = RecordAt(p, n) + 1 + DataLen(p, n)
        /\ RecordAt(p, n) = RecordEnd(p, n - 1)
        /\ \A m \in 0..n - 1 : RecordEnd(p, m) <= RecordAt(p, n)
  BY <1>1, <1>3 DEF RecordsInOrder, RecordEnd
<1>8. RecordEnd(p, 0) = PartAt(p) + 1 /\ PartAt(p) >= 1 /\ PartAt(p) \in Nat
  BY <1>1, <1>3, <1>4 DEF RecordEnd, PartAt, RecordsInOrder
<1>9. \A n \in 1..Len(wrote[p]) : PartAt(p) < RecordAt(p, n)
  <2> SUFFICES ASSUME NEW n \in 1..Len(wrote[p]) PROVE PartAt(p) < RecordAt(p, n)
    OBVIOUS
  <2>1. RecordEnd(p, 0) <= RecordAt(p, n)
    BY <1>7
  <2>2. QED
    BY <1>3, <1>4, <1>8, <2>1
<1>10. \A n \in 0..Len(wrote[p]) : PartAt(p) <= RecordAt(p, n)
  BY <1>3, <1>4, <1>8, <1>9 DEF PartAt
<1>11. \A n \in 0..Len(wrote[p]) : RecordEnd(p, n) <= PartEnd(p)
  <2> SUFFICES ASSUME NEW n \in 0..Len(wrote[p]) PROVE RecordEnd(p, n) <= PartEnd(p)
    OBVIOUS
  <2> DEFINE last == Len(wrote[p])
  <2>0. last \in 0..last /\ last \in 1..last /\ PartEnd(p) = RecordEnd(p, last)
    BY <1>3 DEF PartEnd
  <2>1. CASE n = last
    BY <1>6, <2>0, <2>1
  <2>2. CASE n < last
    <3>1. n \in 0..last - 1
      BY <1>3, <2>2
    <3>2. RecordEnd(p, n) <= RecordAt(p, last)
      BY <1>7, <2>0, <3>1
    <3>3. RecordEnd(p, n) \in Nat /\ RecordEnd(p, last) \in Nat /\ RecordAt(p, last) \in Nat
          /\ RecordAt(p, last) < RecordEnd(p, last)
      BY <1>4, <1>6, <2>0
    <3>4. QED
      BY <2>0, <3>2, <3>3
  <2>3. QED
    BY <1>3, <2>1, <2>2
<1>12. PartEnd(p) \in Nat /\ PartAt(p) < PartEnd(p)
  <2> DEFINE last == Len(wrote[p])
  <2>0. last \in 0..last /\ last \in 1..last /\ PartEnd(p) = RecordEnd(p, last)
    BY <1>3 DEF PartEnd
  <2>1. RecordEnd(p, last) \in Nat /\ RecordAt(p, last) \in Nat
        /\ RecordAt(p, last) < RecordEnd(p, last) /\ PartAt(p) < RecordAt(p, last)
    BY <1>4, <1>6, <1>9, <2>0
  <2>2. QED
    BY <1>8, <2>0, <2>1
<1> QED
  BY <1>1, <1>2, <1>3, <1>4, <1>5, <1>6, <1>7, <1>8, <1>9, <1>10, <1>11, <1>12

(* As long as nothing is saved, the places and what is there stay.         *)
LEMMA LayoutStays ==
  ASSUME UNCHANGED <<wrote, places>>
  PROVE  /\ Written' = Written /\ PartsInOrder' = PartsInOrder
         /\ \A p, n : /\ DataLen(p, n)' = DataLen(p, n) /\ RecordAt(p, n)' = RecordAt(p, n)
                      /\ RecordEnd(p, n)' = RecordEnd(p, n)
         /\ \A p : PartAt(p)' = PartAt(p) /\ PartEnd(p)' = PartEnd(p)
         /\ \A end : CoveredTo(end)' = CoveredTo(end)
BY DEF Written, PartsInOrder, RecordsInOrder, DataLen, RecordAt, RecordEnd, PartAt, PartEnd, CoveredTo

LEMMA CellsStay ==
  ASSUME UNCHANGED <<wrote, places, cells>>
  PROVE  /\ \A p : PartIsThere(p)' = PartIsThere(p)
         /\ \A p, n : RecordIsThere(p, n)' = RecordIsThere(p, n) /\ DataAreThere(p, n)' = DataAreThere(p, n)
         /\ FileIsWhole' = FileIsWhole
BY LayoutStays DEF PartIsThere, HeaderIsThere, RecordIsThere, DataAreThere, CellIs, FileIsWhole

(* Where a loader stands between two parts a part begins, and it is none   *)
(* that was loaded.                                                        *)
LEMMA BoundaryBegins ==
  ASSUME PartsInOrder, FileIsWhole, complete, AtBoundary, cells \in Seq(Cell), offset \in Nat,
         offset < Len(cells)
  PROVE  \E p \in Written : offset = PartAt(p) /\ \A q \in hadData : q \in Nat => q < p
PROOF
<1>1. Len(cells) \in Nat /\ offset >= 1
  BY PlaceFacts DEF AtBoundary, FileIsWhole
<1>2. PICK p \in Written : PartAt(p) <= offset /\ offset < PartEnd(p)
  BY <1>1 DEF FileIsWhole, CoveredTo
<1>3. CASE offset = 1 /\ hadData = {}
  BY <1>2, <1>3, PlaceFacts
<1>4. ASSUME NEW q \in Written, offset = PartEnd(q), \A h \in hadData : h <= q
      PROVE  offset = PartAt(p) /\ \A h \in hadData : h \in Nat => h < p
  <2>1. p # q
    BY <1>2, <1>4, PlaceFacts
  <2>2. ~(p < q)
    <3> SUFFICES ASSUME p < q PROVE FALSE
      OBVIOUS
    <3>1. PartEnd(p) <= PartAt(q)
      BY DEF PartsInOrder
    <3>2. QED
      BY <1>2, <1>4, <3>1, PlaceFacts
  <2>3. q < p
    BY <2>1, <2>2, PlaceFacts
  <2>4. PartEnd(q) <= PartAt(p)
    BY <2>3 DEF PartsInOrder
  <2>5. offset = PartAt(p)
    BY <1>2, <1>4, <2>4, PlaceFacts
  <2>6. QED
    BY <1>4, <2>3, <2>5, PlaceFacts
<1> QED
  BY <1>1, <1>2, <1>3, <1>4 DEF AtBoundary

LEMMA ReadBack ==
  /\ \A h \in ChunkHeader : AsChunk(h) = h
  /\ \A h \in PluginHeader : AsPlugin(h) = h
  /\ \A k : AsDatum([datum |-> k]) = k
PROOF
<1>1. \A h \in ChunkHeader : DOMAIN h = {"type", "length"}
  BY DEF ChunkHeader
<1>2. \A h \in PluginHeader : DOMAIN h = {"uid", "numChunks", "length"}
  BY DEF PluginHeader
<1> QED
  BY <1>1, <1>2 DEF AsChunk, AsPlugin, AsDatum

(* The headers that are written are of their types.                        *)
LEMMA WrittenHeaders ==
  ASSUME PartsInOrder, NEW p \in Written
  PROVE  /\ [uid |-> p, numChunks |-> Len(wrote[p]), length |-> PartEnd(p) - PartAt(p) - 1] \in PluginHeader
         /\ \A n \in 1..Len(wrote[p]) :
              [type |-> <<p, n>>, length |-> DataLen(p, n)] \in ChunkHeader
PROOF
<1>1. PartEnd(p) - PartAt(p) - 1 \in Nat
  BY PlaceFacts
<1>2. [uid |-> p, numChunks |-> Len(wrote[p]), length |-> PartEnd(p) - PartAt(p) - 1] \in PluginHeader
  BY <1>1, PlaceFacts DEF PluginHeader
<1>3. ASSUME NEW n \in 1..Len(wrote[p])
      PROVE  [type |-> <<p, n>>, length |-> DataLen(p, n)] \in ChunkHeader
  <2>1. n \in 1..MaxRecords
    BY <1>3, PlaceFacts, HandlesAssumption DEF PartsInOrder, RecordsInOrder
  <2>2. <<p, n>> \in Types /\ DataLen(p, n) \in Nat
    BY <2>1, PlaceFacts DEF Types
  <2>3. QED
    BY <2>2 DEF ChunkHeader
<1> QED
  BY <1>2, <1>3
-----------------------------------------------------------------------------
(* What is put into the records of a plugin.                               *)
LEMMA RecordAppended ==
  ASSUME NEW F \in [Plugins -> Seq(Record)], NEW p \in Plugins, NEW r \in Record,
         NEW G, G = [F EXCEPT ![p] = Append(F[p], r)]
  PROVE  /\ \A q \in Plugins : q # p => G[q] = F[q]
         /\ G[p] \in Seq(Record) /\ Len(G[p]) = Len(F[p]) + 1 /\ Len(F[p]) \in Nat
         /\ \A n \in 1..Len(F[p]) : G[p][n] = F[p][n]
         /\ G[p][Len(F[p]) + 1] = r
PROOF
<1>1. F[p] \in Seq(Record) /\ G[p] = Append(F[p], r)
  OBVIOUS
<1>2. \A q \in Plugins : q # p => G[q] = F[q]
  OBVIOUS
<1> QED
  BY <1>1, <1>2

WithDatum(F, p, n, d) == [F EXCEPT ![p][n].data = Append(F[p][n].data, d)]

LEMMA DatumAppended ==
  ASSUME NEW F \in [Plugins -> Seq(Record)], NEW p \in Plugins, NEW n \in 1..Len(F[p]),
         NEW d \in 0..MaxData
  PROVE  /\ \A q \in Plugins : q # p => WithDatum(F, p, n, d)[q] = F[q]
         /\ WithDatum(F, p, n, d)[p] \in Seq(Record) /\ Len(WithDatum(F, p, n, d)[p]) = Len(F[p])
         /\ \A m \in 1..Len(F[p]) : m # n => WithDatum(F, p, n, d)[p][m] = F[p][m]
         /\ WithDatum(F, p, n, d)[p][n].type = F[p][n].type
         /\ F[p][n].data \in Seq(0..MaxData) /\ Len(F[p][n].data) \in Nat
         /\ WithDatum(F, p, n, d)[p][n].data = Append(F[p][n].data, d)
PROOF
<1> DEFINE G == WithDatum(F, p, n, d)
<1> SUFFICES /\ \A q \in Plugins : q # p => G[q] = F[q]
             /\ G[p] \in Seq(Record) /\ Len(G[p]) = Len(F[p])
             /\ \A m \in 1..Len(F[p]) : m # n => G[p][m] = F[p][m]
             /\ G[p][n].type = F[p][n].type
             /\ F[p][n].data \in Seq(0..MaxData) /\ Len(F[p][n].data) \in Nat
             /\ G[p][n].data = Append(F[p][n].data, d)
  OBVIOUS
<1> DEFINE s == Append(F[p][n].data, d)
           r == [F[p][n] EXCEPT !.data = s]
<1>1. F[p] \in Seq(Record) /\ F[p][n] \in Record
  OBVIOUS
<1>2. F[p][n].data \in Seq(0..MaxData)
  BY <1>1, HeaderChanges
<1>3. s \in Seq(0..MaxData)
  BY <1>2
<1>4. r = [type |-> F[p][n].type, data |-> s]
  BY <1>1, <1>3, HeaderChanges
<1>5. r \in Record /\ r.type = F[p][n].type /\ r.data = s
  BY <1>1, <1>3, <1>4, HeaderChanges DEF Record
<1>6. G[p] = [F[p] EXCEPT ![n] = r]
  BY DEF WithDatum
<1>7. \A q \in Plugins : q # p => G[q] = F[q]
  BY DEF WithDatum
<1> HIDE DEF r
<1> HIDE DEF G
<1>8. /\ G[p] \in Seq(Record) /\ Len(G[p]) = Len(F[p]) /\ G[p][n] = r
      /\ \A m \in 1..Len(F[p]) : m # n => G[p][m] = F[p][m]
  <2>1. F[p] \in [1..Len(F[p]) -> Record] /\ Len(F[p]) \in Nat
    BY <1>1
  <2>2. G[p] \in [1..Len(F[p]) -> Record]
    BY <1>5, <1>6, <2>1
  <2>3. G[p] \in Seq(Record) /\ Len(G[p]) = Len(F[p])
    <3>1. PICK len \in Nat : len = Len(F[p])
      BY <2>1
    <3>2. \A t \in [1..len -> Record] : t \in Seq(Record) /\ Len(t) = len
      OBVIOUS
    <3>3. QED
      BY <2>2, <3>1, <3>2
  <2>4. QED
    BY <1>6, <2>1, <2>3
<1> QED
  BY <1>2, <1>5, <1>7, <1>8

-----------------------------------------------------------------------------
LEMMA CoSaveInvInit == SaveInit => CoSaveInv
PROOF
<1> SUFFICES ASSUME SaveInit PROVE CoSaveInv
  OBVIOUS
<1>1. \A p \in Plugins : wrote[p] = <<>> /\ places[p] = <<>> /\ got[p] = <<>>
  BY DEF SaveInit, Nothing
<1>2. Written = {}
  BY <1>1 DEF Written
<1>3. <<>> \in Seq(Record) /\ <<>> \in Seq(Nat) /\ Len(<<>>) = 0
  OBVIOUS
<1>4. PartsInOrder
  <2> SUFFICES ASSUME NEW p \in Plugins PROVE RecordsInOrder(p)
    BY <1>2 DEF PartsInOrder
  <2>1. \A n \in 1..Len(wrote[p]) : FALSE
    BY <1>1, <1>3
  <2>2. QED
    BY <1>1, <1>3, <2>1 DEF RecordsInOrder
<1>5. DiskInv
  BY DEF SaveInit, DiskInv, Saving
<1>6. LoadingInv /\ GotInv
  BY DEF SaveInit, LoadingInv, GotInv
<1> QED
  BY <1>4, <1>5, <1>6, SaveTypeInit DEF CoSaveInv

(* Steps that leave the file alone.                                        *)
LEMMA FileStays ==
  ASSUME CoSaveInv, UNCHANGED <<disk, wrote, places>>, ~Saving', onDisk \/ mode' = "idle"
  PROVE  PartsInOrder' /\ DiskInv'
PROOF
<1>1. UNCHANGED <<cells, onDisk, complete, wrote, places>>
  BY DEF disk
<1>2. PartsInOrder'
  BY <1>1, LayoutStays DEF CoSaveInv
<1>3. FileIsWhole' = FileIsWhole
  BY <1>1, CellsStay
<1>4. DiskInv'
  BY <1>1, <1>3 DEF CoSaveInv, DiskInv
<1> QED
  BY <1>2, <1>4

(* The file that is loaded from.                                           *)
LEMMA LoadedFile ==
  ASSUME CoSaveInv, mode # "idle"
  PROVE  onDisk /\ (complete => FileIsWhole)
BY DEF CoSaveInv, DiskInv

LEMMA RestartStep ==
  ASSUME CoSaveInv, NEW plugins \in SUBSET Plugins, Restart(plugins)
  PROVE  PartsInOrder' /\ DiskInv' /\ LoadingInv' /\ GotInv'
PROOF
<1>1. PartsInOrder' /\ DiskInv'
  BY FileStays DEF Restart, Saving
<1>2. LoadingInv' /\ GotInv'
  BY DEF Restart, LoadingInv, GotInv
<1> QED
  BY <1>1, <1>2

LEMMA LoadStartStep ==
  ASSUME CoSaveInv, LoadStart
  PROVE  PartsInOrder' /\ DiskInv' /\ LoadingInv' /\ GotInv'
PROOF
<1>1. PartsInOrder' /\ DiskInv'
  BY FileStays DEF LoadStart, Saving
<1>2. AtBoundary'
  <2>1. CASE cells = <<>>
    <3>1. ~complete
      BY <2>1 DEF LoadStart, CoSaveInv, DiskInv, FileIsWhole
    <3>2. QED
      BY <2>1, <3>1 DEF LoadStart, AtBoundary, disk
  <2>2. CASE cells # <<>>
    <3>1. complete
      BY <2>2, CellKinds DEF LoadStart, CoSaveInv, DiskInv
    <3>2. QED
      BY <2>2, <3>1 DEF LoadStart, AtBoundary, disk
  <2>3. QED
    BY <2>1, <2>2
<1>3. LoadingInv'
  BY <1>2 DEF LoadStart, LoadingInv, Nothing
<1>4. GotInv'
  BY DEF LoadStart, GotInv
<1> QED
  BY <1>1, <1>3, <1>4

LEMMA DeleteSaveStep ==
  ASSUME CoSaveInv, DeleteSave
  PROVE  PartsInOrder' /\ DiskInv' /\ LoadingInv' /\ GotInv'
PROOF
<1>1. PartsInOrder'
  BY LayoutStays DEF DeleteSave, history, CoSaveInv
<1>2. DiskInv'
  BY DEF DeleteSave, DiskInv, Saving
<1>3. LoadingInv'
  BY DEF DeleteSave, LoadingInv
<1>4. GotInv'
  BY DEF DeleteSave, GotInv, CoSaveInv, history, DataLen
<1> QED
  BY <1>1, <1>2, <1>3, <1>4

(* Steps that give no plugin anything.                                     *)
LEMMA GotStays ==
  ASSUME GotInv, UNCHANGED <<got, wrote, hadData, readAll>>
  PROVE  GotInv'
BY DEF GotInv, DataLen

LEMMA QuietLoadSteps ==
  ASSUME CoSaveInv, LoadReturn \/ RestCall \/ LoadEnd
  PROVE  PartsInOrder' /\ DiskInv' /\ LoadingInv' /\ GotInv'
PROOF
<1>0. UNCHANGED <<disk, got, wrote, places, hadData, readAll, installed>>
  BY DEF LoadReturn, RestCall, LoadEnd, history
<1>1. GotInv'
  BY <1>0, GotStays DEF CoSaveInv
<1>2. PartsInOrder' /\ DiskInv'
  <2>1. mode # "idle" /\ ~Saving'
    BY DEF LoadReturn, RestCall, LoadEnd, Saving
  <2>2. QED
    BY <1>0, <2>1, FileStays, LoadedFile
<1>3. CASE LoadReturn
  <2>1. InPart
    BY <1>3 DEF LoadReturn, CoSaveInv, LoadingInv
  <2>2. PICK p \in Written : offset' = PartEnd(p) /\ \A q \in hadData : q <= p
    BY <1>3, <2>1 DEF LoadReturn, InPart
  <2>3. Written' = Written /\ PartEnd(p)' = PartEnd(p) /\ complete' /\ hadData' = hadData
    BY <1>0, <2>1, LayoutStays DEF InPart, disk
  <2>4. AtBoundary'
    BY <2>2, <2>3 DEF AtBoundary
  <2>5. LoadingInv'
    BY <1>0, <1>3, <2>4 DEF LoadReturn, LoadingInv, CoSaveInv
  <2>6. QED
    BY <1>1, <1>2, <2>5
<1>4. CASE RestCall
  <2>1. current' \in NoData
    <3>1. NoData \in SUBSET Plugins /\ current \in Nat
      BY HandlesAssumption DEF NoData, CoSaveInv, SaveTypeOK
    <3>2. NextOf(current, NoData) # 0 /\ current' = NextOf(current, NoData)
      BY <1>4 DEF RestCall
    <3>3. QED
      BY <3>1, <3>2, NextIsLater
  <2>2. LoadingInv'
    BY <1>0, <1>4, <2>1 DEF RestCall, LoadingInv, NoData
  <2>3. QED
    BY <1>1, <1>2, <2>2
<1>5. CASE LoadEnd
  BY <1>1, <1>2, <1>5 DEF LoadEnd, LoadingInv
<1> QED
  BY <1>3, <1>4, <1>5
(* Where the position is in the part of the plugin that is loaded.         *)
InPartOf(p) ==
  LET n == Len(got[p])
  IN /\ complete /\ p \in Written \cap hadData
     /\ \A q \in hadData : q <= p
     /\ expected = PartEnd(p)
     /\ n <= Len(wrote[p]) /\ pluginHeader.numChunks = Len(wrote[p]) - n
     /\ IF chunkOpen
        THEN /\ n > 0 /\ chunkHeader.length <= DataLen(p, n)
             /\ Len(got[p][n].data) = DataLen(p, n) - chunkHeader.length
             /\ offset = RecordEnd(p, n) - chunkHeader.length
        ELSE offset = RecordEnd(p, n)

LEMMA InPartIsOf ==
  /\ \A p : current = p => (InPart <=> InPartOf(p))
  /\ \A p : current' = p => (InPart' <=> InPartOf(p)')
BY DEF InPart, InPartOf, PartEnd, RecordEnd, RecordAt, DataLen

LEMMA LoadCallStep ==
  ASSUME CoSaveInv, LoadCall
  PROVE  PartsInOrder' /\ DiskInv' /\ LoadingInv' /\ GotInv'
PROOF
<1>0. UNCHANGED <<disk, cells, complete, got, wrote, places, readAll, installed>> /\ SaveTypeOK
  BY DEF LoadCall, history, disk, CoSaveInv
<1>1. PartsInOrder' /\ DiskInv'
  <2>1. mode # "idle" /\ ~Saving'
    BY DEF LoadCall, Saving
  <2>2. QED
    BY <1>0, <2>1, FileStays, LoadedFile
<1>2. FileIsWhole /\ complete /\ AtBoundary /\ PartsInOrder
  <2>1. AtBoundary /\ mode = "load" /\ offset < Len(cells)
    BY DEF LoadCall, CoSaveInv, LoadingInv
  <2>2. complete
    BY <2>1 DEF AtBoundary
  <2>3. QED
    BY <2>1, <2>2, LoadedFile DEF CoSaveInv
<1>3. offset < Len(cells) /\ offset \in Nat /\ cells \in Seq(Cell)
  BY <1>0 DEF LoadCall, SaveTypeOK
<1>4. PICK p \in Written : offset = PartAt(p) /\ \A q \in hadData : q \in Nat => q < p
  BY <1>2, <1>3, BoundaryBegins
<1>5. p \in Plugins /\ p \in Nat /\ p # 0 /\ p \notin hadData /\ \A q \in hadData : q \in Nat /\ q < p
  <2>1. p \in Plugins /\ p \in Nat /\ p # 0
    BY <1>2, PlaceFacts
  <2>2. hadData \subseteq Nat
    BY <1>0, HandlesAssumption DEF SaveTypeOK
  <2>3. QED
    BY <1>4, <2>1, <2>2
<1>6. pluginHeader' = [uid |-> p, numChunks |-> Len(wrote[p]), length |-> PartEnd(p) - PartAt(p) - 1]
  <2>1. cells[offset + 1] = [uid |-> p, numChunks |-> Len(wrote[p]), length |-> PartEnd(p) - PartAt(p) - 1]
    BY <1>2, <1>4 DEF FileIsWhole, PartIsThere, HeaderIsThere, CellIs
  <2>2. QED
    BY <1>2, <2>1, WrittenHeaders, ReadBack DEF LoadCall
<1>7. pluginHeader'.uid = p /\ pluginHeader'.numChunks = Len(wrote[p])
      /\ offset + 1 + pluginHeader'.length = PartEnd(p)
  <2>1. pluginHeader'.length = PartEnd(p) - PartAt(p) - 1
    BY <1>6
  <2>2. QED
    BY <1>2, <1>4, <1>6, <2>1, PlaceFacts
<1>8. got[p] = <<>>
  BY <1>0, <1>5 DEF LoadCall, CoSaveInv, LoadingInv
<1>9. CASE p \in installed
  <2>1. /\ hadData' = hadData \cup {p} /\ chunkOpen' = FALSE /\ mode' = "loading" /\ current' = p
        /\ offset' = offset + 1 /\ expected' = PartEnd(p)
    BY <1>7, <1>9 DEF LoadCall
  <2>2. InPartOf(p)'
    <3>1. /\ Written' = Written /\ PartEnd(p)' = PartEnd(p) /\ RecordEnd(p, 0)' = RecordEnd(p, 0)
      BY <1>0, LayoutStays
    <3>2. offset' = RecordEnd(p, 0)
      BY <1>2, <1>4, <2>1, PlaceFacts
    <3>3. Len(got'[p]) = 0 /\ Len(wrote'[p]) = Len(wrote[p]) /\ Len(wrote[p]) \in Nat
      BY <1>0, <1>2, <1>8, PlaceFacts
    <3>4. \A q \in hadData' : q <= p
      BY <1>5, <2>1
    <3>5. ~chunkOpen'
      BY <2>1
    <3>6. QED
      BY <1>0, <1>2, <1>7, <2>1, <3>1, <3>2, <3>3, <3>4, <3>5 DEF InPartOf
  <2>3. LoadingInv'
    BY <1>0, <2>1, <2>2, InPartIsOf DEF LoadingInv, CoSaveInv, LoadCall
  <2>4. GotInv'
    <3>1. Len(got[p]) = 0 /\ Len(wrote[p]) \in Nat /\ \A n \in 1..Len(got[p]) : FALSE
      BY <1>2, <1>8, PlaceFacts
    <3>2. p \notin readAll
      BY <1>5 DEF CoSaveInv, LoadCall, LoadingInv
    <3>3. ASSUME NEW q \in hadData'
          PROVE  /\ Len(got'[q]) <= Len(wrote'[q])
                 /\ q \in readAll' => Len(got'[q]) = Len(wrote'[q])
                 /\ \A n \in 1..Len(got'[q]) :
                      /\ got'[q][n].type = <<q, n>>
                      /\ Len(got'[q][n].data) <= DataLen(q, n)'
                      /\ \A k \in 1..Len(got'[q][n].data) : got'[q][n].data[k] = k
      <4>1. CASE q \in hadData
        BY <1>0, <4>1 DEF GotInv, CoSaveInv, DataLen
      <4>2. CASE q = p
        BY <1>0, <3>1, <3>2, <4>2
      <4>3. QED
        BY <2>1, <4>1, <4>2
    <3>4. QED
      BY <3>3 DEF GotInv
  <2>5. QED
    BY <1>1, <2>3, <2>4
<1>10. CASE p \notin installed
  <2>1. offset' = PartEnd(p) /\ UNCHANGED <<hadData, chunkOpen, mode, current, expected>>
    BY <1>7, <1>10 DEF LoadCall
  <2>2. AtBoundary'
    <3>1. Written' = Written /\ PartEnd(p)' = PartEnd(p)
      BY <1>0, LayoutStays
    <3>2. \A q \in hadData' : q <= p
      BY <1>5, <2>1
    <3>3. QED
      BY <1>0, <1>2, <2>1, <3>1, <3>2 DEF AtBoundary
  <2>3. LoadingInv'
    BY <1>0, <2>1, <2>2 DEF LoadingInv, CoSaveInv, LoadCall
  <2>4. GotInv'
    BY <1>0, <2>1, GotStays DEF CoSaveInv
  <2>5. QED
    BY <1>1, <2>3, <2>4
<1> QED
  BY <1>9, <1>10
(* What a reader in a part stands before.                                  *)
LEMMA PartFacts ==
  ASSUME CoSaveInv, mode = "loading"
  PROVE  /\ InPartOf(current) /\ FileIsWhole /\ complete /\ PartsInOrder /\ SaveTypeOK
         /\ current \in Written /\ current \in hadData /\ current \in Plugins
         /\ Len(got[current]) \in 0..Len(wrote[current])
         /\ Len(got[current]) \in Nat /\ Len(wrote[current]) \in Nat
         /\ pluginHeader.numChunks = Len(wrote[current]) - Len(got[current])
         /\ PastRecord = RecordEnd(current, Len(got[current]))
PROOF
<1>1. InPart /\ FileIsWhole /\ complete /\ PartsInOrder /\ SaveTypeOK
  BY LoadedFile DEF CoSaveInv, LoadingInv, InPart
<1>2. InPartOf(current)
  BY <1>1, InPartIsOf
<1>3. /\ current \in Written /\ current \in hadData /\ current \in Plugins
      /\ pluginHeader.numChunks = Len(wrote[current]) - Len(got[current])
      /\ Len(got[current]) <= Len(wrote[current])
  BY <1>2 DEF InPartOf, Written
<1>4. got[current] \in Seq(Record)
  BY <1>1, <1>3 DEF SaveTypeOK
<1>5. /\ Len(got[current]) \in 0..Len(wrote[current])
      /\ Len(got[current]) \in Nat /\ Len(wrote[current]) \in Nat
  BY <1>1, <1>3, <1>4, PlaceFacts, SMTT(40)
<1>6. RecordEnd(current, Len(got[current])) \in Nat
  BY <1>1, <1>3, <1>5, PlaceFacts
<1>7. chunkHeader.length \in Nat
  BY <1>1, HeaderChanges DEF SaveTypeOK
<1>8. PastRecord = RecordEnd(current, Len(got[current]))
  BY <1>2, <1>6, <1>7 DEF InPartOf, PastRecord
<1> QED
  BY <1>1, <1>2, <1>3, <1>5, <1>8

(* The header of the next record is where the last one ends.               *)
LEMMA NextRecord ==
  ASSUME CoSaveInv, mode = "loading", pluginHeader.numChunks > 0,
         NEW n, n = Len(got[current]) + 1
  PROVE  /\ n \in 1..Len(wrote[current])
         /\ PastRecord = RecordAt(current, n) /\ PastRecord < Len(cells)
         /\ cells[PastRecord + 1] = [type |-> <<current, n>>, length |-> DataLen(current, n)]
         /\ cells[PastRecord + 1] \in ChunkHeader
PROOF
<1>1. n \in 1..Len(wrote[current])
  <2>1. PICK g \in Nat, w \in Nat : /\ g = Len(got[current]) /\ w = Len(wrote[current])
                                    /\ pluginHeader.numChunks = w - g
    BY PartFacts
  <2>2. pluginHeader.numChunks = w - g
    BY <2>1
  <2>3. g + 1 \in 1..w
    BY <2>2
  <2>4. QED
    BY <2>1, <2>3
<1>2. PastRecord = RecordAt(current, n)
  <2>1. RecordAt(current, n) = RecordEnd(current, n - 1)
    BY <1>1, PartFacts, PlaceFacts
  <2>2. n - 1 = Len(got[current])
    BY PartFacts
  <2>3. QED
    BY <2>1, <2>2, PartFacts
<1>3. RecordIsThere(current, n)
  BY <1>1, PartFacts DEF FileIsWhole, PartIsThere
<1> QED
  BY <1>1, <1>2, <1>3, PartFacts, WrittenHeaders DEF RecordIsThere, CellIs

(* Steps that read on in the file and leave everything else.               *)
LEMMA RestingReads ==
  ASSUME CoSaveInv, mode = "resting", UNCHANGED <<mode, current, installed, hadData, wrote>>,
         \A p \in Plugins : p # current => got'[p] = got[p],
         readAll' \subseteq readAll \cup {current}
  PROVE  LoadingInv' /\ GotInv'
PROOF
<1>1. current \notin hadData /\ current \in installed /\ hadData \subseteq Plugins
  BY DEF CoSaveInv, LoadingInv, SaveTypeOK
<1>2. LoadingInv'
  BY <1>1 DEF LoadingInv
<1>3. \A p \in hadData : got'[p] = got[p] /\ (p \in readAll' => p \in readAll)
  BY <1>1
<1>4. GotInv'
  BY <1>3, ZenonT(40) DEF GotInv, CoSaveInv, DataLen
<1> QED
  BY <1>2, <1>4

LEMMA GetNextRecordInfoStep ==
  ASSUME CoSaveInv, GetNextRecordInfo
  PROVE  PartsInOrder' /\ DiskInv' /\ LoadingInv' /\ GotInv'
PROOF
<1>0. /\ UNCHANGED <<disk, cells, complete, wrote, places, readAll, installed, mode, current,
                     hadData, expected>>
      /\ SaveTypeOK /\ mode \in {"loading", "resting"}
  BY DEF GetNextRecordInfo, disk, CoSaveInv, Reading
<1>1. PartsInOrder' /\ DiskInv'
  <2>1. mode # "idle" /\ ~Saving'
    BY <1>0 DEF Saving
  <2>2. QED
    BY <1>0, <2>1, FileStays, LoadedFile
<1>2. got' = [got EXCEPT ![current] = Append(got[current], [type |-> chunkHeader'.type, data |-> <<>>])]
  BY DEF GetNextRecordInfo
<1>3. CASE mode = "resting"
  <2>1. \A p \in Plugins : p # current => got'[p] = got[p]
    BY <1>0, <1>2 DEF SaveTypeOK
  <2>2. QED
    BY <1>0, <1>1, <1>3, <2>1, RestingReads
<1>4. CASE mode = "loading"
  <2> DEFINE n == Len(got[current]) + 1
             rec == [type |-> <<current, n>>, data |-> <<>>]
  <2>1. pluginHeader.numChunks > 0
    BY DEF GetNextRecordInfo
  <2>2. /\ n \in 1..Len(wrote[current]) /\ Len(wrote[current]) \in Nat
        /\ PastRecord = RecordAt(current, n) /\ PastRecord < Len(cells)
        /\ cells[PastRecord + 1] = [type |-> <<current, n>>, length |-> DataLen(current, n)]
        /\ cells[PastRecord + 1] \in ChunkHeader
    BY <1>4, <2>1, NextRecord, PartFacts, PlaceFacts
  <2>3. /\ chunkHeader' = [type |-> <<current, n>>, length |-> DataLen(current, n)]
        /\ offset' = RecordAt(current, n) + 1 /\ chunkOpen' = TRUE
    BY <2>2, ReadBack DEF GetNextRecordInfo, ReadChunkHeader
  <2>4. pluginHeader'.numChunks = Len(wrote[current]) - n
    <3>1. pluginHeader \in PluginHeader /\ pluginHeader' = [pluginHeader EXCEPT !.numChunks = pluginHeader.numChunks - 1]
      BY <1>0 DEF GetNextRecordInfo, SaveTypeOK
    <3>2. pluginHeader'.numChunks = pluginHeader.numChunks - 1
      BY <3>1 DEF PluginHeader
    <3>3. /\ Len(got[current]) \in Nat /\ Len(wrote[current]) \in Nat
          /\ pluginHeader.numChunks = Len(wrote[current]) - Len(got[current])
      BY <1>4, PartFacts
    <3>4. QED
      BY <3>2, <3>3
  <2>5. PICK p \in Plugins : p = current
    BY <1>4, PartFacts
  <2>6. rec \in Record
    <3>1. n \in 1..MaxRecords
      <4>1. RecordsInOrder(current)
        BY <1>4, PartFacts DEF PartsInOrder
      <4>2. n <= MaxRecords
        BY <2>2, <4>1 DEF RecordsInOrder
      <4>3. QED
        BY <2>2, <4>2, HandlesAssumption
    <3>2. QED
      BY <2>5, <3>1 DEF Record, Types
  <2>7. got' = [got EXCEPT ![p] = Append(got[p], rec)]
    BY <1>2, <2>3, <2>5
  <2>8. got \in [Plugins -> Seq(Record)]
    BY <1>0 DEF SaveTypeOK
  <2>9. /\ \A q \in Plugins : q # p => got'[q] = got[q]
        /\ Len(got'[p]) = n /\ n - 1 \in Nat
        /\ \A m \in 1..n - 1 : got'[p][m] = got[p][m]
        /\ got'[p][n] = rec
    BY <2>5, <2>6, <2>7, <2>8, RecordAppended
  <2>10. InPartOf(p)'
    <3>1. InPartOf(p) /\ p \in Written
      BY <1>4, <2>5, PartFacts
    <3>2. /\ Written' = Written /\ PartEnd(p)' = PartEnd(p) /\ \A m : RecordEnd(p, m)' = RecordEnd(p, m)
          /\ \A m : DataLen(p, m)' = DataLen(p, m)
      BY <1>0, LayoutStays
    <3>3. DataLen(p, n) \in Nat /\ RecordAt(p, n) \in Nat /\ RecordEnd(p, n) = RecordAt(p, n) + 1 + DataLen(p, n)
          /\ Len(wrote[p]) \in Nat
      <4>1. n \in 1..Len(wrote[p]) /\ n \in 0..Len(wrote[p]) /\ PartsInOrder
        BY <2>2, <2>5 DEF CoSaveInv
      <4> HIDE DEF n
      <4>2. QED
        BY <3>1, <4>1, PlaceFacts
    <3>4. chunkHeader'.length = DataLen(p, n) /\ Len(got'[p][n].data) = 0
      BY <2>3, <2>5, <2>9
    <3>5. n > 0 /\ n <= Len(wrote[p]) /\ Len(got'[p][n].data) = DataLen(p, n) - chunkHeader'.length
          /\ offset' = RecordEnd(p, n) - chunkHeader'.length
          /\ chunkHeader'.length <= DataLen(p, n)
      BY <2>2, <2>3, <2>5, <3>3, <3>4
    <3> HIDE DEF n
    <3>6. QED
      BY <1>0, <2>3, <2>4, <2>5, <2>9, <3>1, <3>2, <3>5 DEF InPartOf
  <2>11. LoadingInv'
    <3>1. \A q \in Plugins \ hadData' : got'[q] = <<>>
      BY <1>0, <1>4, <2>5, <2>9, PartFacts DEF CoSaveInv, LoadingInv
    <3>2. QED
      BY <1>0, <1>4, <2>5, <2>10, <3>1, InPartIsOf DEF CoSaveInv, LoadingInv
  <2>12. GotInv'
    <3>1. p \notin readAll
      <4>1. PICK g \in Nat, w \in Nat : /\ g = Len(got[p]) /\ w = Len(wrote[p]) /\ p \in hadData
                                        /\ pluginHeader.numChunks = w - g
        BY <1>4, <2>5, PartFacts
      <4>2. pluginHeader.numChunks = w - g
        BY <4>1
      <4>3. g # w
        BY <2>1, <4>2
      <4>4. QED
        BY <4>1, <4>3 DEF CoSaveInv, GotInv
    <3>2. ASSUME NEW m \in 1..Len(got'[p])
          PROVE  /\ got'[p][m].type = <<p, m>> /\ Len(got'[p][m].data) <= DataLen(p, m)
                 /\ \A k \in 1..Len(got'[p][m].data) : got'[p][m].data[k] = k
      <4>1. CASE m = n
        <5>1. DataLen(p, n) \in Nat
          BY <1>4, <2>2, <2>5, PlaceFacts, PartFacts
        <5>2. got'[p][n].type = <<p, n>> /\ got'[p][n].data = <<>>
          BY <2>5, <2>9
        <5>3. Len(<<>>) = 0 /\ \A k \in 1..0 : FALSE
          OBVIOUS
        <5>4. QED
          BY <4>1, <5>1, <5>2, <5>3
      <4>2. CASE m # n
        <5>1. m \in 1..Len(got[p])
          BY <2>5, <2>9, <4>2
        <5>2. p \in hadData
          BY <1>4, <2>5, PartFacts
        <5>3. got'[p][m] = got[p][m]
          BY <2>5, <2>9, <5>1
        <5>4. QED
          BY <5>1, <5>2, <5>3 DEF CoSaveInv, GotInv
      <4>3. QED
        BY <4>1, <4>2
    <3>3. Len(got'[p]) <= Len(wrote[p])
      BY <2>2, <2>5, <2>9
    <3>4. hadData \subseteq Plugins
      BY <1>0 DEF SaveTypeOK
    <3> HIDE DEF n
    <3>5. GotInv
      BY DEF CoSaveInv
    <3>6. wrote' = wrote /\ hadData' = hadData /\ readAll' = readAll
      BY <1>0
    <3>7. \A q \in hadData : q # p => got'[q] = got[q]
      BY <2>9, <3>4
    <3>8. ASSUME NEW q \in hadData
          PROVE  /\ Len(got'[q]) <= Len(wrote[q])
                 /\ q \in readAll => Len(got'[q]) = Len(wrote[q])
                 /\ \A m \in 1..Len(got'[q]) :
                      /\ got'[q][m].type = <<q, m>> /\ Len(got'[q][m].data) <= DataLen(q, m)
                      /\ \A k \in 1..Len(got'[q][m].data) : got'[q][m].data[k] = k
      <4>1. CASE q = p
        BY <3>1, <3>2, <3>3, <4>1
      <4>2. CASE q # p
        BY <3>5, <3>7, <4>2 DEF GotInv
      <4>3. QED
        BY <4>1, <4>2
    <3>9. QED
      BY <3>6, <3>8 DEF GotInv, DataLen
  <2>13. QED
    BY <1>1, <2>11, <2>12
<1> QED
  BY <1>0, <1>3, <1>4
LEMMA NoFurtherRecordStep ==
  ASSUME CoSaveInv, NoFurtherRecord
  PROVE  PartsInOrder' /\ DiskInv' /\ LoadingInv' /\ GotInv'
PROOF
<1>0. /\ UNCHANGED <<disk, cells, complete, wrote, places, got, installed, mode, current,
                     hadData, expected, pluginHeader>>
      /\ readAll' = readAll \cup {current} /\ offset' = PastRecord /\ chunkOpen' = FALSE
      /\ SaveTypeOK /\ mode \in {"loading", "resting"} /\ pluginHeader.numChunks = 0
  BY DEF NoFurtherRecord, disk, CoSaveInv, Reading, header
<1>1. PartsInOrder' /\ DiskInv'
  <2>1. mode # "idle" /\ ~Saving'
    BY <1>0 DEF Saving
  <2>2. QED
    BY <1>0, <2>1, FileStays, LoadedFile
<1>2. CASE mode = "resting"
  BY <1>0, <1>1, <1>2, RestingReads
<1>3. CASE mode = "loading"
  <2>1. PICK p \in Plugins : p = current
    BY <1>3, PartFacts
  <2>2. /\ InPartOf(p) /\ PastRecord = RecordEnd(p, Len(got[p])) /\ p \in hadData
    BY <1>3, <2>1, PartFacts
  <2>3. InPartOf(p)'
    <3>1. /\ Written' = Written /\ PartEnd(p)' = PartEnd(p) /\ \A m : RecordEnd(p, m)' = RecordEnd(p, m)
      BY <1>0, LayoutStays
    <3>2. ~chunkOpen'
      BY <1>0
    <3>3. QED
      BY <1>0, <2>2, <3>1, <3>2 DEF InPartOf
  <2>4. LoadingInv'
    BY <1>0, <1>3, <2>1, <2>2, <2>3, InPartIsOf DEF CoSaveInv, LoadingInv
  <2>5. Len(got[p]) = Len(wrote[p])
    <3>1. PICK g \in Nat, w \in Nat : /\ g = Len(got[p]) /\ w = Len(wrote[p])
                                      /\ pluginHeader.numChunks = w - g
      BY <1>3, <2>1, PartFacts
    <3>2. pluginHeader.numChunks = w - g
      BY <3>1
    <3>3. g = w
      BY <1>0, <3>2
    <3>4. QED
      BY <3>1, <3>3
  <2>6. GotInv'
    <3>1. GotInv /\ \A q \in readAll' : q \in readAll \/ q = p
      BY <1>0, <2>1 DEF CoSaveInv
    <3>2. wrote' = wrote /\ hadData' = hadData /\ got' = got
      BY <1>0
    <3>3. QED
      BY <2>5, <3>1, <3>2 DEF GotInv, DataLen
  <2>7. QED
    BY <1>1, <2>4, <2>6
<1> QED
  BY <1>0, <1>2, <1>3

(* A datum is read where it was written.                                   *)
LEMMA NextDatum ==
  ASSUME CoSaveInv, mode = "loading", chunkOpen, chunkHeader.length > 0,
         NEW n, n = Len(got[current])
  PROVE  /\ n \in 1..Len(got[current]) /\ n \in 1..Len(wrote[current])
         /\ offset < Len(cells)
         /\ Len(got[current][n].data) \in Nat
         /\ Len(got[current][n].data) < DataLen(current, n)
         /\ AsDatum(cells[offset + 1]) = Len(got[current][n].data) + 1
         /\ Len(got[current][n].data) + 1 \in 0..MaxData
PROOF
<1>1. PICK p \in Written : p = current
  BY PartFacts
<1>2. n \in 1..Len(wrote[p]) /\ n \in 1..Len(got[p])
  <2>1. /\ n \in Nat /\ n > 0 /\ n \in 0..Len(wrote[p]) /\ Len(wrote[p]) \in Nat /\ n = Len(got[p])
    BY <1>1, PartFacts DEF InPartOf
  <2>2. QED
    BY <2>1
<1>3. got[p][n] \in Record
  BY <1>1, <1>2, PartFacts DEF SaveTypeOK
<1>4. got[p][n].data \in Seq(0..MaxData)
  BY <1>3, HeaderChanges
<1>5. PICK d \in Nat : d = Len(got[p][n].data)
  BY <1>4
<1>6. PICK len \in Nat : len = chunkHeader.length
  BY PartFacts, HeaderChanges DEF SaveTypeOK
<1>7. PICK all \in Nat, at \in Nat :
        /\ all = DataLen(p, n) /\ at = RecordAt(p, n) /\ RecordEnd(p, n) = at + 1 + all
  <2>1. n \in 0..Len(wrote[p])
    BY <1>1, PartFacts
  <2>2. QED
    BY <1>2, <2>1, PartFacts, PlaceFacts
<1>8. len <= all /\ d = all - len /\ offset = at + 1 + all - len /\ len > 0
  <2>1. /\ chunkHeader.length <= DataLen(p, n)
        /\ Len(got[p][n].data) = DataLen(p, n) - chunkHeader.length
        /\ offset = RecordEnd(p, n) - chunkHeader.length
    BY <1>1, PartFacts DEF InPartOf
  <2>2. len <= all /\ len > 0
    BY <1>6, <1>7, <2>1
  <2>3. d = all - len
    BY <1>5, <1>6, <1>7, <2>1
  <2>4. offset = at + 1 + all - len
    <3>1. offset = RecordEnd(p, n) - len
      BY <1>6, <2>1
    <3>2. RecordEnd(p, n) = at + 1 + all
      BY <1>7
    <3>3. QED
      BY <3>1, <3>2
  <2>5. QED
    BY <2>2, <2>3, <2>4
<1>9. d + 1 \in 1..all /\ offset = at + (d + 1)
  BY <1>8
<1>10. DataAreThere(p, n)
  BY <1>2, PartFacts DEF FileIsWhole, PartIsThere
<1>11. CellIs(at + (d + 1), [datum |-> d + 1])
  BY <1>7, <1>9, <1>10 DEF DataAreThere
<1>12. offset < Len(cells) /\ AsDatum(cells[offset + 1]) = d + 1
  BY <1>9, <1>11, ReadBack DEF CellIs
<1>13. d + 1 \in 0..MaxData
  <2>1. RecordsInOrder(p)
    BY PartFacts DEF PartsInOrder, Written
  <2>2. d + 1 <= MaxData
    BY <1>2, <1>7, <1>9, <2>1 DEF RecordsInOrder
  <2>3. QED
    BY <2>2, HandlesAssumption
<1>14. d < all
  BY <1>8
<1> QED
  BY <1>1, <1>2, <1>5, <1>7, <1>12, <1>13, <1>14

LEMMA ReadRecordDataStep ==
  ASSUME CoSaveInv, ReadRecordData
  PROVE  PartsInOrder' /\ DiskInv' /\ LoadingInv' /\ GotInv'
PROOF
<1>0. /\ UNCHANGED <<disk, cells, complete, wrote, places, readAll, installed, mode, current,
                     hadData, expected, pluginHeader, chunkOpen>>
      /\ SaveTypeOK /\ mode \in {"loading", "resting"} /\ chunkOpen /\ chunkHeader.length > 0
  BY DEF ReadRecordData, disk, CoSaveInv, Reading, header
<1>1. PartsInOrder' /\ DiskInv'
  <2>1. mode # "idle" /\ ~Saving'
    BY <1>0 DEF Saving
  <2>2. QED
    BY <1>0, <2>1, FileStays, LoadedFile
<1>2. CASE mode = "resting"
  <2>1. \A p \in Plugins : p # current => got'[p] = got[p]
    <3>1. got \in [Plugins -> Seq(Record)]
      BY <1>0 DEF SaveTypeOK
    <3>2. \/ got' = got
          \/ got' = [got EXCEPT ![current][Len(got[current])].data
                       = Append(got[current][Len(got[current])].data, AsDatum(cells[offset + 1]))]
      BY DEF ReadRecordData
    <3>3. QED
      BY <3>1, <3>2
  <2>2. QED
    BY <1>0, <1>1, <1>2, <2>1, RestingReads
<1>3. CASE mode = "loading"
  <2>1. PICK p \in Plugins : p = current
    BY <1>3, PartFacts
  <2>2. PICK n : n = Len(got[p])
    OBVIOUS
  <2>3. /\ n \in 1..Len(got[p]) /\ n \in 1..Len(wrote[p]) /\ offset < Len(cells)
        /\ Len(got[p][n].data) \in Nat
        /\ Len(got[p][n].data) < DataLen(p, n)
        /\ AsDatum(cells[offset + 1]) = Len(got[p][n].data) + 1
        /\ Len(got[p][n].data) + 1 \in 0..MaxData
    BY <1>0, <1>3, <2>1, <2>2, NextDatum
  <2>4. PICK d \in Nat : d = Len(got[p][n].data)
    BY <2>3
  <2>5. got' = [got EXCEPT ![p][n].data = Append(got[p][n].data, d + 1)]
    BY <2>1, <2>2, <2>3, <2>4 DEF ReadRecordData
  <2>6. got \in [Plugins -> Seq(Record)]
    BY <1>0 DEF SaveTypeOK
  <2>7. /\ \A q \in Plugins : q # p => got'[q] = got[q]
        /\ got'[p] \in Seq(Record) /\ Len(got'[p]) = Len(got[p])
        /\ \A m \in 1..Len(got[p]) : m # n => got'[p][m] = got[p][m]
        /\ got'[p][n].type = got[p][n].type
        /\ Len(got'[p][n].data) = d + 1
        /\ \A k \in 1..d : got'[p][n].data[k] = got[p][n].data[k]
        /\ got'[p][n].data[d + 1] = d + 1
    <3>1. d + 1 \in 0..MaxData /\ Len(got[p][n].data) = d
      BY <2>3, <2>4
    <3>2. PICK e \in 0..MaxData : e = d + 1
      BY <3>1
    <3>3. got' = WithDatum(got, p, n, e)
      BY <2>5, <3>2 DEF WithDatum
    <3>4. /\ \A q \in Plugins : q # p => got'[q] = got[q]
          /\ got'[p] \in Seq(Record) /\ Len(got'[p]) = Len(got[p])
          /\ \A m \in 1..Len(got[p]) : m # n => got'[p][m] = got[p][m]
          /\ got'[p][n].type = got[p][n].type
          /\ Len(got'[p][n].data) = Len(got[p][n].data) + 1
          /\ \A k \in 1..Len(got[p][n].data) : got'[p][n].data[k] = got[p][n].data[k]
          /\ got'[p][n].data[Len(got[p][n].data) + 1] = e
      <4>1. p \in Plugins /\ n \in 1..Len(got[p]) /\ e \in 0..MaxData
        BY <2>3
      <4> DEFINE G == WithDatum(got, p, n, e)
      <4>2. /\ \A q \in Plugins : q # p => G[q] = got[q]
            /\ G[p] \in Seq(Record) /\ Len(G[p]) = Len(got[p])
            /\ \A m \in 1..Len(got[p]) : m # n => G[p][m] = got[p][m]
            /\ G[p][n].type = got[p][n].type
            /\ got[p][n].data \in Seq(0..MaxData)
            /\ G[p][n].data = Append(got[p][n].data, e)
        BY <2>6, <4>1, DatumAppended, ZenonT(40)
      <4>3. G = got'
        BY <3>3
      <4> HIDE DEF G
      <4> DEFINE old == got[p][n].data
      <4>4. old \in Seq(0..MaxData)
        BY <4>2
      <4> HIDE DEF old
      <4>5. /\ Len(Append(old, e)) = Len(old) + 1 /\ Append(old, e)[Len(old) + 1] = e
            /\ \A k \in 1..Len(old) : Append(old, e)[k] = old[k]
        BY <4>4
      <4>6. got'[p][n].data = Append(old, e)
        BY <4>2, <4>3 DEF old
      <4>7. /\ Len(got'[p][n].data) = Len(old) + 1 /\ got'[p][n].data[Len(old) + 1] = e
            /\ \A k \in 1..Len(old) : got'[p][n].data[k] = old[k]
        BY <4>5, <4>6
      <4>8. /\ \A q \in Plugins : q # p => got'[q] = got[q]
            /\ got'[p] \in Seq(Record) /\ Len(got'[p]) = Len(got[p])
            /\ \A m \in 1..Len(got[p]) : m # n => got'[p][m] = got[p][m]
            /\ got'[p][n].type = got[p][n].type
        BY <4>2, <4>3
      <4>9. QED
        BY <4>7, <4>8 DEF old
    <3>5. QED
      BY <3>1, <3>2, <3>4
  <2>8. InPartOf(p) /\ p \in Written /\ p \in hadData /\ PartsInOrder
    BY <1>3, <2>1, PartFacts
  <2>9. InPartOf(p)'
    <3>1. /\ Written' = Written /\ PartEnd(p)' = PartEnd(p) /\ \A m : RecordEnd(p, m)' = RecordEnd(p, m)
          /\ \A m : DataLen(p, m)' = DataLen(p, m)
      BY <1>0, LayoutStays
    <3>2. PICK len \in Nat, all \in Nat, end \in Nat :
            len = chunkHeader.length /\ all = DataLen(p, n) /\ end = RecordEnd(p, n)
      <4>1. chunkHeader.length \in Nat
        BY <1>0, HeaderChanges DEF SaveTypeOK
      <4>2. n \in 0..Len(wrote[p])
        BY <2>3
      <4>3. QED
        BY <2>3, <2>8, <4>1, <4>2, PlaceFacts
    <3>3. len <= all /\ d = all - len /\ offset = end - len /\ len > 0 /\ n > 0
      BY <1>0, <2>2, <2>3, <2>4, <2>8, <3>2 DEF InPartOf
    <3>4. chunkHeader'.length = len - 1
      <4>1. chunkHeader \in ChunkHeader /\ chunkHeader' = [chunkHeader EXCEPT !.length = chunkHeader.length - 1]
        BY <1>0 DEF SaveTypeOK, ReadRecordData
      <4>2. QED
        BY <3>2, <4>1 DEF ChunkHeader
    <3>5. offset' = offset + 1
      BY <2>3 DEF ReadRecordData
    <3>6. len - 1 <= all /\ d + 1 = all - (len - 1) /\ offset + 1 = end - (len - 1)
      BY <3>2, <3>3
    <3>7. /\ n > 0 /\ chunkHeader'.length <= DataLen(p, n)
          /\ Len(got'[p][n].data) = DataLen(p, n) - chunkHeader'.length
          /\ offset' = RecordEnd(p, n) - chunkHeader'.length
      BY <2>7, <3>2, <3>3, <3>4, <3>5, <3>6
    <3>8. n = Len(got'[p]) /\ Len(got'[p]) = Len(got[p])
      BY <2>2, <2>7
    <3>9. QED
      BY <1>0, <2>8, <3>1, <3>7, <3>8 DEF InPartOf
  <2>10. LoadingInv'
    <3>1. \A q \in Plugins \ hadData' : got'[q] = <<>>
      BY <1>0, <1>3, <2>7, <2>8 DEF CoSaveInv, LoadingInv
    <3>2. QED
      BY <1>0, <1>3, <2>1, <2>9, <3>1, InPartIsOf DEF CoSaveInv, LoadingInv
  <2>11. GotInv'
    <3>0. GotInv /\ wrote' = wrote /\ hadData' = hadData /\ readAll' = readAll /\ hadData \subseteq Plugins
      BY <1>0 DEF CoSaveInv, SaveTypeOK
    <3>1. ASSUME NEW m \in 1..Len(got'[p])
          PROVE  /\ got'[p][m].type = <<p, m>> /\ Len(got'[p][m].data) <= DataLen(p, m)
                 /\ \A k \in 1..Len(got'[p][m].data) : got'[p][m].data[k] = k
      <4>0. m \in 1..Len(got[p])
        BY <2>7
      <4>1. /\ got[p][m].type = <<p, m>> /\ Len(got[p][m].data) <= DataLen(p, m)
            /\ \A k \in 1..Len(got[p][m].data) : got[p][m].data[k] = k
        BY <2>8, <3>0, <4>0 DEF GotInv
      <4>2. CASE m = n
        <5>1. PICK all \in Nat : all = DataLen(p, n)
          BY <2>3, <2>8, PlaceFacts
        <5>2. d + 1 <= all
          BY <2>3, <2>4, <5>1
        <5>3. \A k \in 1..d + 1 : got'[p][n].data[k] = k
          <6>1. \A k \in 1..d : got'[p][n].data[k] = k
            BY <2>4, <2>7, <4>1, <4>2
          <6>2. \A k \in 1..d + 1 : k \in 1..d \/ k = d + 1
            OBVIOUS
          <6>3. QED
            BY <2>7, <6>1, <6>2
        <5>4. QED
          BY <2>7, <4>1, <4>2, <5>1, <5>2, <5>3
      <4>3. CASE m # n
        BY <2>7, <4>0, <4>1, <4>3
      <4>4. QED
        BY <4>2, <4>3
    <3>2. \A q \in hadData : q # p => got'[q] = got[q]
      BY <2>7, <3>0
    <3>3. ASSUME NEW q \in hadData
          PROVE  /\ Len(got'[q]) <= Len(wrote[q])
                 /\ q \in readAll => Len(got'[q]) = Len(wrote[q])
                 /\ \A m \in 1..Len(got'[q]) :
                      /\ got'[q][m].type = <<q, m>> /\ Len(got'[q][m].data) <= DataLen(q, m)
                      /\ \A k \in 1..Len(got'[q][m].data) : got'[q][m].data[k] = k
      <4>1. CASE q = p
        BY <2>7, <3>0, <3>1, <4>1 DEF GotInv
      <4>2. CASE q # p
        BY <3>0, <3>2, <4>2 DEF GotInv
      <4>3. QED
        BY <4>1, <4>2
    <3>4. QED
      BY <3>0, <3>3 DEF GotInv, DataLen
  <2>12. QED
    BY <1>1, <2>10, <2>11
<1> QED
  BY <1>0, <1>2, <1>3
-----------------------------------------------------------------------------
(* A save.  What a plugin wrote stays while another one writes.            *)
LEMMA OthersStay ==
  ASSUME NEW p \in Plugins, wrote'[p] = wrote[p], places'[p] = places[p]
  PROVE  /\ \A m : /\ RecordAt(p, m)' = RecordAt(p, m) /\ RecordEnd(p, m)' = RecordEnd(p, m)
                   /\ DataLen(p, m)' = DataLen(p, m)
         /\ PartAt(p)' = PartAt(p) /\ PartEnd(p)' = PartEnd(p)
         /\ RecordsInOrder(p)' <=> RecordsInOrder(p)
         /\ p \in Written' <=> p \in Written
BY DEF RecordAt, RecordEnd, DataLen, PartAt, PartEnd, RecordsInOrder, Written

LEMMA RecordStays ==
  ASSUME PartsInOrder, NEW p \in Written, NEW m \in 1..Len(wrote[p]),
         RecordAt(p, m)' = RecordAt(p, m), DataLen(p, m)' = DataLen(p, m),
         \A j \in Nat : RecordAt(p, m) <= j /\ j < RecordEnd(p, m) /\ j < Len(cells) =>
           j < Len(cells') /\ cells'[j + 1] = cells[j + 1]
  PROVE  /\ RecordIsThere(p, m) => RecordIsThere(p, m)'
         /\ DataAreThere(p, m) => DataAreThere(p, m)'
PROOF
<1>1. PICK at \in Nat, len \in Nat :
        at = RecordAt(p, m) /\ len = DataLen(p, m) /\ RecordEnd(p, m) = at + 1 + len
  <2>1. m \in 0..Len(wrote[p])
    BY PlaceFacts
  <2>2. QED
    BY <2>1, PlaceFacts
<1>2. \A j \in at..at + len : j < Len(cells) => j < Len(cells') /\ cells'[j + 1] = cells[j + 1]
  BY <1>1
<1>3. RecordIsThere(p, m) => RecordIsThere(p, m)'
  <2>1. at \in at..at + len
    BY <1>1
  <2>2. QED
    BY <1>1, <1>2, <2>1 DEF RecordIsThere, CellIs
<1>4. DataAreThere(p, m) => DataAreThere(p, m)'
  <2>1. \A k \in 1..len : at + k \in at..at + len
    BY <1>1
  <2>2. ASSUME DataAreThere(p, m), NEW k \in 1..len PROVE CellIs(at + k, [datum |-> k])'
    <3>1. CellIs(at + k, [datum |-> k])
      BY <1>1, <2>2 DEF DataAreThere
    <3>2. QED
      BY <1>2, <2>1, <3>1 DEF CellIs
  <2>3. QED
    BY <1>1, <2>2 DEF DataAreThere, CellIs
<1> QED
  BY <1>3, <1>4

LEMMA PartStays ==
  ASSUME PartsInOrder, NEW p \in Written, wrote'[p] = wrote[p], places'[p] = places[p],
         \A j \in Nat : PartAt(p) <= j /\ j < PartEnd(p) /\ j < Len(cells) =>
           j < Len(cells') /\ cells'[j + 1] = cells[j + 1],
         PartIsThere(p)
  PROVE  PartIsThere(p)'
PROOF
<1>1. /\ \A m : /\ RecordAt(p, m)' = RecordAt(p, m) /\ RecordEnd(p, m)' = RecordEnd(p, m)
                /\ DataLen(p, m)' = DataLen(p, m)
      /\ PartAt(p)' = PartAt(p) /\ PartEnd(p)' = PartEnd(p)
  BY OthersStay DEF Written
<1>2. HeaderIsThere(p)'
  <2>1. PartAt(p) \in Nat /\ PartAt(p) <= PartAt(p) /\ PartAt(p) < PartEnd(p)
    BY PlaceFacts
  <2>2. QED
    BY <1>1, <2>1 DEF PartIsThere, HeaderIsThere, CellIs
<1>3. ASSUME NEW m \in 1..Len(wrote[p]) PROVE RecordIsThere(p, m)' /\ DataAreThere(p, m)'
  <2>1. /\ PartAt(p) \in Nat /\ PartEnd(p) \in Nat /\ RecordAt(p, m) \in Nat /\ RecordEnd(p, m) \in Nat
        /\ PartAt(p) <= RecordAt(p, m) /\ RecordEnd(p, m) <= PartEnd(p)
    <3>1. m \in 0..Len(wrote[p])
      BY PlaceFacts
    <3>2. QED
      BY <3>1, PlaceFacts
  <2>2. \A j \in Nat : RecordAt(p, m) <= j /\ j < RecordEnd(p, m) /\ j < Len(cells) =>
           j < Len(cells') /\ cells'[j + 1] = cells[j + 1]
    BY <2>1
  <2>3. RecordIsThere(p, m) /\ DataAreThere(p, m)
    BY DEF PartIsThere
  <2>4. QED
    BY <1>1, <2>2, <2>3, RecordStays
<1> QED
  BY <1>2, <1>3 DEF PartIsThere

(* Nobody is given anything during a save.                                 *)
LEMMA SavingGivesNothing ==
  ASSUME SaveTypeOK', got' = Nothing, readAll' = {}
  PROVE  GotInv'
PROOF
<1>1. SUFFICES ASSUME NEW p \in hadData'
               PROVE  /\ Len(got'[p]) <= Len(wrote'[p])
                      /\ \A n \in 1..Len(got'[p]) : FALSE
  BY DEF GotInv
<1>2. p \in Plugins /\ wrote'[p] \in Seq(Record)
  BY <1>1 DEF SaveTypeOK
<1>3. got'[p] = <<>>
  BY <1>2 DEF Nothing
<1>4. Len(wrote'[p]) \in Nat /\ Len(<<>>) = 0
  BY <1>2
<1> QED
  BY <1>3, <1>4

LEMMA SaveStartStep ==
  ASSUME CoSaveInv, SaveStart
  PROVE  PartsInOrder' /\ DiskInv' /\ LoadingInv' /\ GotInv'
PROOF
<1>0. SaveTypeOK'
  BY SaveSideTypes DEF CoSaveInv
<1>1. \A p \in Plugins : wrote'[p] = <<>> /\ places'[p] = <<>>
  BY DEF SaveStart, Nothing
<1>2. Written' = {}
  BY <1>1 DEF Written
<1>3. <<>> \in Seq(Record) /\ <<>> \in Seq(Nat) /\ Len(<<>>) = 0
  OBVIOUS
<1>4. PartsInOrder'
  <2> SUFFICES ASSUME NEW p \in Plugins PROVE RecordsInOrder(p)'
    BY <1>2 DEF PartsInOrder
  <2>1. \A n \in 1..Len(wrote'[p]) : FALSE
    BY <1>1, <1>3
  <2>2. QED
    BY <1>1, <1>3, <2>1 DEF RecordsInOrder
<1>5. DiskInv'
  <2>1. /\ mode' = "save" /\ cells' = <<>> /\ onDisk' = TRUE /\ complete' = FALSE /\ offset' = 1
        /\ got' = Nothing /\ readAll' = {}
    BY DEF SaveStart
  <2>2. CoveredTo(offset)'
    BY <2>1 DEF CoveredTo
  <2>3. Len(cells') <= offset' /\ offset' >= 1
    BY <1>3, <2>1
  <2>4. SavingInv'
    BY <1>2, <2>1, <2>2, <2>3 DEF SavingInv
  <2>5. QED
    BY <2>1, <2>4 DEF DiskInv, Saving
<1>6. LoadingInv'
  BY DEF SaveStart, LoadingInv
<1>7. GotInv'
  BY <1>0, SavingGivesNothing DEF SaveStart
<1> QED
  BY <1>4, <1>5, <1>6, <1>7

LEMMA SaveCallStep ==
  ASSUME CoSaveInv, SaveCall
  PROVE  PartsInOrder' /\ DiskInv' /\ LoadingInv' /\ GotInv'
PROOF
<1>0. /\ UNCHANGED <<cells, onDisk, complete, offset, current, hadData, installed, wrote, got,
                     places, readAll>>
      /\ mode = "save" /\ mode' = "saving" /\ current # 0 /\ chunkOpen' = FALSE
      /\ pluginHeader' = [uid |-> current, numChunks |-> 0, length |-> 0]
      /\ SaveTypeOK /\ SavingInv
  BY DEF SaveCall, disk, history, CoSaveInv, DiskInv, Saving
<1>1. PartsInOrder'
  BY <1>0, LayoutStays DEF CoSaveInv
<1>2. GotInv'
  BY <1>0, GotStays DEF CoSaveInv
<1>3. LoadingInv'
  BY <1>0 DEF LoadingInv
<1>4. PICK p \in Plugins : p = current
  BY <1>0 DEF SaveTypeOK
<1>5. wrote[p] = <<>>
  <2>1. p \in Written => p = 0 \/ p < p
    BY <1>0, <1>4 DEF SavingInv
  <2>2. QED
    BY <2>1, HandlesAssumption DEF Written
<1>6. OpenPart'
  <2>1. Len(wrote'[current']) = 0 /\ ~chunkOpen'
    BY <1>0, <1>4, <1>5
  <2>2. pluginHeader'.uid = current' /\ pluginHeader'.numChunks = 0 /\ pluginHeader'.length = 0
    BY <1>0
  <2>3. QED
    BY <2>1, <2>2 DEF OpenPart
<1>7. SavingInv'
  <2>1. CoveredTo(offset)' <=> CoveredTo(offset)
    BY <1>0, LayoutStays DEF CoveredTo
  <2>2. \A q \in Written : PartIsThere(q)' = PartIsThere(q) /\ PartEnd(q)' = PartEnd(q)
    BY <1>0, CellsStay, LayoutStays
  <2>3. Written' = Written
    BY <1>0, LayoutStays
  <2>4. \A q \in Written : (current = 0 \/ q < current) /\ PartEnd(q) <= offset /\ PartIsThere(q)
    BY <1>0 DEF SavingInv
  <2>5. IF Written = {} THEN cells = <<>> /\ offset = 1 ELSE Len(cells) = offset
    BY <1>0 DEF SavingInv
  <2>6. ~complete /\ onDisk /\ offset >= 1 /\ CoveredTo(offset) /\ Len(cells) <= offset
        /\ got = Nothing /\ readAll = {}
    BY <1>0 DEF SavingInv
  <2>7. QED
    BY <1>0, <1>6, <2>1, <2>2, <2>3, <2>4, <2>5, <2>6 DEF SavingInv
<1>8. DiskInv'
  BY <1>0, <1>7 DEF CoSaveInv, DiskInv, Saving, SavingInv
<1> QED
  BY <1>1, <1>2, <1>3, <1>8
LEMMA SaveEndStep ==
  ASSUME CoSaveInv, SaveEnd
  PROVE  PartsInOrder' /\ DiskInv' /\ LoadingInv' /\ GotInv'
PROOF
<1>0. /\ UNCHANGED <<onDisk, current, hadData, installed, wrote, got, places, readAll>>
      /\ mode = "save" /\ mode' = "idle" /\ complete' = TRUE /\ cells' = Put(cells, 0, FileHeader)
      /\ SaveTypeOK /\ SavingInv /\ PartsInOrder
  BY DEF SaveEnd, history, CoSaveInv, DiskInv, Saving
<1>1. PartsInOrder'
  BY <1>0, LayoutStays
<1>2. GotInv'
  BY <1>0, GotStays DEF CoSaveInv
<1>3. LoadingInv'
  BY <1>0 DEF LoadingInv
<1>4. /\ cells' \in Seq(Cell) /\ cells'[1] = FileHeader
      /\ Len(cells') = IF 0 >= Len(cells) THEN 1 ELSE Len(cells)
      /\ \A j \in Nat : j < Len(cells) /\ j # 0 => cells'[j + 1] = cells[j + 1]
  <2>1. 0 \in Nat /\ 0 + 1 = 1 /\ FileHeader \in Cell /\ cells \in Seq(Cell)
    BY <1>0, CellKinds DEF SaveTypeOK
  <2>2. QED
    BY <1>0, <2>1, PutKeeps
<1>5. Len(cells) \in Nat /\ offset \in Nat
  BY <1>0 DEF SaveTypeOK
<1>6. Written' = Written
  BY <1>0, LayoutStays
<1>7. ASSUME NEW p \in Written PROVE PartIsThere(p)' /\ PartEnd(p)' <= Len(cells')
  <2>1. PartIsThere(p) /\ PartEnd(p) <= offset /\ Len(cells) = offset
    BY <1>0 DEF SavingInv
  <2>2. 1 <= PartAt(p) /\ PartAt(p) \in Nat /\ PartEnd(p) \in Nat /\ PartAt(p) < PartEnd(p)
    BY <1>0, PlaceFacts
  <2>3. Len(cells') = Len(cells)
    BY <1>4, <1>5, <2>1, <2>2
  <2>4. \A j \in Nat : PartAt(p) <= j /\ j < PartEnd(p) /\ j < Len(cells) =>
           j < Len(cells') /\ cells'[j + 1] = cells[j + 1]
    BY <1>4, <2>2, <2>3
  <2>5. PartIsThere(p)'
    BY <1>0, <2>1, <2>4, PartStays
  <2>6. PartEnd(p)' = PartEnd(p)
    BY <1>0, LayoutStays
  <2>7. QED
    BY <2>1, <2>3, <2>5, <2>6
<1>8. CoveredTo(Len(cells))' /\ Len(cells') >= 1
  <2>1. CASE Written = {}
    <3>1. Len(cells) = 0
      BY <1>0, <2>1 DEF SavingInv
    <3>2. Len(cells') = 1
      BY <1>4, <3>1
    <3>3. QED
      BY <3>2 DEF CoveredTo
  <2>2. CASE Written # {}
    <3>1. Len(cells) = offset /\ offset >= 1 /\ CoveredTo(offset)
      BY <1>0, <2>2 DEF SavingInv
    <3>2. Len(cells') = offset
      BY <1>4, <1>5, <3>1
    <3>3. \A p : PartAt(p)' = PartAt(p) /\ PartEnd(p)' = PartEnd(p)
      BY <1>0, LayoutStays
    <3>4. QED
      BY <1>6, <3>1, <3>2, <3>3 DEF CoveredTo
  <2>3. QED
    BY <2>1, <2>2
<1>9. FileIsWhole'
  BY <1>4, <1>6, <1>7, <1>8 DEF FileIsWhole
<1>10. DiskInv'
  BY <1>0, <1>9 DEF DiskInv, Saving, SavingInv
<1> QED
  BY <1>1, <1>2, <1>3, <1>10

(* What a plugin that is being saved has written so far.                   *)
LEMMA SavingFacts ==
  ASSUME CoSaveInv, mode = "saving"
  PROVE  /\ SaveTypeOK /\ PartsInOrder /\ SavingInv /\ OpenPart /\ current \in Plugins
         /\ wrote[current] \in Seq(Record) /\ Len(wrote[current]) \in Nat
         /\ pluginHeader.numChunks = Len(wrote[current])
         /\ current \in Written <=> Len(wrote[current]) > 0
         /\ \A q \in Written : q # current => q < current /\ PartEnd(q) <= offset /\ PartIsThere(q)
         /\ current \in Written => PartEnd(current) = offset
         /\ cells = <<>> \/ cells[1] = Hole
PROOF
<1>1. SaveTypeOK /\ PartsInOrder /\ SavingInv /\ OpenPart
  BY DEF CoSaveInv, DiskInv, Saving, SavingInv
<1>2. current \in Plugins
  BY <1>1 DEF SavingInv, SaveTypeOK
<1>3. wrote[current] \in Seq(Record)
  BY <1>1, <1>2 DEF SaveTypeOK
<1>4. Len(wrote[current]) \in Nat /\ (wrote[current] = <<>> <=> Len(wrote[current]) = 0)
  BY <1>3
<1>5. current \in Written <=> Len(wrote[current]) > 0
  BY <1>2, <1>4 DEF Written
<1>6. \A q \in Written : q # current => q < current /\ PartEnd(q) <= offset /\ PartIsThere(q)
  BY <1>1, <1>2, HandlesAssumption DEF SavingInv
<1>7. current \in Written => PartEnd(current) = offset
  BY <1>1, <1>5 DEF OpenPart
<1>8. cells = <<>> \/ cells[1] = Hole
  BY <1>1 DEF CoSaveInv, DiskInv, SavingInv
<1> QED
  BY <1>1, <1>2, <1>3, <1>4, <1>5, <1>6, <1>7, <1>8 DEF OpenPart

(* The parts of other plugins lie before what is written of this one.      *)
LEMMA OthersLieBefore ==
  ASSUME CoSaveInv, mode = "saving", NEW q \in Written, q # current,
         cells' \in Seq(Cell), NEW from \in Nat,
         from = IF current \in Written THEN PartAt(current) ELSE offset,
         Len(cells) <= Len(cells'),
         \A j \in Nat : j < Len(cells) /\ j < from => cells'[j + 1] = cells[j + 1],
         wrote'[q] = wrote[q], places'[q] = places[q]
  PROVE  PartIsThere(q)' /\ PartEnd(q)' = PartEnd(q) /\ PartAt(q)' = PartAt(q) /\ PartEnd(q) <= from
PROOF
<1>1. PartIsThere(q) /\ PartEnd(q) <= from
  BY SavingFacts DEF PartsInOrder
<1>2. PartEnd(q) \in Nat /\ Len(cells) \in Nat /\ Len(cells') \in Nat /\ PartsInOrder /\ q \in Plugins
  <2>1. SaveTypeOK /\ PartsInOrder /\ q \in Plugins
    BY SavingFacts DEF Written
  <2>2. PartEnd(q) \in Nat
    BY <2>1, PlaceFacts
  <2>3. QED
    BY <2>1, <2>2 DEF SaveTypeOK
<1>3. \A j \in Nat : PartAt(q) <= j /\ j < PartEnd(q) /\ j < Len(cells) =>
           j < Len(cells') /\ cells'[j + 1] = cells[j + 1]
  BY <1>1, <1>2
<1>4. PartIsThere(q)'
  BY <1>1, <1>2, <1>3, PartStays
<1> QED
  BY <1>1, <1>2, <1>4, OthersStay

(* The header of the last record is flushed.                               *)
LEMMA FlushFacts ==
  ASSUME CoSaveInv, mode = "saving", NEW n, n = Len(wrote[current]), n > 0
  PROVE  /\ chunkOpen /\ n \in 1..Len(wrote[current]) /\ current \in Written
         /\ chunkAt = RecordAt(current, n) /\ headerAt = PartAt(current)
         /\ FlushedHeader = [type |-> <<current, n>>, length |-> DataLen(current, n)]
         /\ FlushedHeader \in Cell
         /\ FlushedFile = Put(cells, chunkAt, FlushedHeader)
         /\ FlushedLength = offset - headerAt - 1
         /\ Len(FlushedFile) = offset /\ FlushedFile \in Seq(Cell)
         /\ FlushedFile[chunkAt + 1] = FlushedHeader
         /\ \A j \in Nat : j < Len(cells) /\ j # chunkAt => FlushedFile[j + 1] = cells[j + 1]
         /\ FlushedFile[1] = Hole
         /\ Len(cells) <= offset
PROOF
<1>1. /\ SaveTypeOK /\ PartsInOrder /\ OpenPart /\ current \in Written /\ n \in Nat
      /\ cells = <<>> \/ cells[1] = Hole
  BY SavingFacts
<1>2. chunkOpen /\ n \in 1..Len(wrote[current])
  BY <1>1 DEF OpenPart
<1>3. /\ chunkAt = RecordAt(current, n) /\ headerAt = PartAt(current) /\ offset = PartEnd(current)
      /\ chunkHeader = [type |-> <<current, n>>, length |-> 0]
      /\ pluginHeader.length = chunkAt - headerAt - 1
  BY <1>1 DEF OpenPart
<1>4. PICK at \in Nat, len \in Nat, from \in Nat :
        /\ at = chunkAt /\ len = DataLen(current, n) /\ from = headerAt
        /\ offset = at + 1 + len /\ from >= 1 /\ from < at
  <2>1. PartEnd(current) = RecordEnd(current, n)
    BY DEF PartEnd
  <2>2. RecordEnd(current, n) = RecordAt(current, n) + 1 + DataLen(current, n)
    BY <1>1, <1>2, PlaceFacts
  <2>3. n \in 0..Len(wrote[current])
    BY <1>2
  <2>4. QED
    BY <1>1, <1>2, <1>3, <2>1, <2>2, <2>3, PlaceFacts, ZenonT(40)
<1>5. offset - chunkAt - 1 = len
  BY <1>4
<1>6. FlushedHeader = [type |-> <<current, n>>, length |-> DataLen(current, n)]
  BY <1>2, <1>3, <1>4, <1>5 DEF FlushedHeader
<1>7. FlushedHeader \in ChunkHeader
  BY <1>1, <1>2, <1>6, WrittenHeaders
<1>8. FlushedFile = Put(cells, chunkAt, FlushedHeader)
  BY <1>2 DEF FlushedFile
<1>9. FlushedLength = offset - headerAt - 1
  <2>1. FlushedLength = (at - from - 1) + (offset - at)
    BY <1>2, <1>3, <1>4 DEF FlushedLength
  <2>2. QED
    BY <1>4, <2>1
<1>10. /\ FlushedFile \in Seq(Cell)
       /\ Len(FlushedFile) = IF chunkAt >= Len(cells) THEN chunkAt + 1 ELSE Len(cells)
       /\ \A i \in 1..Len(FlushedFile) :
            FlushedFile[i] = IF i = chunkAt + 1 THEN FlushedHeader
                             ELSE IF i <= Len(cells) THEN cells[i] ELSE Hole
  <2>1. cells \in Seq(Cell) /\ FlushedHeader \in Cell /\ chunkAt \in Nat
    BY <1>1, <1>7, CellKinds DEF SaveTypeOK
  <2> DEFINE flushed == Put(cells, chunkAt, FlushedHeader)
  <2>2. /\ flushed \in Seq(Cell)
        /\ Len(flushed) = IF chunkAt >= Len(cells) THEN chunkAt + 1 ELSE Len(cells)
        /\ \A i \in 1..Len(flushed) :
             flushed[i] = IF i = chunkAt + 1 THEN FlushedHeader
                       ELSE IF i <= Len(cells) THEN cells[i] ELSE Hole
    BY <2>1, PutFacts
  <2>3. flushed = FlushedFile
    BY <1>8
  <2> HIDE DEF flushed
  <2>4. QED
    BY <2>2, <2>3
<1>11. PICK have \in Nat : have = Len(cells) /\ have <= offset
  BY <1>1, SavingFacts DEF SaveTypeOK, SavingInv
<1>12. Len(FlushedFile) = offset
  <2>0. Len(FlushedFile) = IF at >= have THEN at + 1 ELSE have
    BY <1>4, <1>10, <1>11
  <2>1. CASE len = 0
    BY <1>4, <1>11, <2>0, <2>1
  <2>2. CASE len > 0
    <3>1. DataAreThere(current, n)
      BY <1>1 DEF OpenPart
    <3>2. CellIs(at + len, [datum |-> len])
      BY <1>3, <1>4, <2>2, <3>1, SMTT(40) DEF DataAreThere
    <3>3. at + len < have
      BY <1>11, <3>2 DEF CellIs
    <3>4. have = offset /\ ~(at >= have)
      BY <1>4, <1>11, <2>2, <3>3
    <3>5. QED
      BY <2>0, <3>4
  <2>3. QED
    BY <2>1, <2>2
<1>13. FlushedFile[chunkAt + 1] = FlushedHeader
  <2>1. at + 1 \in 1..offset
    BY <1>4
  <2>2. QED
    BY <1>4, <1>10, <1>12, <2>1
<1>14. \A j \in Nat : j < Len(cells) /\ j # chunkAt => FlushedFile[j + 1] = cells[j + 1]
  <2> SUFFICES ASSUME NEW j \in Nat, j < have, j # at PROVE FlushedFile[j + 1] = cells[j + 1]
    BY <1>4, <1>11
  <2>1. j + 1 \in 1..offset /\ j + 1 <= have /\ j + 1 # at + 1
    BY <1>4, <1>11
  <2>2. QED
    BY <1>4, <1>10, <1>11, <1>12, <2>1
<1>15. FlushedFile[1] = Hole
  <2>1. 1 \in 1..offset /\ 1 # at + 1
    BY <1>4
  <2>2. FlushedFile[1] = IF 1 <= Len(cells) THEN cells[1] ELSE Hole
    BY <1>4, <1>10, <1>12, <2>1
  <2>3. have = 0 => FlushedFile[1] = Hole
    BY <1>11, <2>2
  <2>4. cells = <<>> => have = 0
    BY <1>11
  <2>5. QED
    BY <1>1, <2>2, <2>3, <2>4
<1> QED
  BY <1>1, <1>2, <1>3, <1>6, <1>7, <1>8, <1>9, <1>10, <1>11, <1>12, <1>13, <1>14, <1>15, CellKinds
LEMMA DataStay ==
  ASSUME PartsInOrder, NEW p \in Written, NEW m \in 1..Len(wrote[p]),
         RecordAt(p, m)' = RecordAt(p, m), DataLen(p, m)' = DataLen(p, m),
         \A j \in Nat : RecordAt(p, m) < j /\ j < RecordEnd(p, m) /\ j < Len(cells) =>
           j < Len(cells') /\ cells'[j + 1] = cells[j + 1],
         DataAreThere(p, m)
  PROVE  DataAreThere(p, m)'
PROOF
<1>1. PICK at \in Nat, len \in Nat :
        at = RecordAt(p, m) /\ len = DataLen(p, m) /\ RecordEnd(p, m) = at + 1 + len
  <2>1. m \in 0..Len(wrote[p])
    BY PlaceFacts
  <2>2. QED
    BY <2>1, PlaceFacts
<1>2. \A j \in at + 1..at + len : j < Len(cells) => j < Len(cells') /\ cells'[j + 1] = cells[j + 1]
  <2> SUFFICES ASSUME NEW j \in at + 1..at + len, j < Len(cells)
               PROVE  j < Len(cells') /\ cells'[j + 1] = cells[j + 1]
    OBVIOUS
  <2>1. j \in Nat /\ at < j /\ j < at + 1 + len
    BY <1>1
  <2>2. RecordAt(p, m) < j /\ j < RecordEnd(p, m)
    BY <1>1, <2>1
  <2>3. QED
    BY <2>1, <2>2
<1>3. ASSUME NEW k \in 1..len PROVE CellIs(at + k, [datum |-> k])'
  <2>1. CellIs(at + k, [datum |-> k])
    BY <1>1 DEF DataAreThere
  <2>2. at + k \in at + 1..at + len
    BY <1>1
  <2>3. QED
    BY <1>2, <2>1, <2>2 DEF CellIs
<1> QED
  BY <1>1, <1>3 DEF DataAreThere, CellIs

(* With the last header all records of the plugin are there.               *)
LEMMA FlushedRecords ==
  ASSUME CoSaveInv, mode = "saving", NEW p \in Plugins, p = current,
         NEW n, n = Len(wrote[p]), n > 0,
         \A m \in 1..n : RecordAt(p, m)' = RecordAt(p, m) /\ DataLen(p, m)' = DataLen(p, m),
         Len(cells') >= offset,
         \A j \in Nat : j < offset /\ j # headerAt => cells'[j + 1] = FlushedFile[j + 1]
  PROVE  \A m \in 1..n : RecordIsThere(p, m)' /\ DataAreThere(p, m)'
PROOF
<1>1. /\ chunkOpen /\ n \in 1..Len(wrote[p]) /\ p \in Written
      /\ chunkAt = RecordAt(p, n) /\ headerAt = PartAt(p)
      /\ FlushedHeader = [type |-> <<p, n>>, length |-> DataLen(p, n)]
      /\ FlushedFile[chunkAt + 1] = FlushedHeader
      /\ \A j \in Nat : j < Len(cells) /\ j # chunkAt => FlushedFile[j + 1] = cells[j + 1]
      /\ Len(cells) <= offset
  BY FlushFacts
<1>2. PartsInOrder /\ OpenPart /\ SaveTypeOK /\ n \in Nat /\ PartEnd(p) = offset
  BY <1>1, SavingFacts
<1>3. PICK at \in Nat, from \in Nat, to \in Nat, have \in Nat :
        /\ at = chunkAt /\ from = headerAt /\ to = offset /\ have = Len(cells) /\ have <= to
  <2>1. chunkAt \in Nat /\ headerAt \in Nat /\ offset \in Nat /\ Len(cells) \in Nat
    BY <1>2 DEF SaveTypeOK
  <2>2. QED
    BY <1>1, <2>1
<1>4. \A j \in Nat : j < have /\ j # at /\ j # from => j < Len(cells') /\ cells'[j + 1] = cells[j + 1]
  <2> SUFFICES ASSUME NEW j \in Nat, j < have, j # at, j # from
               PROVE  j < Len(cells') /\ cells'[j + 1] = cells[j + 1]
    OBVIOUS
  <2>1. j < to
    BY <1>3
  <2>2. cells'[j + 1] = FlushedFile[j + 1]
    BY <1>3, <2>1
  <2>3. FlushedFile[j + 1] = cells[j + 1]
    BY <1>1, <1>3
  <2>4. cells' \in Seq(Cell) => Len(cells') \in Nat
    OBVIOUS
  <2>5. j < Len(cells')
    <3>1. Len(cells') >= to
      BY <1>3
    <3>2. QED
      BY <2>1, <3>1
  <2>6. QED
    BY <2>2, <2>3, <2>5
<1>5. ASSUME NEW m \in 1..n, m # n PROVE RecordIsThere(p, m)' /\ DataAreThere(p, m)'
  <2>1. m \in 1..n - 1 /\ m \in 0..n - 1 /\ m \in 1..Len(wrote[p]) /\ m \in 0..Len(wrote[p])
    BY <1>1, <1>2, <1>5
  <2>2. RecordIsThere(p, m) /\ DataAreThere(p, m)
    BY <1>1, <1>2, <2>1 DEF OpenPart
  <2>3. RecordEnd(p, m) <= at /\ from < RecordAt(p, m) /\ RecordAt(p, m) \in Nat /\ RecordEnd(p, m) \in Nat
    BY <1>1, <1>2, <1>3, <2>1, PlaceFacts
  <2>4. \A j \in Nat : RecordAt(p, m) <= j /\ j < RecordEnd(p, m) /\ j < Len(cells) =>
           j < Len(cells') /\ cells'[j + 1] = cells[j + 1]
    BY <1>3, <1>4, <2>3
  <2>5. QED
    BY <1>1, <1>2, <2>1, <2>2, <2>4, RecordStays
<1>6. RecordIsThere(p, n)'
  <2>1. n \in 0..Len(wrote[p]) /\ n \in 1..n
    BY <1>1
  <2>2. from < at /\ at < to
    <3>1. RecordEnd(p, n) <= PartEnd(p) /\ PartAt(p) < RecordAt(p, n) /\ RecordAt(p, n) < RecordEnd(p, n)
          /\ RecordEnd(p, n) \in Nat
      BY <1>1, <1>2, <2>1, PlaceFacts
    <3>2. QED
      BY <1>1, <1>2, <1>3, <3>1
  <2>3. cells'[at + 1] = FlushedHeader
    <3>1. at # from
      BY <2>2
    <3>2. cells'[at + 1] = FlushedFile[at + 1]
      BY <1>3, <2>2, <3>1
    <3>3. QED
      BY <1>1, <1>3, <3>2
  <2>4. at < Len(cells')
    <3>1. Len(cells') >= to
      BY <1>3
    <3>2. QED
      BY <2>2, <3>1
  <2>5. RecordAt(p, n)' = at /\ DataLen(p, n)' = DataLen(p, n)
    BY <1>1, <1>3, <2>1
  <2>6. QED
    BY <1>1, <2>3, <2>4, <2>5 DEF RecordIsThere, CellIs
<1>7. DataAreThere(p, n)'
  <2>1. n \in 0..Len(wrote[p]) /\ n \in 1..n
    BY <1>1
  <2>2. from < at
    BY <1>1, <1>2, <1>3, PlaceFacts
  <2>3. DataAreThere(p, n)
    BY <1>1, <1>2 DEF OpenPart
  <2>4. \A j \in Nat : RecordAt(p, n) < j /\ j < RecordEnd(p, n) /\ j < Len(cells) =>
           j < Len(cells') /\ cells'[j + 1] = cells[j + 1]
    <3> SUFFICES ASSUME NEW j \in Nat, RecordAt(p, n) < j, j < Len(cells)
                 PROVE  j < Len(cells') /\ cells'[j + 1] = cells[j + 1]
      OBVIOUS
    <3>1. at < j
      BY <1>1, <1>3
    <3>2. j # at /\ j # from /\ j < have
      BY <1>3, <2>2, <3>1
    <3>3. QED
      BY <1>4, <3>2
  <2>5. QED
    BY <1>1, <1>2, <2>1, <2>3, <2>4, DataStay
<1> QED
  BY <1>5, <1>6, <1>7

LEMMA SaveReturnStep ==
  ASSUME CoSaveInv, SaveReturn
  PROVE  PartsInOrder' /\ DiskInv' /\ LoadingInv' /\ GotInv'
PROOF
<1>0. /\ UNCHANGED <<onDisk, complete, offset, hadData, installed, wrote, got, places, readAll>>
      /\ mode = "saving" /\ mode' = "save" /\ current' = NextOf(current, installed)
  BY DEF SaveReturn, history
<1>1. PartsInOrder' /\ GotInv' /\ LoadingInv'
  <2>1. PartsInOrder'
    BY <1>0, LayoutStays DEF CoSaveInv
  <2>2. GotInv'
    BY <1>0, GotStays DEF CoSaveInv
  <2>3. LoadingInv'
    BY <1>0 DEF LoadingInv
  <2>4. QED
    BY <2>1, <2>2, <2>3
<1>2. PICK p \in Plugins : p = current
  BY <1>0, SavingFacts
<1>3. PICK n \in Nat : n = Len(wrote[p]) /\ n = pluginHeader.numChunks /\ (p \in Written <=> n > 0)
  BY <1>0, <1>2, SavingFacts
<1>4. SaveTypeOK /\ PartsInOrder /\ SavingInv /\ OpenPart /\ SaveTypeOK'
  BY <1>0, SavingFacts, SaveSideTypes DEF CoSaveInv
<1>5. \A q \in Written : current' = 0 \/ q < current'
  <2>1. p \in Nat /\ installed \in SUBSET Plugins /\ Written \subseteq Nat
    BY <1>4, HandlesAssumption DEF SaveTypeOK, Written
  <2>2. current' \in installed \cup {0} /\ (current' # 0 => current' > p)
    BY <1>0, <1>2, <2>1, NextIsLater
  <2>3. \A q \in Written : q < p \/ q = p
    BY <1>0, <1>2, SavingFacts
  <2>4. installed \subseteq Nat
    BY <2>1, HandlesAssumption
  <2>5. QED
    BY <2>1, <2>2, <2>3, <2>4
<1>6. /\ Written' = Written /\ (CoveredTo(offset)' <=> CoveredTo(offset))
      /\ \A q : PartAt(q)' = PartAt(q) /\ PartEnd(q)' = PartEnd(q)
      /\ \A q, m : RecordAt(q, m)' = RecordAt(q, m) /\ DataLen(q, m)' = DataLen(q, m)
  BY <1>0, LayoutStays DEF CoveredTo
<1>7. \A q \in Written : PartEnd(q) <= offset
  BY <1>4 DEF SavingInv
<1>8. SUFFICES /\ \A q \in Written : PartIsThere(q)'
               /\ cells' = <<>> \/ cells'[1] = Hole
               /\ Len(cells') <= offset
               /\ IF Written = {} THEN cells' = <<>> /\ offset = 1 ELSE Len(cells') = offset
  <2>1. SavingInv'
    <3>1. ~complete /\ onDisk /\ offset >= 1 /\ CoveredTo(offset) /\ got = Nothing /\ readAll = {}
      BY <1>4 DEF SavingInv
    <3>2. QED
      BY <1>0, <1>5, <1>6, <1>7, <1>8, <3>1 DEF SavingInv
  <2>2. DiskInv'
    BY <1>0, <1>8, <2>1 DEF DiskInv, Saving, SavingInv
  <2>3. QED
    BY <1>1, <2>2
<1>9. CASE n = 0
  <2>1. ~chunkOpen /\ cells' = cells
    <3>1. ~chunkOpen
      BY <1>2, <1>3, <1>4, <1>9 DEF OpenPart
    <3>2. ~(pluginHeader.numChunks > 0)
      BY <1>3, <1>9
    <3>3. QED
      BY <3>1, <3>2 DEF SaveReturn, FlushedFile
  <2>2. \A q \in Written : PartIsThere(q)
    BY <1>0, <1>2, <1>3, <1>9, SavingFacts
  <2>3. wrote[current] = <<>>
    BY <1>2, <1>3, <1>9, <1>4 DEF Written
  <2>4. QED
    BY <1>0, <1>4, <2>1, <2>2, <2>3, CellsStay, SavingFacts DEF SavingInv
<1>10. CASE n > 0
  <2>1. /\ p \in Written /\ chunkAt = RecordAt(p, n) /\ headerAt = PartAt(p)
        /\ FlushedLength = offset - headerAt - 1
        /\ Len(FlushedFile) = offset /\ FlushedFile \in Seq(Cell)
        /\ \A j \in Nat : j < Len(cells) /\ j # chunkAt => FlushedFile[j + 1] = cells[j + 1]
        /\ FlushedFile[1] = Hole /\ Len(cells) <= offset
        /\ n \in 1..Len(wrote[p])
    BY <1>0, <1>2, <1>3, <1>10, FlushFacts
  <2>2. PICK at \in Nat, from \in Nat, to \in Nat :
          at = chunkAt /\ from = headerAt /\ to = offset /\ 1 <= from /\ from < at /\ from < to /\ PartEnd(p) = to
    <3>1. chunkAt \in Nat /\ headerAt \in Nat /\ offset \in Nat
      BY <1>4 DEF SaveTypeOK
    <3>2. 1 <= PartAt(p) /\ PartAt(p) < RecordAt(p, n) /\ PartAt(p) < PartEnd(p) /\ PartEnd(p) = offset
      BY <1>0, <1>2, <1>4, <2>1, PlaceFacts, SavingFacts
    <3>3. QED
      BY <2>1, <3>1, <3>2
  <2>3. pluginHeader' \in Cell /\ pluginHeader' \in PluginHeader
    BY <1>4, CellKinds DEF SaveTypeOK
  <2>4. pluginHeader' = [uid |-> p, numChunks |-> n, length |-> PartEnd(p) - PartAt(p) - 1]
    <3>1. FlushedLength = to - from - 1 /\ FlushedLength \in Nat
      BY <2>1, <2>2
    <3>2. pluginHeader' = [pluginHeader EXCEPT !.length = FlushedLength]
      BY DEF SaveReturn
    <3>3. pluginHeader' = [uid |-> pluginHeader.uid, numChunks |-> pluginHeader.numChunks, length |-> FlushedLength]
      BY <1>4, <3>1, <3>2, HeaderChanges DEF SaveTypeOK
    <3>4. pluginHeader.uid = p
      BY <1>2, <1>4 DEF OpenPart
    <3>5. QED
      BY <1>3, <2>1, <2>2, <3>1, <3>3, <3>4
  <2>5. cells' = Put(FlushedFile, headerAt, pluginHeader')
    BY <1>3, <1>10 DEF SaveReturn
  <2>6. /\ cells' \in Seq(Cell) /\ Len(cells') = to /\ cells'[from + 1] = pluginHeader'
        /\ \A j \in Nat : j < to /\ j # from => cells'[j + 1] = FlushedFile[j + 1]
        /\ cells'[1] = Hole
    <3>9. PICK h \in Cell : h = pluginHeader'
      BY <2>3
    <3>8. PICK flushed \in Seq(Cell) : flushed = FlushedFile
      BY <2>1
    <3> DEFINE f == Put(flushed, from, h)
    <3>0. flushed \in Seq(Cell) /\ Len(flushed) = to /\ flushed[1] = Hole
      BY <2>1, <2>2, <3>8
    <3>1. /\ f \in Seq(Cell) /\ Len(f) = IF from >= Len(flushed) THEN from + 1 ELSE Len(flushed)
          /\ \A i \in 1..Len(f) :
               f[i] = IF i = from + 1 THEN h ELSE IF i <= Len(flushed) THEN flushed[i] ELSE Hole
      BY PutFacts
    <3>2. f = cells'
      BY <2>2, <2>5, <3>8, <3>9
    <3> HIDE DEF f
    <3>3. Len(f) = to
      BY <2>2, <3>0, <3>1
    <3>4. f[from + 1] = h
      <4>1. from + 1 \in 1..to
        BY <2>2
      <4>2. QED
        BY <3>1, <3>3, <4>1
    <3>5. ASSUME NEW j \in Nat, j < to, j # from PROVE f[j + 1] = flushed[j + 1]
      <4>1. j + 1 \in 1..to /\ j + 1 # from + 1 /\ j + 1 <= to
        BY <3>5
      <4>2. QED
        BY <3>0, <3>1, <3>3, <4>1
    <3>6. f[1] = flushed[1]
      <4>1. 0 < to /\ 0 # from /\ 0 \in Nat /\ 0 + 1 = 1
        BY <2>2
      <4>2. f[0 + 1] = flushed[0 + 1]
        BY <3>5, <4>1
      <4>3. QED
        BY <4>1, <4>2
    <3>7. QED
      BY <3>9, <3>0, <3>1, <3>2, <3>3, <3>4, <3>5, <3>6, <3>8
  <2>7. \A m \in 1..n : RecordIsThere(p, m)' /\ DataAreThere(p, m)'
    <3>1. Len(cells') >= offset
      BY <2>2, <2>6
    <3>2. \A j \in Nat : j < offset /\ j # headerAt => cells'[j + 1] = FlushedFile[j + 1]
      BY <2>2, <2>6
    <3>3. \A m \in 1..n : RecordAt(p, m)' = RecordAt(p, m) /\ DataLen(p, m)' = DataLen(p, m)
      BY <1>6
    <3>4. QED
      BY <1>0, <1>2, <1>3, <1>10, <3>1, <3>2, <3>3, FlushedRecords
  <2>8. PartIsThere(p)'
    <3>1. HeaderIsThere(p)'
      <4>2. Len(wrote'[p]) = n /\ PartAt(p)' = from /\ PartEnd(p)' = PartEnd(p) /\ PartAt(p) = from
        BY <1>0, <1>3, <1>6, <2>1, <2>2
      <4>3. QED
        BY <2>2, <2>4, <2>6, <4>2 DEF HeaderIsThere, CellIs
    <3>2. Len(wrote'[p]) = n
      BY <1>0, <1>3
    <3>3. QED
      BY <2>7, <3>1, <3>2 DEF PartIsThere
  <2>9. ASSUME NEW q \in Written, q # p PROVE PartIsThere(q)'
    <3>1. \A j \in Nat : j < Len(cells) /\ j < from => cells'[j + 1] = cells[j + 1]
      <4> SUFFICES ASSUME NEW j \in Nat, j < Len(cells), j < from PROVE cells'[j + 1] = cells[j + 1]
        OBVIOUS
      <4>1. j < to /\ j # from /\ j # chunkAt
        BY <2>2
      <4>2. QED
        BY <2>1, <2>6, <4>1
    <3>2. from = IF current \in Written THEN PartAt(current) ELSE offset
      BY <1>2, <2>1, <2>2
    <3>3. Len(cells) <= Len(cells')
      BY <2>1, <2>2, <2>6
    <3>4. wrote'[q] = wrote[q] /\ places'[q] = places[q]
      BY <1>0
    <3>5. QED
      BY <1>0, <1>2, <2>6, <2>9, <3>1, <3>2, <3>3, <3>4, OthersLieBefore
  <2>10. QED
    BY <2>1, <2>2, <2>6, <2>8, <2>9
<1> QED
  BY <1>3, <1>9, <1>10
(* The part that a plugin is writing.                                      *)
OpenPartOf(p) ==
  LET n == Len(wrote[p])
  IN /\ pluginHeader.uid = p /\ pluginHeader.numChunks = n
     /\ chunkOpen <=> n > 0
     /\ n = 0 => pluginHeader.length = 0
     /\ n > 0 => /\ headerAt = PartAt(p) /\ chunkAt = RecordAt(p, n)
                 /\ offset = PartEnd(p)
                 /\ chunkHeader = [type |-> <<p, n>>, length |-> 0]
                 /\ pluginHeader.length = chunkAt - headerAt - 1
                 /\ \A m \in 1..n - 1 : RecordIsThere(p, m) /\ DataAreThere(p, m)
                 /\ DataAreThere(p, n)

LEMMA OpenPartIsOf ==
  /\ \A p : current = p => (OpenPart <=> OpenPartOf(p))
  /\ \A p : current' = p => (OpenPart' <=> OpenPartOf(p)')
PROOF
<1>1. \A p : current = p => (OpenPart <=> OpenPartOf(p))
  BY DEF OpenPart, OpenPartOf
<1>2. ASSUME NEW p, current' = p PROVE OpenPart' <=> OpenPartOf(p)'
  BY <1>2 DEF OpenPart, OpenPartOf, PartAt, PartEnd, RecordAt, RecordEnd, DataLen,
              RecordIsThere, DataAreThere, CellIs
<1> QED
  BY <1>1, <1>2

LEMMA WriteRecordDataStep ==
  ASSUME CoSaveInv, WriteRecordData
  PROVE  PartsInOrder' /\ DiskInv' /\ LoadingInv' /\ GotInv'
PROOF
<1>0. /\ UNCHANGED <<onDisk, complete, mode, current, pluginHeader, headerAt, chunkOpen, chunkHeader,
                     chunkAt, expected, hadData, installed, got, places, readAll>>
      /\ mode = "saving" /\ chunkOpen /\ offset' = offset + 1
  BY DEF WriteRecordData, header, chunk
<1>1. PICK p \in Plugins : p = current
  BY <1>0, SavingFacts
<1>2. /\ SaveTypeOK /\ PartsInOrder /\ SavingInv /\ OpenPart /\ SaveTypeOK'
      /\ cells = <<>> \/ cells[1] = Hole
  BY <1>0, SavingFacts, SaveSideTypes DEF CoSaveInv
<1>3. PICK n \in Nat : n = Len(wrote[p]) /\ n > 0 /\ p \in Written
  BY <1>0, <1>1, <1>2, SavingFacts DEF OpenPart
<1>4. n \in 1..Len(wrote[p]) /\ n \in 0..Len(wrote[p])
  BY <1>3
<1>5. PICK d \in Nat, at \in Nat, from \in Nat, to \in Nat, have \in Nat :
        /\ d = DataLen(p, n) /\ at = RecordAt(p, n) /\ from = PartAt(p) /\ to = offset
        /\ have = Len(cells) /\ have <= to /\ to = at + 1 + d /\ 1 <= from /\ from < at
        /\ chunkAt = at /\ headerAt = from /\ PartEnd(p) = to /\ RecordEnd(p, n) = to
  <2>1. /\ DataLen(p, n) \in Nat /\ RecordAt(p, n) \in Nat /\ PartAt(p) \in Nat
        /\ RecordEnd(p, n) = RecordAt(p, n) + 1 + DataLen(p, n)
        /\ 1 <= PartAt(p) /\ PartAt(p) < RecordAt(p, n)
    BY <1>2, <1>3, <1>4, PlaceFacts
  <2>2. Len(cells) \in Nat /\ offset \in Nat /\ Len(cells) <= offset
    BY <1>2 DEF SaveTypeOK, SavingInv
  <2>3. PartEnd(p) = RecordEnd(p, n) /\ PartEnd(p) = offset
    BY <1>0, <1>1, <1>3, SavingFacts DEF PartEnd
  <2>4. chunkAt = RecordAt(p, n) /\ headerAt = PartAt(p)
    BY <1>1, <1>2, <1>3 DEF OpenPart
  <2>5. QED
    BY <2>1, <2>2, <2>3, <2>4
<1>6. d < MaxData /\ d + 1 \in 0..MaxData /\ d + 1 \in 1..MaxData
  <2>1. DataLen(p, n) < MaxData
    BY <1>1, <1>3 DEF WriteRecordData, DataLen
  <2>2. d < MaxData
    BY <1>5, <2>1
  <2>3. QED
    BY <2>2, HandlesAssumption
<1>7. wrote' = WithDatum(wrote, p, n, d + 1) /\ cells' = Put(cells, offset, [datum |-> d + 1])
  BY <1>1, <1>3, <1>5 DEF WriteRecordData, WithDatum, DataLen
<1>8. /\ \A q \in Plugins : q # p => wrote'[q] = wrote[q]
      /\ wrote'[p] \in Seq(Record) /\ Len(wrote'[p]) = n
      /\ \A m \in 1..n : m # n => wrote'[p][m] = wrote[p][m]
      /\ wrote'[p][n].type = wrote[p][n].type
      /\ Len(wrote'[p][n].data) = d + 1
      /\ \A k \in 1..d : wrote'[p][n].data[k] = wrote[p][n].data[k]
      /\ wrote'[p][n].data[d + 1] = d + 1
  <2>1. PICK e \in 0..MaxData : e = d + 1
    BY <1>6
  <2> DEFINE G == WithDatum(wrote, p, n, e)
             old == wrote[p][n].data
  <2>2. wrote \in [Plugins -> Seq(Record)]
    BY <1>2 DEF SaveTypeOK
  <2>3. /\ \A q \in Plugins : q # p => G[q] = wrote[q]
        /\ G[p] \in Seq(Record) /\ Len(G[p]) = Len(wrote[p])
        /\ \A m \in 1..Len(wrote[p]) : m # n => G[p][m] = wrote[p][m]
        /\ G[p][n].type = wrote[p][n].type
        /\ old \in Seq(0..MaxData)
        /\ G[p][n].data = Append(old, e)
    BY <1>4, <2>2, DatumAppended, ZenonT(40)
  <2>4. G = wrote'
    BY <1>7, <2>1
  <2> HIDE DEF G
  <2>5. Len(old) = d
    BY <1>5 DEF DataLen
  <2> HIDE DEF old
  <2>6. /\ Len(Append(old, e)) = d + 1 /\ Append(old, e)[d + 1] = e
        /\ \A k \in 1..d : Append(old, e)[k] = old[k]
    BY <2>3, <2>5, SMTT(40)
  <2>7. wrote'[p][n].data = Append(old, e)
    BY <2>3, <2>4
  <2>8. /\ Len(wrote'[p][n].data) = d + 1
        /\ \A k \in 1..d : wrote'[p][n].data[k] = old[k]
        /\ wrote'[p][n].data[d + 1] = d + 1
    BY <2>1, <2>6, <2>7
  <2>9. /\ \A q \in Plugins : q # p => wrote'[q] = wrote[q]
        /\ wrote'[p] \in Seq(Record) /\ Len(wrote'[p]) = n
        /\ \A m \in 1..n : m # n => wrote'[p][m] = wrote[p][m]
        /\ wrote'[p][n].type = wrote[p][n].type
    BY <1>3, <2>3, <2>4
  <2>10. QED
    BY <2>8, <2>9 DEF old
<1>9. /\ \A q, m : RecordAt(q, m)' = RecordAt(q, m)
      /\ \A q : PartAt(q)' = PartAt(q)
  BY <1>0 DEF RecordAt, PartAt
<1>10. /\ \A m \in 1..n - 1 : DataLen(p, m)' = DataLen(p, m) /\ wrote'[p][m] = wrote[p][m]
       /\ DataLen(p, n)' = d + 1
       /\ \A m \in 0..n - 1 : RecordEnd(p, m)' = RecordEnd(p, m)
       /\ RecordEnd(p, n)' = to + 1 /\ PartEnd(p)' = to + 1
  <2>1. \A m \in 1..n - 1 : m \in 1..n /\ m # n
    BY <1>3
  <2>2. \A m \in 1..n - 1 : wrote'[p][m] = wrote[p][m]
    BY <1>8, <2>1
  <2>3. \A m \in 1..n - 1 : DataLen(p, m)' = DataLen(p, m)
    BY <2>2 DEF DataLen
  <2>4. DataLen(p, n)' = d + 1
    BY <1>8 DEF DataLen
  <2>5. ASSUME NEW m \in 0..n - 1 PROVE RecordEnd(p, m)' = RecordEnd(p, m)
    <3>1. m = 0 \/ m \in 1..n - 1
      OBVIOUS
    <3>2. QED
      BY <1>9, <2>3, <3>1 DEF RecordEnd
  <2>6. RecordEnd(p, n)' = to + 1
    <3>1. RecordEnd(p, n)' = at + 1 + (d + 1)
      <4>1. RecordEnd(p, n)' = RecordAt(p, n)' + 1 + DataLen(p, n)'
        BY <1>3 DEF RecordEnd
      <4>2. RecordAt(p, n)' = at
        BY <1>5, <1>9
      <4>3. QED
        BY <2>4, <4>1, <4>2
    <3>2. QED
      BY <1>5, <3>1, SMTT(40)
  <2>7. PartEnd(p)' = RecordEnd(p, n)'
    BY <1>8 DEF PartEnd
  <2>8. QED
    BY <2>2, <2>3, <2>4, <2>5, <2>6, <2>7
<1>11. \A q \in Plugins : q # p => /\ PartEnd(q)' = PartEnd(q) /\ (RecordsInOrder(q)' <=> RecordsInOrder(q))
                                   /\ (q \in Written' <=> q \in Written)
  BY <1>0, <1>8, OthersStay
<1>12. Written' = Written
  <2>1. p \in Written'
    <3>1. Len(<<>>) = 0
      OBVIOUS
    <3>2. QED
      BY <1>3, <1>8, <3>1 DEF Written
  <2>2. QED
    BY <1>3, <1>11, <2>1 DEF Written
<1>13. RecordsInOrder(p)'
  <2>1. RecordsInOrder(p)
    BY <1>2 DEF PartsInOrder
  <2>2. wrote'[p] \in Seq(Record) /\ places'[p] \in Seq(Nat) /\ wrote'[p] # <<>> /\ Len(wrote'[p]) = n
        /\ Len(places'[p]) = n + 1 /\ PartAt(p)' >= 1
    <3>1. Len(<<>>) = 0
      OBVIOUS
    <3>2. wrote'[p] # <<>>
      BY <1>3, <1>8, <3>1
    <3>3. Len(places[p]) = n + 1 /\ places[p] \in Seq(Nat)
      BY <1>2, <1>3, PlaceFacts DEF SaveTypeOK
    <3>4. PartAt(p)' = from
      BY <1>5, <1>9
    <3>5. QED
      BY <1>0, <1>5, <1>8, <3>2, <3>3, <3>4
  <2>3. ASSUME NEW r \in 1..n
        PROVE  /\ RecordAt(p, r)' = RecordEnd(p, r - 1)'
               /\ \A m \in 0..r - 1 : RecordEnd(p, m)' <= RecordAt(p, r)'
               /\ wrote'[p][r].type = <<p, r>> /\ r <= MaxRecords
               /\ \A k \in 1..DataLen(p, r)' : wrote'[p][r].data[k] = k /\ k <= MaxData
    <3>1. /\ RecordAt(p, r) = RecordEnd(p, r - 1)
          /\ \A m \in 0..r - 1 : RecordEnd(p, m) <= RecordAt(p, r)
          /\ wrote[p][r].type = <<p, r>> /\ r <= MaxRecords
          /\ \A k \in 1..DataLen(p, r) : wrote[p][r].data[k] = k /\ k <= MaxData
      BY <1>3, <2>1 DEF RecordsInOrder
    <3>2. \A m \in 0..r - 1 : m \in 0..n - 1
      BY <1>3
    <3>3. r - 1 \in 0..r - 1
      OBVIOUS
    <3>4. /\ RecordAt(p, r)' = RecordEnd(p, r - 1)'
          /\ \A m \in 0..r - 1 : RecordEnd(p, m)' <= RecordAt(p, r)'
      BY <1>9, <1>10, <3>1, <3>2, <3>3
    <3>5. CASE r = n
      <4>1. \A k \in 1..d + 1 : k \in 1..d \/ k = d + 1
        OBVIOUS
      <4>2. \A k \in 1..d + 1 : wrote'[p][n].data[k] = k /\ k <= MaxData
        <5>1. \A k \in 1..d : wrote[p][n].data[k] = k /\ k <= MaxData
          BY <1>5, <3>1, <3>5
        <5>2. \A k \in 1..d : wrote'[p][n].data[k] = k /\ k <= MaxData
          BY <1>8, <5>1
        <5>3. wrote'[p][n].data[d + 1] = d + 1 /\ d + 1 <= MaxData
          BY <1>6, <1>8
        <5>4. QED
          BY <4>1, <5>2, <5>3
      <4>3. QED
        BY <1>8, <1>10, <3>1, <3>4, <3>5, <4>2
    <3>6. CASE r # n
      <4>1. r \in 1..n - 1
        BY <1>3, <3>6
      <4>2. QED
        BY <1>10, <3>1, <3>4, <4>1
    <3>7. QED
      BY <3>5, <3>6
  <2>4. QED
    BY <2>2, <2>3 DEF RecordsInOrder
<1>14. PartsInOrder'
  <2>1. \A q \in Plugins : RecordsInOrder(q)'
    BY <1>2, <1>11, <1>13 DEF PartsInOrder
  <2>2. ASSUME NEW q \in Written, NEW r \in Written, q < r PROVE PartEnd(q)' <= PartAt(r)'
    <3>1. q # p
      <4>1. r = p \/ r < p
        BY <1>0, <1>1, SavingFacts
      <4>2. p \in Nat /\ r \in Nat /\ q \in Nat
        BY HandlesAssumption DEF Written
      <4>3. QED
        BY <2>2, <4>1, <4>2
    <3>2. PartEnd(q) <= PartAt(r) /\ q \in Plugins
      BY <1>2, <2>2 DEF PartsInOrder, Written
    <3>3. QED
      BY <1>9, <1>11, <3>1, <3>2
  <2>3. QED
    BY <1>12, <2>1, <2>2 DEF PartsInOrder
<1>15. /\ cells' \in Seq(Cell) /\ Len(cells') = to + 1 /\ cells'[to + 1] = [datum |-> d + 1]
       /\ \A j \in Nat : j < have => cells'[j + 1] = cells[j + 1]
       /\ cells'[1] = Hole
  <2>1. [datum |-> d + 1] \in Cell /\ cells \in Seq(Cell) /\ offset \in Nat
    BY <1>2, <1>6, CellKinds DEF SaveTypeOK
  <2>2. /\ cells' \in Seq(Cell)
        /\ Len(cells') = IF offset >= Len(cells) THEN offset + 1 ELSE Len(cells)
        /\ cells'[offset + 1] = [datum |-> d + 1]
        /\ \A j \in Nat : j < Len(cells) /\ j # offset => cells'[j + 1] = cells[j + 1]
        /\ offset # 0 /\ (cells = <<>> \/ cells[1] = Hole) => cells'[1] = Hole
    BY <1>7, <2>1, PutKeeps
  <2>3. \A j \in Nat : j < have => j < Len(cells) /\ j # offset
    BY <1>5
  <2>4. offset # 0 /\ offset >= Len(cells)
    BY <1>5
  <2>5. QED
    BY <1>2, <1>5, <2>2, <2>3, <2>4
<1>16. ASSUME NEW q \in Written, q # p PROVE PartIsThere(q)' /\ PartEnd(q)' <= to + 1 /\ q < p
  <2>1. wrote'[q] = wrote[q] /\ places'[q] = places[q]
    BY <1>0, <1>8, <1>16 DEF Written
  <2>2. from = IF current \in Written THEN PartAt(current) ELSE offset
    BY <1>1, <1>3, <1>5
  <2>3. Len(cells) <= Len(cells')
    BY <1>5, <1>15
  <2>4. \A j \in Nat : j < Len(cells) /\ j < from => cells'[j + 1] = cells[j + 1]
    BY <1>5, <1>15
  <2>5. PartIsThere(q)' /\ PartEnd(q)' = PartEnd(q) /\ PartEnd(q) <= from
    BY <1>0, <1>1, <1>15, <1>16, <2>1, <2>2, <2>3, <2>4, OthersLieBefore
  <2>6. PartEnd(q) \in Nat /\ from <= to
    BY <1>2, <1>5, PlaceFacts
  <2>7. PartEnd(q)' <= to + 1
    BY <2>5, <2>6
  <2>8. q < p
    BY <1>0, <1>1, <1>16, SavingFacts
  <2>9. QED
    BY <2>5, <2>7, <2>8
<1>17. CoveredTo(to + 1)'
  <2>1. CoveredTo(to)
    BY <1>2, <1>5 DEF SavingInv
  <2>2. ASSUME NEW i \in 1..to PROVE \E q \in Written : PartAt(q)' <= i /\ i < PartEnd(q)'
    <3>1. CASE i = to
      <4>1. PartAt(p)' = from /\ PartEnd(p)' = to + 1
        BY <1>5, <1>9, <1>10
      <4>2. from <= to /\ to < to + 1
        BY <1>5, SMTT(40)
      <4>3. QED
        BY <1>3, <3>1, <4>1, <4>2
    <3>2. CASE i # to
      <4>1. i \in 1..to - 1
        BY <3>2
      <4>2. PICK q \in Written : PartAt(q) <= i /\ i < PartEnd(q)
        BY <2>1, <4>1 DEF CoveredTo
      <4>3. CASE q = p
        BY <1>5, <1>9, <1>10, <4>1, <4>2, <4>3
      <4>4. CASE q # p
        BY <1>9, <1>11, <4>2, <4>4 DEF Written
      <4>5. QED
        BY <4>3, <4>4
    <3>3. QED
      BY <3>1, <3>2
  <2>3. (to + 1) - 1 = to
    OBVIOUS
  <2>4. QED
    BY <1>12, <2>2, <2>3 DEF CoveredTo
<1>18. OpenPart'
  <2>1. /\ pluginHeader.uid = p /\ pluginHeader.numChunks = n
        /\ chunkHeader = [type |-> <<p, n>>, length |-> 0]
        /\ pluginHeader.length = chunkAt - headerAt - 1
        /\ \A m \in 1..n - 1 : RecordIsThere(p, m) /\ DataAreThere(p, m)
        /\ DataAreThere(p, n)
    BY <1>1, <1>2, <1>3 DEF OpenPart
  <2>2. \A j \in Nat : j < Len(cells) => j < Len(cells') /\ cells'[j + 1] = cells[j + 1]
    BY <1>5, <1>15
  <2>3. ASSUME NEW m \in 1..n - 1 PROVE RecordIsThere(p, m)' /\ DataAreThere(p, m)'
    <3>1. m \in 1..Len(wrote[p])
      BY <1>3
    <3>2. RecordAt(p, m)' = RecordAt(p, m) /\ DataLen(p, m)' = DataLen(p, m)
      BY <1>9, <1>10
    <3>3. RecordIsThere(p, m) /\ DataAreThere(p, m)
      BY <2>1
    <3>4. QED
      BY <1>2, <1>3, <2>2, <3>1, <3>2, <3>3, RecordStays
  <2>4. DataAreThere(p, n)'
    <3>1. ASSUME NEW k \in 1..d + 1 PROVE CellIs(at + k, [datum |-> k])'
      <4>1. CASE k = d + 1
        <5>1. at + k = to /\ to < Len(cells')
          <6>1. at + k = to
            BY <1>5, <4>1
          <6>2. to < Len(cells')
            BY <1>15
          <6>3. QED
            BY <6>1, <6>2
        <5>2. cells'[(at + k) + 1] = [datum |-> k]
          BY <1>15, <4>1, <5>1
        <5>3. QED
          BY <5>1, <5>2 DEF CellIs
      <4>2. CASE k # d + 1
        <5>1. k \in 1..d
          BY <4>2
        <5>2. CellIs(at + k, [datum |-> k])
          BY <1>5, <2>1, <5>1 DEF DataAreThere
        <5>3. at + k \in Nat
          OBVIOUS
        <5>4. QED
          BY <2>2, <5>2, <5>3 DEF CellIs
      <4>3. QED
        BY <4>1, <4>2
    <3>2. RecordAt(p, n)' = at /\ DataLen(p, n)' = d + 1
      BY <1>5, <1>9, <1>10
    <3>3. QED
      BY <3>1, <3>2 DEF DataAreThere, CellIs
  <2>5. /\ Len(wrote'[p]) = n /\ offset' = PartEnd(p)' /\ headerAt' = PartAt(p)' /\ chunkAt' = RecordAt(p, n)'
    BY <1>0, <1>5, <1>8, <1>9, <1>10
  <2>6. OpenPartOf(p)'
    BY <1>0, <1>3, <2>1, <2>3, <2>4, <2>5 DEF OpenPartOf
  <2>7. current' = p
    BY <1>0, <1>1
  <2>8. QED
    BY <2>6, <2>7, OpenPartIsOf
<1>19. SavingInv'
  <2>1. ~complete /\ onDisk /\ offset >= 1 /\ got = Nothing /\ readAll = {} /\ current # 0
    BY <1>0, <1>2 DEF SavingInv
  <2>2. \A q \in Written : /\ q < p \/ q = p
                           /\ PartEnd(q)' <= to + 1
                           /\ q # p => PartIsThere(q)'
    BY <1>10, <1>16
  <2>3. offset' = to + 1 /\ offset' >= 1 /\ Len(cells') <= offset' /\ (CoveredTo(offset)' <=> CoveredTo(to + 1)')
    BY <1>0, <1>5, <1>15 DEF CoveredTo, PartAt, PartEnd, RecordAt, RecordEnd, DataLen, Written
  <2>4. mode' = "saving" /\ wrote'[p] # <<>> /\ current' = p
    <3>1. Len(<<>>) = 0
      OBVIOUS
    <3>2. QED
      BY <1>0, <1>1, <1>3, <1>8, <3>1
  <2>5. QED
    BY <1>0, <1>1, <1>12, <1>17, <1>18, <2>1, <2>2, <2>3, <2>4 DEF SavingInv
<1>20. DiskInv' /\ LoadingInv' /\ GotInv'
  <2>1. DiskInv'
    BY <1>0, <1>15, <1>19 DEF DiskInv, Saving, SavingInv
  <2>2. LoadingInv'
    BY <1>0 DEF LoadingInv
  <2>3. got' = Nothing /\ readAll' = {}
    BY <1>19 DEF SavingInv
  <2>4. QED
    BY <1>2, <2>1, <2>2, <2>3, SavingGivesNothing
<1> QED
  BY <1>14, <1>20
LEMMA OpenRecordStep ==
  ASSUME CoSaveInv, OpenRecord
  PROVE  PartsInOrder' /\ DiskInv' /\ LoadingInv' /\ GotInv'
PROOF
<1>0. /\ UNCHANGED <<onDisk, complete, mode, current, expected, hadData, installed, got, readAll>>
      /\ mode = "saving" /\ chunkOpen' = TRUE /\ cells' = FlushedFile
  BY DEF OpenRecord
<1>1. PICK p \in Plugins : p = current
  BY <1>0, SavingFacts
<1>2. /\ SaveTypeOK /\ PartsInOrder /\ SavingInv /\ OpenPart /\ SaveTypeOK'
      /\ cells = <<>> \/ cells[1] = Hole
  BY <1>0, SavingFacts, SaveSideTypes DEF CoSaveInv
<1>3. PICK o \in Nat : o = Len(wrote[p]) /\ o = pluginHeader.numChunks /\ (p \in Written <=> o > 0)
  BY <1>0, <1>1, SavingFacts
<1>4. o > 0 => /\ p \in Written /\ PartEnd(p) = offset /\ PartAt(p) \in Nat /\ PartAt(p) >= 1
               /\ PartAt(p) < offset /\ headerAt = PartAt(p) /\ RecordEnd(p, o) = offset
  <2>1. o > 0 => p \in Written /\ PartEnd(p) = offset
    BY <1>0, <1>1, <1>3, SavingFacts
  <2>2. p \in Written => PartAt(p) \in Nat /\ PartAt(p) >= 1 /\ PartAt(p) < PartEnd(p)
    BY <1>2, PlaceFacts
  <2>3. o > 0 => headerAt = PartAt(p)
    BY <1>1, <1>2, <1>3 DEF OpenPart
  <2>4. PartEnd(p) = RecordEnd(p, o)
    BY <1>3 DEF PartEnd
  <2>5. QED
    BY <2>1, <2>2, <2>3, <2>4
<1>21. PICK to \in Nat, have \in Nat : to = offset /\ 1 <= to /\ have = Len(cells) /\ have <= to
  <2>1. offset \in Nat /\ offset >= 1 /\ Len(cells) \in Nat /\ Len(cells) <= offset
    BY <1>2 DEF SaveTypeOK, SavingInv
  <2>2. QED
    BY <2>1
<1>22. PICK at \in Nat : at = IF o = 0 THEN to + 1 ELSE to
  OBVIOUS
<1>23. PICK from \in Nat : from = IF o = 0 THEN to ELSE PartAt(p)
  <2>1. o # 0 => PartAt(p) \in Nat
    BY <1>4
  <2>2. QED
    BY <2>1
<1>5. /\ to = offset /\ at = (IF o = 0 THEN to + 1 ELSE to)
      /\ from = (IF o = 0 THEN to ELSE PartAt(p))
      /\ 1 <= from /\ from <= to /\ from < at /\ to <= at
      /\ have = Len(cells) /\ have <= to
  <2>1. CASE o = 0
    BY <1>21, <1>22, <1>23, <2>1
  <2>2. CASE o # 0
    <3>1. at = to /\ from = PartAt(p)
      BY <1>22, <1>23, <2>2
    <3>2. PartAt(p) >= 1 /\ PartAt(p) < offset
      BY <1>4, <2>2
    <3>3. 1 <= from /\ from < to
      BY <1>21, <3>1, <3>2
    <3>4. QED
      BY <1>21, <1>22, <1>23, <3>1, <3>3
  <2>3. QED
    BY <2>1, <2>2
<1> DEFINE n == o + 1
           rec == [type |-> <<p, n>>, data |-> <<>>]
<1>6. /\ headerAt' = from /\ chunkAt' = at /\ offset' = at + 1
      /\ chunkHeader' = [type |-> <<p, n>>, length |-> 0]
      /\ wrote' = [wrote EXCEPT ![p] = Append(wrote[p], rec)]
      /\ places' = [places EXCEPT ![p] = IF o = 0 THEN <<to, at>> ELSE Append(places[p], at)]
      /\ n <= MaxRecords
      /\ pluginHeader' = [pluginHeader EXCEPT !.length = FlushedLength, !.numChunks = n]
  <2>1. headerAt' = from
    <3>1. headerAt' = IF o = 0 THEN offset ELSE headerAt
      BY <1>3 DEF OpenRecord
    <3>2. o # 0 => o > 0
      OBVIOUS
    <3>3. QED
      BY <1>4, <1>5, <3>1, <3>2
  <2>2. /\ chunkAt' = at /\ offset' = at + 1
        /\ places' = [places EXCEPT ![p] = IF o = 0 THEN <<to, at>> ELSE Append(places[p], at)]
    <3>1. at = IF pluginHeader.numChunks = 0 THEN offset + 1 ELSE offset
      BY <1>3, <1>5
    <3>2. chunkAt' = at /\ offset' = at + 1
      BY <3>1 DEF OpenRecord
    <3>3. places' = [places EXCEPT ![p] = IF o = 0 THEN <<to, at>> ELSE Append(places[p], at)]
      BY <1>1, <1>3, <1>5, <3>1 DEF OpenRecord
    <3>4. QED
      BY <3>2, <3>3
  <2>3. /\ chunkHeader' = [type |-> <<p, n>>, length |-> 0]
        /\ wrote' = [wrote EXCEPT ![p] = Append(wrote[p], rec)]
        /\ n <= MaxRecords
        /\ pluginHeader' = [pluginHeader EXCEPT !.length = FlushedLength, !.numChunks = n]
    BY <1>1, <1>3 DEF OpenRecord
  <2>4. QED
    BY <2>1, <2>2, <2>3
<1>7. rec \in Record
  <2>1. n \in 1..MaxRecords
    BY <1>6, HandlesAssumption
  <2>2. QED
    BY <2>1 DEF Record, Types
<1>8. /\ \A q \in Plugins : q # p => wrote'[q] = wrote[q] /\ places'[q] = places[q]
      /\ wrote'[p] \in Seq(Record) /\ Len(wrote'[p]) = n
      /\ \A m \in 1..o : wrote'[p][m] = wrote[p][m]
      /\ wrote'[p][n] = rec
  <2>1. wrote \in [Plugins -> Seq(Record)] /\ places \in [Plugins -> Seq(Nat)]
    BY <1>2 DEF SaveTypeOK
  <2>2. /\ \A q \in Plugins : q # p => wrote'[q] = wrote[q]
        /\ wrote'[p] \in Seq(Record) /\ Len(wrote'[p]) = n
        /\ \A m \in 1..o : wrote'[p][m] = wrote[p][m]
        /\ wrote'[p][n] = rec
    <3> HIDE DEF rec
    <3>1. /\ \A q \in Plugins : q # p => wrote'[q] = wrote[q]
          /\ wrote'[p] \in Seq(Record) /\ Len(wrote'[p]) = Len(wrote[p]) + 1
          /\ \A m \in 1..Len(wrote[p]) : wrote'[p][m] = wrote[p][m]
          /\ wrote'[p][Len(wrote[p]) + 1] = rec
      BY <1>6, <1>7, <2>1, RecordAppended
    <3>2. QED
      BY <1>3, <3>1
  <2>3. \A q \in Plugins : q # p => places'[q] = places[q]
    BY <1>6, <2>1
  <2>4. QED
    BY <2>2, <2>3
<1>9. /\ places'[p] \in Seq(Nat) /\ Len(places'[p]) = n + 1
      /\ RecordAt(p, 0)' = from /\ RecordAt(p, n)' = at
      /\ \A m \in 1..o : RecordAt(p, m)' = RecordAt(p, m)
  <2>1. CASE o = 0
    <3>1. places'[p] = <<to, at>>
      BY <1>2, <1>6, <2>1 DEF SaveTypeOK
    <3>2. QED
      BY <1>5, <2>1, <3>1 DEF RecordAt
  <2>2. CASE o # 0
    <3>0. o > 0
      BY <2>2
    <3>1. Len(places[p]) = o + 1 /\ places[p] \in Seq(Nat)
      BY <1>2, <1>3, <1>4, <3>0, PlaceFacts DEF SaveTypeOK
    <3>2. places'[p] = Append(places[p], at)
      BY <1>2, <1>6, <2>2 DEF SaveTypeOK
    <3>3. /\ places'[p] \in Seq(Nat) /\ Len(places'[p]) = o + 2 /\ places'[p][o + 2] = at
          /\ \A i \in 1..o + 1 : places'[p][i] = places[p][i]
      BY <3>1, <3>2
    <3>4. \A m \in 0..o : RecordAt(p, m)' = RecordAt(p, m)
      <4>1. \A m \in 0..o : m + 1 \in 1..o + 1
        OBVIOUS
      <4>2. QED
        BY <3>3, <4>1 DEF RecordAt
    <3>5. RecordAt(p, n)' = at
      <4>1. n + 1 = o + 2
        OBVIOUS
      <4>2. QED
        BY <3>3, <4>1 DEF RecordAt
    <3>6. RecordAt(p, 0) = from
      BY <1>5, <2>2 DEF PartAt
    <3>7. 0 \in 0..o /\ \A m \in 1..o : m \in 0..o
      OBVIOUS
    <3>8. n + 1 = o + 2
      OBVIOUS
    <3>9. QED
      BY <3>3, <3>4, <3>5, <3>6, <3>7, <3>8
  <2>3. QED
    BY <2>1, <2>2
<1> HIDE DEF rec
<1>10. /\ \A m \in 1..o : DataLen(p, m)' = DataLen(p, m) /\ RecordEnd(p, m)' = RecordEnd(p, m)
       /\ DataLen(p, n)' = 0 /\ RecordEnd(p, 0)' = from + 1
       /\ RecordEnd(p, n)' = at + 1 /\ PartEnd(p)' = at + 1 /\ PartAt(p)' = from
  <2>1. \A m \in 1..o : DataLen(p, m)' = DataLen(p, m)
    BY <1>8 DEF DataLen
  <2>2. \A m \in 1..o : RecordEnd(p, m)' = RecordEnd(p, m)
    BY <1>9, <2>1 DEF RecordEnd
  <2>3. DataLen(p, n)' = 0
    <3>1. rec.data = <<>> /\ Len(<<>>) = 0
      BY DEF rec
    <3>2. QED
      BY <1>8, <3>1 DEF DataLen
  <2>4. RecordEnd(p, 0)' = from + 1
    <3>1. RecordEnd(p, 0)' = RecordAt(p, 0)' + 1 + 0
      BY DEF RecordEnd
    <3>2. QED
      BY <1>9, <3>1
  <2>5. RecordEnd(p, n)' = at + 1
    <3>1. RecordEnd(p, n)' = RecordAt(p, n)' + 1 + DataLen(p, n)'
      BY DEF RecordEnd
    <3>2. QED
      BY <1>9, <2>3, <3>1
  <2>6. PartEnd(p)' = RecordEnd(p, n)'
    BY <1>8 DEF PartEnd
  <2>7. PartAt(p)' = from
    BY <1>9 DEF PartAt
  <2>8. QED
    BY <2>1, <2>2, <2>3, <2>4, <2>5, <2>6, <2>7
<1>11. \A q \in Plugins : q # p => /\ PartAt(q)' = PartAt(q) /\ PartEnd(q)' = PartEnd(q)
                                   /\ (RecordsInOrder(q)' <=> RecordsInOrder(q))
                                   /\ (q \in Written' <=> q \in Written)
  BY <1>8, OthersStay
<1>12. Written' = Written \cup {p}
  <2>1. p \in Written'
    <3>1. Len(<<>>) = 0
      OBVIOUS
    <3>2. QED
      BY <1>8, <3>1 DEF Written
  <2>2. QED
    BY <1>11, <2>1 DEF Written
<1>13. RecordsInOrder(p)'
  <2>1. RecordsInOrder(p)
    BY <1>2 DEF PartsInOrder
  <2>2. wrote'[p] # <<>>
    <3>1. Len(<<>>) = 0
      OBVIOUS
    <3>2. QED
      BY <1>8, <3>1
  <2>3. ASSUME NEW r \in 1..o
        PROVE  /\ RecordAt(p, r)' = RecordEnd(p, r - 1)'
               /\ \A m \in 0..r - 1 : RecordEnd(p, m)' <= RecordAt(p, r)'
               /\ wrote'[p][r].type = <<p, r>> /\ r <= MaxRecords
               /\ \A k \in 1..DataLen(p, r)' : wrote'[p][r].data[k] = k /\ k <= MaxData
    <3>0. o > 0 /\ o # 0
      OBVIOUS
    <3>1. /\ RecordAt(p, r) = RecordEnd(p, r - 1)
          /\ \A m \in 0..r - 1 : RecordEnd(p, m) <= RecordAt(p, r)
          /\ wrote[p][r].type = <<p, r>> /\ r <= MaxRecords
          /\ \A k \in 1..DataLen(p, r) : wrote[p][r].data[k] = k /\ k <= MaxData
      BY <1>3, <2>1 DEF RecordsInOrder
    <3>2. \A m \in 0..r - 1 : RecordEnd(p, m)' = RecordEnd(p, m)
      <4>1. RecordEnd(p, 0)' = RecordEnd(p, 0)
        BY <1>2, <1>4, <1>5, <1>10, <3>0, PlaceFacts
      <4>2. \A m \in 0..r - 1 : m = 0 \/ m \in 1..o
        OBVIOUS
      <4>3. QED
        BY <1>10, <4>1, <4>2
    <3>3. r - 1 \in 0..r - 1
      OBVIOUS
    <3>4. /\ RecordAt(p, r)' = RecordEnd(p, r - 1)'
          /\ \A m \in 0..r - 1 : RecordEnd(p, m)' <= RecordAt(p, r)'
      BY <1>9, <3>1, <3>2, <3>3
    <3>5. QED
      BY <1>8, <1>10, <3>1, <3>4
  <2>4. /\ RecordAt(p, n)' = RecordEnd(p, n - 1)'
        /\ \A m \in 0..n - 1 : RecordEnd(p, m)' <= RecordAt(p, n)'
        /\ wrote'[p][n].type = <<p, n>> /\ n <= MaxRecords
        /\ \A k \in 1..DataLen(p, n)' : wrote'[p][n].data[k] = k /\ k <= MaxData
    <3>1. n - 1 = o
      OBVIOUS
    <3>2. CASE o = 0
      <4>1. \A m \in 0..o : m = 0
        BY <3>2
      <4>2. at = from + 1
        BY <1>5, <3>2
      <4>3. RecordAt(p, n)' = RecordEnd(p, o)' /\ \A m \in 0..o : RecordEnd(p, m)' <= RecordAt(p, n)'
        BY <1>5, <1>9, <1>10, <3>2, <4>1, <4>2
      <4>4. QED
        BY <1>6, <1>8, <1>10, <3>1, <4>3, SMTT(40) DEF rec
    <3>3. CASE o # 0
      <4>0. o > 0 /\ o \in 1..o
        BY <3>3
      <4>1. RecordEnd(p, o)' = to /\ at = to
        BY <1>4, <1>5, <1>10, <3>3, <4>0
      <4>2. ASSUME NEW m \in 0..o PROVE RecordEnd(p, m)' <= at
        <5>1. CASE m = 0
          BY <1>5, <1>10, <5>1
        <5>2. CASE m # 0
          <6>1. m \in 1..o /\ m \in 0..Len(wrote[p])
            BY <1>3, <5>2
          <6>2. RecordEnd(p, m) <= PartEnd(p)
            BY <1>2, <1>4, <4>0, <6>1, PlaceFacts
          <6>3. QED
            BY <1>4, <1>5, <1>10, <4>0, <4>1, <6>1, <6>2
        <5>3. QED
          BY <5>1, <5>2
      <4>3. RecordAt(p, n)' = RecordEnd(p, o)' /\ \A m \in 0..o : RecordEnd(p, m)' <= RecordAt(p, n)'
        BY <1>9, <4>1, <4>2
      <4>4. QED
        BY <1>6, <1>8, <1>10, <3>1, <4>3, SMTT(40) DEF rec
    <3>4. QED
      BY <3>2, <3>3
  <2>5. \A r \in 1..n : r \in 1..o \/ r = n
    OBVIOUS
  <2>6. PartAt(p)' >= 1
    BY <1>5, <1>10
  <2> HIDE DEF n
  <2>7. QED
    BY <1>8, <1>9, <2>2, <2>3, <2>4, <2>5, <2>6 DEF RecordsInOrder
<1>14. PartsInOrder'
  <2>1. \A q \in Plugins : RecordsInOrder(q)'
    BY <1>2, <1>11, <1>13 DEF PartsInOrder
  <2>2. ASSUME NEW q \in Written', NEW r \in Written', q < r PROVE PartEnd(q)' <= PartAt(r)'
    <3>1. q \in Nat /\ r \in Nat /\ q \in Plugins /\ r \in Plugins /\ p \in Nat
      BY <1>12, HandlesAssumption DEF Written
    <3>2. q # p
      <4>1. r # p => r < p
        BY <1>0, <1>1, <1>12, SavingFacts
      <4>2. QED
        BY <2>2, <3>1, <4>1
    <3>3. q \in Written
      BY <1>12, <3>2
    <3>4. CASE r = p
      <4>1. CASE o = 0
        BY <1>0, <1>1, <1>5, <1>10, <1>11, <3>1, <3>2, <3>3, <3>4, <4>1, SavingFacts
      <4>2. CASE o # 0
        <5>1. o > 0
          BY <4>2
        <5>2. PartEnd(q) <= PartAt(p)
          BY <1>2, <1>4, <2>2, <3>3, <3>4, <5>1 DEF PartsInOrder
        <5>3. QED
          BY <1>5, <1>10, <1>11, <3>1, <3>2, <3>4, <4>2, <5>2
      <4>3. QED
        BY <4>1, <4>2
    <3>5. CASE r # p
      <4>1. PartEnd(q) <= PartAt(r)
        BY <1>2, <1>12, <2>2, <3>3, <3>5 DEF PartsInOrder
      <4>2. QED
        BY <1>11, <3>1, <3>2, <3>5, <4>1
    <3>6. QED
      BY <3>4, <3>5
  <2>3. QED
    BY <2>1, <2>2 DEF PartsInOrder
<1>15. /\ cells' \in Seq(Cell) /\ Len(cells') <= to /\ have <= Len(cells')
       /\ \A j \in Nat : j < have /\ j < from => cells'[j + 1] = cells[j + 1]
       /\ cells' = <<>> \/ cells'[1] = Hole
       /\ FlushedLength = at - from - 1
       /\ \A m \in 1..o : RecordIsThere(p, m)' /\ DataAreThere(p, m)'
  <2>0. cells' \in Seq(Cell)
    BY <1>2 DEF SaveTypeOK
  <2>1. CASE o = 0
    <3>1. ~chunkOpen /\ pluginHeader.length = 0
      BY <1>1, <1>2, <1>3, <2>1 DEF OpenPart
    <3>2. cells' = cells /\ FlushedLength = 0
      BY <1>0, <3>1 DEF FlushedFile, FlushedLength
    <3>3. at - from - 1 = 0
      BY <1>5, <2>1
    <3>4. \A m \in 1..o : FALSE
      BY <2>1
    <3>5. QED
      BY <1>2, <1>5, <2>0, <3>2, <3>3, <3>4
  <2>2. CASE o # 0
    <3>0. o > 0
      BY <2>2
    <3>1. /\ chunkAt = RecordAt(p, o) /\ headerAt = PartAt(p)
          /\ FlushedLength = offset - headerAt - 1
          /\ Len(FlushedFile) = offset
          /\ \A j \in Nat : j < Len(cells) /\ j # chunkAt => FlushedFile[j + 1] = cells[j + 1]
          /\ FlushedFile[1] = Hole
      BY <1>0, <1>1, <1>3, <3>0, FlushFacts
    <3>2. from < chunkAt /\ chunkAt \in Nat
      <4>1. o \in 1..Len(wrote[p])
        BY <1>3, <3>0
      <4>2. PartAt(p) < RecordAt(p, o)
        BY <1>2, <1>4, <3>0, <4>1, PlaceFacts
      <4>3. QED
        BY <1>2, <1>5, <2>2, <3>1, <4>2 DEF SaveTypeOK
    <3>3. ASSUME NEW j \in Nat, j < have, j < from PROVE cells'[j + 1] = cells[j + 1]
      <4>1. j # chunkAt /\ j < Len(cells)
        BY <1>5, <3>2, <3>3
      <4>2. QED
        BY <1>0, <3>1, <4>1
    <3>4. Len(cells') = to /\ cells'[1] = Hole
      BY <1>0, <1>5, <3>1
    <3>5. FlushedLength = at - from - 1
      BY <1>4, <1>5, <2>2, <3>0, <3>1
    <3>6. \A m \in 1..o : RecordIsThere(p, m)' /\ DataAreThere(p, m)'
      <4>1. \A m \in 1..o : RecordAt(p, m)' = RecordAt(p, m) /\ DataLen(p, m)' = DataLen(p, m)
        BY <1>9, <1>10
      <4>2. Len(cells') >= offset
        BY <1>5, <3>4
      <4>3. \A j \in Nat : j < offset /\ j # headerAt => cells'[j + 1] = FlushedFile[j + 1]
        BY <1>0
      <4>4. QED
        BY <1>0, <1>1, <1>3, <3>0, <4>1, <4>2, <4>3, FlushedRecords
    <3>7. QED
      BY <1>5, <2>0, <3>3, <3>4, <3>5, <3>6
  <2>3. QED
    BY <2>1, <2>2
<1>16. ASSUME NEW q \in Written, q # p PROVE PartIsThere(q)' /\ PartEnd(q)' <= at + 1 /\ q < p
  <2>1. wrote'[q] = wrote[q] /\ places'[q] = places[q]
    BY <1>8, <1>16 DEF Written
  <2>2. from = IF current \in Written THEN PartAt(current) ELSE offset
    BY <1>1, <1>3, <1>5
  <2>3. Len(cells) <= Len(cells')
    BY <1>5, <1>15
  <2>4. \A j \in Nat : j < Len(cells) /\ j < from => cells'[j + 1] = cells[j + 1]
    BY <1>5, <1>15
  <2>5. PartIsThere(q)' /\ PartEnd(q)' = PartEnd(q) /\ PartEnd(q) <= from
    BY <1>0, <1>1, <1>15, <1>16, <2>1, <2>2, <2>3, <2>4, OthersLieBefore
  <2>6. PartEnd(q) \in Nat /\ from <= at
    BY <1>2, <1>5, PlaceFacts
  <2>7. PartEnd(q)' <= at + 1
    BY <2>5, <2>6
  <2>8. q < p
    BY <1>0, <1>1, <1>16, SavingFacts
  <2>9. QED
    BY <2>5, <2>7, <2>8
<1>17. CoveredTo(at + 1)'
  <2>1. CoveredTo(to)
    BY <1>2, <1>5 DEF SavingInv
  <2>2. ASSUME NEW i \in 1..at PROVE \E q \in Written' : PartAt(q)' <= i /\ i < PartEnd(q)'
    <3>1. CASE i >= to
      <4>1. PartAt(p)' <= i /\ i < PartEnd(p)'
        <5>1. from <= i /\ i < at + 1
          BY <1>5, <3>1
        <5>2. QED
          BY <1>10, <5>1
      <4>2. QED
        BY <1>12, <4>1
    <3>2. CASE i < to
      <4>1. i \in 1..to - 1
        BY <3>2
      <4>2. PICK q \in Written : PartAt(q) <= i /\ i < PartEnd(q)
        BY <2>1, <4>1 DEF CoveredTo
      <4>3. CASE q = p
        <5>1. o > 0 /\ o # 0
          BY <1>3, <4>3
        <5>2. from <= i /\ i < at + 1
          BY <1>5, <4>2, <4>3, <5>1
        <5>3. QED
          BY <1>10, <1>12, <5>2
      <4>4. CASE q # p
        BY <1>11, <1>12, <4>2, <4>4 DEF Written
      <4>5. QED
        BY <4>3, <4>4
    <3>3. QED
      BY <3>1, <3>2
  <2>3. (at + 1) - 1 = at
    OBVIOUS
  <2>4. QED
    BY <2>2, <2>3 DEF CoveredTo
<1>18. OpenPart'
  <2>1. pluginHeader'.uid = p /\ pluginHeader'.numChunks = n /\ pluginHeader'.length = at - from - 1
    <3>1. pluginHeader' = [uid |-> pluginHeader.uid, numChunks |-> n, length |-> FlushedLength]
      BY <1>2, <1>6 DEF SaveTypeOK, PluginHeader
    <3>2. pluginHeader.uid = p
      BY <1>1, <1>2 DEF OpenPart
    <3>3. QED
      BY <1>15, <3>1, <3>2
  <2>2. DataAreThere(p, n)'
    BY <1>10 DEF DataAreThere
  <2>3. \A m \in 1..n - 1 : RecordIsThere(p, m)' /\ DataAreThere(p, m)'
    <3>1. n - 1 = o
      OBVIOUS
    <3>2. QED
      BY <1>15, <3>1
  <2>4. n > 0 /\ n # 0 /\ Len(wrote'[p]) = n
    BY <1>8
  <2> HIDE DEF n
  <2>5. /\ headerAt' = PartAt(p)' /\ chunkAt' = RecordAt(p, n)' /\ offset' = PartEnd(p)'
        /\ pluginHeader'.length = chunkAt' - headerAt' - 1
    BY <1>6, <1>9, <1>10, <2>1
  <2>6. OpenPartOf(p)'
    BY <1>0, <1>6, <2>1, <2>2, <2>3, <2>4, <2>5 DEF OpenPartOf
  <2>7. current' = p
    BY <1>0, <1>1
  <2>8. QED
    BY <2>6, <2>7, OpenPartIsOf
<1>19. SavingInv'
  <2>1. ~complete /\ onDisk /\ got = Nothing /\ readAll = {} /\ current # 0
    BY <1>0, <1>2 DEF SavingInv
  <2>2. \A q \in Written' : /\ q < p \/ q = p
                            /\ PartEnd(q)' <= at + 1
                            /\ q # p => PartIsThere(q)'
    BY <1>10, <1>12, <1>16
  <2>3. offset' >= 1 /\ Len(cells') <= offset'
    <3>1. PICK len \in Nat : len = Len(cells') /\ len <= to
      BY <1>15
    <3>2. to <= at /\ offset' = at + 1
      BY <1>5, <1>6
    <3>3. len <= at + 1 /\ at + 1 >= 1
      BY <3>1, <3>2
    <3>4. QED
      BY <3>1, <3>2, <3>3
  <2>4. CoveredTo(offset)' <=> CoveredTo(at + 1)'
    BY <1>6 DEF CoveredTo
  <2>5. mode' = "saving" /\ wrote'[p] # <<>> /\ current' = p /\ offset' = at + 1
    <3>1. Len(<<>>) = 0
      OBVIOUS
    <3>2. wrote'[p] # <<>>
      BY <1>8, <3>1
    <3>3. QED
      BY <1>0, <1>1, <1>6, <3>2
  <2> HIDE DEF n
  <2>6. QED
    BY <1>0, <1>17, <1>18, <2>1, <2>2, <2>3, <2>4, <2>5 DEF SavingInv
<1>20. DiskInv' /\ LoadingInv' /\ GotInv'
  <2>1. DiskInv'
    BY <1>0, <1>15, <1>19 DEF DiskInv, Saving, SavingInv
  <2>2. LoadingInv'
    BY <1>0 DEF LoadingInv
  <2>3. got' = Nothing /\ readAll' = {}
    BY <1>19 DEF SavingInv
  <2>4. QED
    BY <1>2, <2>1, <2>2, <2>3, SavingGivesNothing
<1> QED
  BY <1>14, <1>20
-----------------------------------------------------------------------------
LEMMA CoSaveInvStep == CoSaveInv /\ [SaveNext]_saveVars => CoSaveInv'
PROOF
<1> SUFFICES ASSUME CoSaveInv, [SaveNext]_saveVars PROVE CoSaveInv'
  OBVIOUS
<1> USE DEF CoSaveInv
<1>1. CASE SaveStart \/ SaveCall \/ OpenRecord \/ WriteRecordData \/ SaveReturn \/ SaveEnd
  <2>1. SaveTypeOK'
    BY <1>1, SaveSideTypes
  <2>2. QED
    BY <1>1, <2>1, SaveStartStep, SaveCallStep, OpenRecordStep, WriteRecordDataStep,
       SaveReturnStep, SaveEndStep
<1>2. ASSUME NEW plugins \in SUBSET Plugins, Restart(plugins) PROVE CoSaveInv'
  BY <1>2, RestartStep, LoadSideTypes
<1>3. CASE LoadStart \/ LoadCall \/ GetNextRecordInfo \/ NoFurtherRecord \/ ReadRecordData
           \/ LoadReturn \/ RestCall \/ LoadEnd \/ DeleteSave
  <2>1. SaveTypeOK'
    BY <1>3, LoadSideTypes
  <2>2. QED
    BY <1>3, <2>1, LoadStartStep, LoadCallStep, GetNextRecordInfoStep, NoFurtherRecordStep,
       ReadRecordDataStep, QuietLoadSteps, DeleteSaveStep
<1>4. CASE UNCHANGED saveVars
  <2>1. SaveTypeOK'
    BY <1>4, LoadSideTypes
  <2>2. UNCHANGED <<cells, onDisk, complete, offset, mode, current, pluginHeader, headerAt,
              chunkOpen, chunkHeader, chunkAt, expected, hadData, installed, wrote, got,
              places, readAll>>
    BY <1>4 DEF saveVars
  <2>3. PartsInOrder' /\ GotInv'
    BY <2>2, LayoutStays, GotStays
  <2>4. LoadingInv'
    <3>1. AtBoundary' <=> AtBoundary
      BY <2>2, LayoutStays DEF AtBoundary
    <3>2. InPart' <=> InPart
      BY <2>2 DEF InPart, Written, PartEnd, RecordEnd, RecordAt, DataLen
    <3>3. QED
      BY <2>2, <3>1, <3>2 DEF LoadingInv
  <2>5. DiskInv'
    <3>1. FileIsWhole' <=> FileIsWhole
      BY <2>2, CellsStay
    <3>2. OpenPart' <=> OpenPart
      BY <2>2 DEF OpenPart, PartAt, PartEnd, RecordEnd, RecordAt, DataLen, RecordIsThere,
                  DataAreThere, CellIs
    <3>3. SavingInv' <=> SavingInv
      <4>1. \A p \in Written : PartIsThere(p)' <=> PartIsThere(p)
        BY <2>2, CellsStay
      <4>2. \A p : PartEnd(p)' = PartEnd(p)
        BY <2>2, LayoutStays
      <4>3. Written' = Written /\ (CoveredTo(offset)' <=> CoveredTo(offset))
        BY <2>2, LayoutStays DEF CoveredTo
      <4>4. QED
        BY <2>2, <3>2, <4>1, <4>2, <4>3 DEF SavingInv
    <3>4. QED
      BY <2>2, <3>1, <3>3 DEF DiskInv, Saving
  <2>6. QED
    BY <2>1, <2>3, <2>4, <2>5
<1> QED
  BY <1>1, <1>2, <1>3, <1>4 DEF SaveNext

LEMMA CoSaveInvReadsBack == CoSaveInv => RecordsAreReadBack
PROOF
<1> SUFFICES ASSUME CoSaveInv PROVE RecordsAreReadBack
  OBVIOUS
<1>1. SaveTypeOK /\ PartsInOrder /\ DiskInv /\ LoadingInv /\ GotInv
  BY DEF CoSaveInv
<1>2. LoaderFindsHeaders
  <2>1. ASSUME mode = "load", offset < Len(cells) PROVE cells[offset + 1] \in PluginHeader
    <3>1. AtBoundary /\ offset \in Nat /\ cells \in Seq(Cell)
      BY <1>1, <2>1 DEF LoadingInv, SaveTypeOK
    <3>2. complete
      <4>1. cells = <<>> => ~(offset < Len(cells))
        BY <3>1
      <4>2. QED
        BY <2>1, <3>1, <4>1 DEF AtBoundary
    <3>3. FileIsWhole
      BY <2>1, <3>2, LoadedFile
    <3>4. PICK p \in Written : offset = PartAt(p)
      BY <1>1, <2>1, <3>1, <3>2, <3>3, BoundaryBegins
    <3>5. cells[offset + 1] = [uid |-> p, numChunks |-> Len(wrote[p]), length |-> PartEnd(p) - PartAt(p) - 1]
      BY <3>3, <3>4 DEF FileIsWhole, PartIsThere, HeaderIsThere, CellIs
    <3>6. QED
      BY <1>1, <3>5, WrittenHeaders
  <2>2. ASSUME mode = "loading", pluginHeader.numChunks > 0
        PROVE  PastRecord < Len(cells) /\ cells[PastRecord + 1] \in ChunkHeader
    BY <2>2, NextRecord
  <2>3. QED
    BY <2>1, <2>2 DEF LoaderFindsHeaders
<1>3. \A p \in hadData : /\ p \in Plugins /\ got[p] \in Seq(Record) /\ wrote[p] \in Seq(Record)
                         /\ Len(got[p]) \in Nat /\ Len(wrote[p]) \in Nat
                         /\ Len(got[p]) <= Len(wrote[p])
                         /\ DOMAIN got[p] = 1..Len(got[p]) /\ DOMAIN wrote[p] = 1..Len(wrote[p])
  BY <1>1 DEF SaveTypeOK, GotInv
<1>4. ASSUME NEW p \in hadData, NEW n \in 1..Len(got[p])
      PROVE  /\ got[p][n].type = wrote[p][n].type
             /\ IsPrefix(got[p][n].data, wrote[p][n].data)
  <2>1. n \in 1..Len(wrote[p])
    BY <1>3
  <2>2. /\ got[p][n].type = <<p, n>> /\ Len(got[p][n].data) <= DataLen(p, n)
        /\ \A k \in 1..Len(got[p][n].data) : got[p][n].data[k] = k
    BY <1>1 DEF GotInv
  <2>3. RecordsInOrder(p)
    BY <1>1, <1>3 DEF PartsInOrder
  <2>4. wrote[p][n].type = <<p, n>> /\ \A k \in 1..DataLen(p, n) : wrote[p][n].data[k] = k
    BY <2>1, <2>3 DEF RecordsInOrder
  <2>5. got[p][n] \in Record /\ wrote[p][n] \in Record
    BY <1>3, <2>1
  <2>6. PICK s \in Seq(0..MaxData), t \in Seq(0..MaxData) : s = got[p][n].data /\ t = wrote[p][n].data
    BY <2>5, HeaderChanges
  <2>7. Len(s) <= Len(t) /\ \A k \in 1..Len(s) : s[k] = t[k]
    <3>1. Len(s) <= Len(t) /\ \A k \in 1..Len(s) : s[k] = k
      BY <2>2, <2>6 DEF DataLen
    <3>2. \A k \in 1..Len(t) : t[k] = k
      BY <2>4, <2>6 DEF DataLen
    <3>3. Len(s) \in Nat /\ Len(t) \in Nat
      OBVIOUS
    <3>4. QED
      BY <3>1, <3>2, <3>3
  <2>8. IsPrefix(s, t)
    <3>1. SubSeq(s, 1, Len(s)) = SubSeq(t, 1, Len(s))
      BY <2>7
    <3>2. QED
      BY <2>7, <3>1 DEF IsPrefix
  <2>9. QED
    BY <2>2, <2>4, <2>6, <2>8
<1>5. ReadsOwnRecords
  BY <1>3, <1>4 DEF ReadsOwnRecords
<1>6. ReadsAllRecords
  <2> SUFFICES ASSUME NEW p \in hadData \cap readAll
               PROVE  [n \in DOMAIN got[p] |-> got[p][n].type] = [n \in DOMAIN wrote[p] |-> wrote[p][n].type]
    BY DEF ReadsAllRecords
  <2>1. DOMAIN got[p] = DOMAIN wrote[p]
    BY <1>1, <1>3 DEF GotInv
  <2>2. \A n \in DOMAIN got[p] : got[p][n].type = wrote[p][n].type
    BY <1>3, <1>4
  <2>3. QED
    BY <2>1, <2>2
<1>7. InterruptedSaveIsIgnored
  BY <1>1 DEF InterruptedSaveIsIgnored, LoadingInv, AtBoundary, InPart
<1> QED
  BY <1>1, <1>2, <1>5, <1>6, <1>7 DEF RecordsAreReadBack

(* Serialization.cpp: a loader finds every part and record of the co-save  *)
(* where it begins, a plugin is given its own records and all of them, and *)
(* nothing is read of a save that was interrupted, whatever the plugins    *)
(* leave unread, throw or lack.                                            *)
THEOREM RecordsAlwaysReadBack == SaveSpec => []RecordsAreReadBack
PROOF
<1>1. SaveInit => CoSaveInv
  BY CoSaveInvInit
<1>2. CoSaveInv /\ [SaveNext]_saveVars => CoSaveInv'
  BY CoSaveInvStep
<1>3. CoSaveInv => RecordsAreReadBack
  BY CoSaveInvReadsBack
<1> QED
  BY <1>1, <1>2, <1>3, PTL DEF SaveSpec

-----------------------------------------------------------------------------
(***************************************************************************)
(* The registrations.  Where the records of the save are, and what a load  *)
(* has brought back when it stands before a record.                        *)
(***************************************************************************)
UsedBy(h) == Used(saved[1], h)
HolderAt(h) == IF h = "KEYR" THEN 1 ELSE Len(UsedBy("KEYR")) + 3
HolderEnd(h) == HolderAt(h) + Len(UsedBy(h)) + 1
FurnitureAt == HolderEnd("CTLR") + 1

Loaded(h) == {Moved(s) : s \in {t \in saved[1][h] : Survives(t)}}
LoadedFurniture == {Moved(s) : s \in {t \in DOMAIN saved[2] : Survives(t)}}
Passed(h) ==
  \E i \in 1..Len(UsedBy(h[1])) : HolderAt(h[1]) + i < reading /\ UsedBy(h[1])[i] = h[2]

RegRecordsInv ==
  /\ saved \in Registrations \X Furniture
  /\ records # <<>> => records = CoreRecords(saved[1], saved[2])

RegLoadingInv ==
  /\ reading # 0 => /\ reverted /\ records # <<>>
                    /\ \A h \in Holders : holder = h <=> HolderAt(h) < reading /\ reading <= HolderEnd(h)
                    /\ \A h \in Holders \X Keys : registered[h] = IF Passed(h) THEN Loaded(h) ELSE {}
                    /\ DOMAIN furniture = IF FurnitureAt < reading THEN LoadedFurniture ELSE {}
  /\ reading = 0 /\ reverted => /\ \A h \in Holders \X Keys : registered[h] = {}
                                /\ DOMAIN furniture = {}
  /\ restored => reading = 0 /\ ~reverted

RegInv ==
  RegTypeOK /\ RegRecordsInv /\ RegLoadingInv /\ LoadRestores /\ RegisteredAreReferenced

-----------------------------------------------------------------------------
(* Every key with subscribers is in the sequence the records are written   *)
(* from.                                                                   *)
LEMMA UsedFacts ==
  ASSUME NEW regs \in Registrations, NEW h \in Holders
  PROVE  /\ Used(regs, h) \in Seq(Keys) /\ Len(Used(regs, h)) \in Nat
         /\ \A i \in 1..Len(Used(regs, h)) : Used(regs, h)[i] \in Keys
         /\ \A k \in Keys : regs[<<h, k>>] # {} =>
              \E i \in 1..Len(Used(regs, h)) : Used(regs, h)[i] = k
PROOF
<1> DEFINE S == {k \in Keys : regs[<<h, k>>] # {}}
           n == Cardinality(S)
           f == SetToSeq(S)
<1>1. IsFiniteSet(S)
  BY RegAssumption, FS_Subset
<1>2. n \in Nat /\ ExistsBijection(1..n, S)
  BY <1>1, FS_CardinalityType
<1>3. \E g \in [1..n -> S] : IsInjective(g)
  <2>1. PICK g \in Bijection(1..n, S) : TRUE
    BY <1>2 DEF ExistsBijection
  <2>2. QED
    BY <2>1 DEF Bijection, Injection, IsInjective
<1>4. f \in [1..n -> S] /\ IsInjective(f)
  BY <1>3 DEF SetToSeq
<1>5. f \in Surjection(1..n, S)
  <2>1. f \in Injection(1..n, S)
    BY <1>4 DEF Injection, IsInjective
  <2>2. IsFiniteSet(1..n) /\ Cardinality(1..n) = n
    BY <1>2, FS_Interval
  <2>3. QED
    BY <1>1, <2>1, <2>2, FS_Injection
<1>6. \A k \in S : \E i \in 1..n : f[i] = k
  BY <1>5 DEF Surjection
<1>7. f \in Seq(Keys) /\ Len(f) = n
  BY <1>2, <1>4
<1>8. f = Used(regs, h)
  BY DEF Used
<1>9. \A i \in 1..n : f[i] \in Keys
  BY <1>4
<1> HIDE DEF f, n
<1>10. \A k \in Keys : regs[<<h, k>>] # {} => k \in S
  OBVIOUS
<1> QED
  BY <1>2, <1>6, <1>7, <1>8, <1>9, <1>10

LEMMA Concatenated ==
  ASSUME NEW S, NEW s \in Seq(S), NEW t \in Seq(S)
  PROVE  /\ s \o t \in Seq(S) /\ Len(s \o t) = Len(s) + Len(t)
         /\ \A i \in 1..Len(s) : (s \o t)[i] = s[i]
         /\ \A i \in 1..Len(t) : (s \o t)[Len(s) + i] = t[i]
PROOF
<1>1. s \o t \in Seq(S) /\ Len(s \o t) = Len(s) + Len(t) /\ Len(s) \in Nat /\ Len(t) \in Nat
  OBVIOUS
<1>2. \A i \in 1..Len(s) : (s \o t)[i] = s[i]
  OBVIOUS
<1>3. ASSUME NEW i \in 1..Len(t) PROVE (s \o t)[Len(s) + i] = t[i]
  <2>1. Len(s) + i \in 1..Len(s) + Len(t) /\ Len(s) + i > Len(s) /\ Len(s) + i - Len(s) = i
    BY <1>1
  <2>2. QED
    BY <1>1, <2>1
<1> QED
  BY <1>1, <1>2, <1>3

RegRecord ==
  [type : Holders] \cup [type : {"REGS"}, key : Keys, regs : SUBSET Subscribers]
  \cup [type : {"REGE"}] \cup [type : {"FRNR"}, filters : Furniture]

KeyRecord(regs, h, k) == [type |-> "REGS", key |-> k, regs |-> regs[<<h, k>>]]

LEMMA HolderRecordsFacts ==
  ASSUME NEW regs \in Registrations, NEW h \in Holders
  PROVE  /\ HolderRecords(regs, h) \in Seq(RegRecord)
         /\ Len(HolderRecords(regs, h)) = Len(Used(regs, h)) + 2
         /\ HolderRecords(regs, h)[1] = [type |-> h]
         /\ \A i \in 1..Len(Used(regs, h)) :
              HolderRecords(regs, h)[i + 1] = KeyRecord(regs, h, Used(regs, h)[i])
         /\ HolderRecords(regs, h)[Len(Used(regs, h)) + 2] = [type |-> "REGE"]
PROOF
<1> DEFINE u == Used(regs, h)
           n == Len(u)
           a == <<[type |-> h]>>
           b == [i \in 1..n |-> KeyRecord(regs, h, u[i])]
           c == <<[type |-> "REGE"]>>
<1>1. n \in Nat /\ \A i \in 1..n : u[i] \in Keys
  BY UsedFacts
<1>2. \A k \in Keys : KeyRecord(regs, h, k) \in RegRecord
  <2>1. \A k \in Keys : regs[<<h, k>>] \in SUBSET Subscribers
    BY DEF Registrations
  <2>2. \A k \in Keys : KeyRecord(regs, h, k) \in [type : {"REGS"}, key : Keys, regs : SUBSET Subscribers]
    BY <2>1 DEF KeyRecord
  <2>3. QED
    BY <2>2 DEF RegRecord
<1> HIDE DEF u, n
<1>3. b \in [1..n -> RegRecord]
  BY <1>1, <1>2
<1>4. b \in Seq(RegRecord) /\ Len(b) = n /\ \A i \in 1..n : b[i] = KeyRecord(regs, h, u[i])
  BY <1>1, <1>3
<1>5. [type |-> h] \in RegRecord /\ [type |-> "REGE"] \in RegRecord
  BY DEF RegRecord
<1>6. a \in Seq(RegRecord) /\ c \in Seq(RegRecord) /\ Len(a) = 1 /\ Len(c) = 1
      /\ a[1] = [type |-> h] /\ c[1] = [type |-> "REGE"]
  BY <1>5
<1>7. HolderRecords(regs, h) = a \o b \o c
  BY DEF HolderRecords, KeyRecord, u, n
<1> HIDE DEF a, b, c
<1>8. /\ a \o b \in Seq(RegRecord) /\ Len(a \o b) = 1 + n
      /\ \A i \in 1..1 : (a \o b)[i] = a[i]
      /\ \A i \in 1..n : (a \o b)[1 + i] = b[i]
  BY <1>1, <1>4, <1>6, Concatenated, SMTT(40)
<1> DEFINE d == a \o b
<1>9. d \in Seq(RegRecord) /\ Len(d) = 1 + n
  BY <1>8
<1> HIDE DEF d
<1>10. /\ d \o c \in Seq(RegRecord) /\ Len(d \o c) = 1 + n + 1
       /\ \A i \in 1..1 + n : (d \o c)[i] = d[i]
       /\ \A i \in 1..1 : (d \o c)[1 + n + i] = c[i]
  <2>1. /\ d \o c \in Seq(RegRecord) /\ Len(d \o c) = Len(d) + Len(c)
        /\ \A i \in 1..Len(d) : (d \o c)[i] = d[i]
        /\ \A i \in 1..Len(c) : (d \o c)[Len(d) + i] = c[i]
    BY <1>6, <1>9, Concatenated
  <2>2. Len(d) = 1 + n /\ Len(c) = 1
    BY <1>6, <1>9
  <2>3. QED
    BY <2>1, <2>2
<1>11. (d \o c)[1] = [type |-> h]
  <2>1. 1 \in 1..1 + n /\ 1 \in 1..1
    BY <1>1
  <2>2. QED
    BY <1>6, <1>8, <1>10, <2>1 DEF d
<1>12. \A i \in 1..n : (d \o c)[i + 1] = KeyRecord(regs, h, u[i])
  <2> TAKE i \in 1..n
  <2>1. i + 1 = 1 + i /\ 1 + i \in 1..1 + n
    BY <1>1
  <2>2. (d \o c)[1 + i] = d[1 + i]
    BY <1>10, <2>1
  <2>3. d[1 + i] = b[i]
    BY <1>8 DEF d
  <2>4. b[i] = KeyRecord(regs, h, u[i])
    BY <1>4
  <2>5. QED
    BY <2>1, <2>2, <2>3, <2>4
<1>13. (d \o c)[n + 2] = [type |-> "REGE"] /\ Len(d \o c) = n + 2
  <2>1. 1 + n + 1 = n + 2 /\ 1 \in 1..1
    BY <1>1
  <2>2. QED
    BY <1>6, <1>10, <2>1
<1> QED
  BY <1>7, <1>10, <1>11, <1>12, <1>13 DEF u, n, d

LEMMA CoreRecordsType ==
  ASSUME NEW regs \in Registrations, NEW filters \in Furniture
  PROVE  CoreRecords(regs, filters) \in Seq(RegRecord)
PROOF
<1> DEFINE a == HolderRecords(regs, "KEYR")
           b == HolderRecords(regs, "CTLR")
           c == <<[type |-> "FRNR", filters |-> filters]>>
<1>1. a \in Seq(RegRecord) /\ b \in Seq(RegRecord)
  BY HolderRecordsFacts DEF Holders
<1>2. [type |-> "FRNR", filters |-> filters] \in RegRecord
  BY DEF RegRecord
<1>3. c \in Seq(RegRecord)
  BY <1>2
<1>4. CoreRecords(regs, filters) = (a \o b) \o c
  BY DEF CoreRecords
<1> HIDE DEF a, b, c
<1>5. a \o b \in Seq(RegRecord)
  BY <1>1, Concatenated
<1> QED
  BY <1>3, <1>4, <1>5, Concatenated

LEMMA Places ==
  ASSUME RegRecordsInv
  PROVE  /\ saved[1] \in Registrations /\ saved[2] \in Furniture
         /\ \A h \in Holders : /\ UsedBy(h) \in Seq(Keys) /\ Len(UsedBy(h)) \in Nat
                               /\ HolderAt(h) \in Nat /\ 1 <= HolderAt(h) /\ HolderEnd(h) \in Nat
                               /\ HolderEnd(h) = HolderAt(h) + Len(UsedBy(h)) + 1
                               /\ HolderEnd(h) < FurnitureAt
         /\ HolderAt("KEYR") = 1 /\ HolderAt("CTLR") = HolderEnd("KEYR") + 1
         /\ FurnitureAt = HolderEnd("CTLR") + 1 /\ FurnitureAt \in Nat
PROOF
<1>1. saved[1] \in Registrations /\ saved[2] \in Furniture
  BY DEF RegRecordsInv
<1>2. \A h \in Holders : UsedBy(h) \in Seq(Keys) /\ Len(UsedBy(h)) \in Nat
  BY <1>1, UsedFacts DEF UsedBy
<1>3. PICK a \in Nat, b \in Nat : a = Len(UsedBy("KEYR")) /\ b = Len(UsedBy("CTLR"))
  BY <1>2 DEF Holders
<1>4. /\ HolderAt("KEYR") = 1 /\ HolderEnd("KEYR") = a + 2
      /\ HolderAt("CTLR") = a + 3 /\ HolderEnd("CTLR") = a + b + 4 /\ FurnitureAt = a + b + 5
  BY <1>3 DEF HolderAt, HolderEnd, FurnitureAt
<1> QED
  BY <1>1, <1>2, <1>3, <1>4, SMTT(40) DEF Holders

LEMMA SavedRecords ==
  ASSUME RegRecordsInv, records # <<>>
  PROVE  /\ records \in Seq(RegRecord) /\ Len(records) = FurnitureAt
         /\ \A h \in Holders :
              /\ records[HolderAt(h)] = [type |-> h]
              /\ \A i \in 1..Len(UsedBy(h)) :
                   records[HolderAt(h) + i] = KeyRecord(saved[1], h, UsedBy(h)[i])
              /\ records[HolderEnd(h)] = [type |-> "REGE"]
         /\ records[FurnitureAt] = [type |-> "FRNR", filters |-> saved[2]]
PROOF
<1> DEFINE a == HolderRecords(saved[1], "KEYR")
           b == HolderRecords(saved[1], "CTLR")
           c == <<[type |-> "FRNR", filters |-> saved[2]]>>
           n == Len(UsedBy("KEYR"))
           m == Len(UsedBy("CTLR"))
<1>1. saved[1] \in Registrations /\ saved[2] \in Furniture
  BY DEF RegRecordsInv
<1>2. n \in Nat /\ m \in Nat
  BY <1>1, UsedFacts DEF UsedBy, Holders
<1>3. /\ a \in Seq(RegRecord) /\ Len(a) = n + 2 /\ a[1] = [type |-> "KEYR"]
      /\ \A i \in 1..n : a[i + 1] = KeyRecord(saved[1], "KEYR", UsedBy("KEYR")[i])
      /\ a[n + 2] = [type |-> "REGE"]
  BY <1>1, HolderRecordsFacts DEF UsedBy, Holders
<1>4. /\ b \in Seq(RegRecord) /\ Len(b) = m + 2 /\ b[1] = [type |-> "CTLR"]
      /\ \A i \in 1..m : b[i + 1] = KeyRecord(saved[1], "CTLR", UsedBy("CTLR")[i])
      /\ b[m + 2] = [type |-> "REGE"]
  BY <1>1, HolderRecordsFacts DEF UsedBy, Holders
<1>5. [type |-> "FRNR", filters |-> saved[2]] \in RegRecord
  BY <1>1 DEF RegRecord
<1>6. c \in Seq(RegRecord) /\ Len(c) = 1 /\ c[1] = [type |-> "FRNR", filters |-> saved[2]]
  BY <1>5
<1>7. records = (a \o b) \o c
  BY DEF RegRecordsInv, CoreRecords
<1>8. /\ HolderAt("KEYR") = 1 /\ HolderEnd("KEYR") = n + 2
      /\ HolderAt("CTLR") = n + 3 /\ HolderEnd("CTLR") = n + 2 + (m + 2)
      /\ FurnitureAt = n + 2 + (m + 2) + 1
  BY <1>2 DEF HolderAt, HolderEnd, FurnitureAt
<1> HIDE DEF a, b, c, n, m
<1> DEFINE d == a \o b
<1>9. /\ d \in Seq(RegRecord) /\ Len(d) = Len(a) + Len(b)
      /\ \A i \in 1..Len(a) : d[i] = a[i]
      /\ \A i \in 1..Len(b) : d[Len(a) + i] = b[i]
  <2>1. a \in Seq(RegRecord) /\ b \in Seq(RegRecord)
    BY <1>3, <1>4
  <2>2. QED
    BY <2>1, Concatenated
<1> HIDE DEF d
<1>10. /\ d \o c \in Seq(RegRecord) /\ Len(d \o c) = Len(d) + Len(c)
       /\ \A i \in 1..Len(d) : (d \o c)[i] = d[i]
       /\ \A i \in 1..Len(c) : (d \o c)[Len(d) + i] = c[i]
  <2>1. d \in Seq(RegRecord) /\ c \in Seq(RegRecord)
    BY <1>6, <1>9
  <2>2. QED
    BY <2>1, Concatenated
<1>11. records = d \o c
  BY <1>7 DEF d
<1>12. /\ records \in Seq(RegRecord) /\ Len(records) = FurnitureAt
       /\ \A i \in 1..n + 2 : records[i] = a[i]
       /\ \A i \in 1..m + 2 : records[n + 2 + i] = b[i]
       /\ records[FurnitureAt] = c[1]
  <2>1. Len(d) = n + 2 + (m + 2) /\ Len(c) = 1
    BY <1>3, <1>4, <1>6, <1>9
  <2>2. /\ records \in Seq(RegRecord) /\ Len(records) = n + 2 + (m + 2) + 1
        /\ \A i \in 1..n + 2 + (m + 2) : records[i] = d[i]
        /\ \A i \in 1..1 : records[n + 2 + (m + 2) + i] = c[i]
    BY <1>10, <1>11, <2>1
  <2>3. \A i \in 1..n + 2 : records[i] = a[i]
    <3>1. \A i \in 1..n + 2 : i \in 1..n + 2 + (m + 2) /\ d[i] = a[i]
      BY <1>2, <1>3, <1>9
    <3>2. QED
      BY <2>2, <3>1
  <2>4. \A i \in 1..m + 2 : records[n + 2 + i] = b[i]
    <3>1. \A i \in 1..m + 2 : n + 2 + i \in 1..n + 2 + (m + 2)
      BY <1>2
    <3>2. \A i \in 1..m + 2 : d[n + 2 + i] = b[i]
      BY <1>3, <1>4, <1>9
    <3>3. QED
      BY <2>2, <3>1, <3>2
  <2>5. QED
    BY <1>8, <2>2, <2>3, <2>4
<1>13. /\ records[1] = [type |-> "KEYR"] /\ records[n + 2] = [type |-> "REGE"]
       /\ records[n + 3] = [type |-> "CTLR"] /\ records[n + 2 + (m + 2)] = [type |-> "REGE"]
  <2>1. 1 \in 1..n + 2 /\ n + 2 \in 1..n + 2 /\ 1 \in 1..m + 2 /\ m + 2 \in 1..m + 2 /\ n + 2 + 1 = n + 3
    BY <1>2
  <2>2. QED
    BY <1>3, <1>4, <1>12, <2>1
<1>14. \A i \in 1..n : records[1 + i] = KeyRecord(saved[1], "KEYR", UsedBy("KEYR")[i])
  <2>1. \A i \in 1..n : i + 1 = 1 + i /\ i + 1 \in 1..n + 2
    BY <1>2
  <2>2. QED
    BY <1>3, <1>12, <2>1
<1>15. \A i \in 1..m : records[n + 3 + i] = KeyRecord(saved[1], "CTLR", UsedBy("CTLR")[i])
  <2>1. \A i \in 1..m : n + 3 + i = n + 2 + (i + 1) /\ i + 1 \in 1..m + 2
    BY <1>2
  <2>2. QED
    BY <1>4, <1>12, <2>1
<1> QED
  BY <1>6, <1>8, <1>12, <1>13, <1>14, <1>15, SMTT(40) DEF n, m, Holders

LEMMA FurnitureFacts ==
  ASSUME NEW f
  PROVE  f \in Furniture <=> /\ f = [t \in DOMAIN f |-> f[t]]
                             /\ DOMAIN f \in SUBSET Subscribers
                             /\ \A t \in DOMAIN f : f[t] \in SUBSET Objects
PROOF
<1>1. ASSUME f \in Furniture
      PROVE  /\ f = [t \in DOMAIN f |-> f[t]] /\ DOMAIN f \in SUBSET Subscribers
             /\ \A t \in DOMAIN f : f[t] \in SUBSET Objects
  <2>1. PICK S \in SUBSET Subscribers : f \in [S -> SUBSET Objects]
    BY <1>1 DEF Furniture
  <2>2. QED
    BY <2>1
<1>2. ASSUME f = [t \in DOMAIN f |-> f[t]], DOMAIN f \in SUBSET Subscribers,
             \A t \in DOMAIN f : f[t] \in SUBSET Objects
      PROVE  f \in Furniture
  <2>1. f \in [DOMAIN f -> SUBSET Objects]
    BY <1>2
  <2>2. QED
    BY <1>2, <2>1 DEF Furniture
<1> QED
  BY <1>1, <1>2

-----------------------------------------------------------------------------
(* Counting: what is registered of an object grows by at most what a step  *)
(* adds.                                                                   *)
LEMMA EntriesAreFinite ==
  ASSUME NEW o \in Objects, DOMAIN furniture \in SUBSET Subscribers
  PROVE  /\ IsFiniteSet(KeyEntries(o)) /\ Cardinality(KeyEntries(o)) \in Nat
         /\ IsFiniteSet(FurnitureEntries(o)) /\ Cardinality(FurnitureEntries(o)) \in Nat
PROOF
<1>1. IsFiniteSet(Holders)
  <2>1. IsFiniteSet({"KEYR"}) /\ Holders = {"KEYR"} \cup {"CTLR"}
    BY FS_Singleton DEF Holders
  <2>2. QED
    BY <2>1, FS_AddElement
<1>2. IsFiniteSet(Holders \X Keys)
  BY <1>1, RegAssumption, FS_Product
<1>3. IsFiniteSet(Subscribers)
  BY RegAssumption, FS_Product DEF Subscribers
<1>4. IsFiniteSet((Holders \X Keys) \X Subscribers)
  BY <1>2, <1>3, FS_Product
<1>5. IsFiniteSet(KeyEntries(o))
  <2>1. KeyEntries(o) \in SUBSET ((Holders \X Keys) \X Subscribers)
    BY DEF KeyEntries
  <2>2. QED
    BY <1>4, <2>1, FS_Subset
<1>6. IsFiniteSet(FurnitureEntries(o))
  <2>1. FurnitureEntries(o) \in SUBSET Subscribers
    BY DEF FurnitureEntries
  <2>2. QED
    BY <1>3, <2>1, FS_Subset
<1> QED
  BY <1>5, <1>6, FS_CardinalityType

LEMMA Grown ==
  ASSUME NEW A, NEW B, NEW N, IsFiniteSet(A), IsFiniteSet(N), B \in SUBSET (A \cup N)
  PROVE  /\ Cardinality(A) \in Nat /\ Cardinality(B) \in Nat /\ Cardinality(N) \in Nat
         /\ Cardinality(B) <= Cardinality(A) + Cardinality(N)
PROOF
<1>1. /\ IsFiniteSet(A \cup N)
      /\ Cardinality(A \cup N) = Cardinality(A) + Cardinality(N) - Cardinality(A \cap N)
  BY FS_Union
<1>2. IsFiniteSet(A \cap N)
  BY FS_Intersection
<1>3. IsFiniteSet(B) /\ Cardinality(B) <= Cardinality(A \cup N)
  BY <1>1, FS_Subset
<1>4. /\ Cardinality(A) \in Nat /\ Cardinality(B) \in Nat /\ Cardinality(N) \in Nat
      /\ Cardinality(A \cap N) \in Nat
  BY <1>2, <1>3, FS_CardinalityType
<1> QED
  BY <1>1, <1>3, <1>4

LEMMA CountGrows ==
  ASSUME NEW o \in Objects, DOMAIN furniture \in SUBSET Subscribers,
         NEW N, NEW M, IsFiniteSet(N), IsFiniteSet(M),
         KeyEntries(o)' \in SUBSET (KeyEntries(o) \cup N),
         FurnitureEntries(o)' \in SUBSET (FurnitureEntries(o) \cup M)
  PROVE  /\ Count(o) \in Nat /\ Count(o)' \in Nat /\ Cardinality(N) \in Nat /\ Cardinality(M) \in Nat
         /\ Count(o)' <= Count(o) + Cardinality(N) + Cardinality(M)
PROOF
<1>1. IsFiniteSet(KeyEntries(o)) /\ IsFiniteSet(FurnitureEntries(o))
  BY EntriesAreFinite
<1>2. /\ Cardinality(KeyEntries(o)) \in Nat /\ Cardinality(KeyEntries(o)') \in Nat
      /\ Cardinality(N) \in Nat
      /\ Cardinality(KeyEntries(o)') <= Cardinality(KeyEntries(o)) + Cardinality(N)
  BY <1>1, Grown
<1>3. /\ Cardinality(FurnitureEntries(o)) \in Nat /\ Cardinality(FurnitureEntries(o)') \in Nat
      /\ Cardinality(M) \in Nat
      /\ Cardinality(FurnitureEntries(o)') <= Cardinality(FurnitureEntries(o)) + Cardinality(M)
  BY <1>1, Grown
<1>4. /\ Count(o) = Cardinality(KeyEntries(o)) + Cardinality(FurnitureEntries(o))
      /\ Count(o)' = Cardinality(KeyEntries(o)') + Cardinality(FurnitureEntries(o)')
  BY DEF Count
<1> QED
  BY <1>2, <1>3, <1>4

(* Nothing is added.                                                       *)
LEMMA CountDoesNotGrow ==
  ASSUME NEW o \in Objects, DOMAIN furniture \in SUBSET Subscribers,
         KeyEntries(o)' \in SUBSET KeyEntries(o),
         FurnitureEntries(o)' \in SUBSET FurnitureEntries(o)
  PROVE  Count(o) \in Nat /\ Count(o)' \in Nat /\ Count(o)' <= Count(o)
PROOF
<1>1. IsFiniteSet({}) /\ Cardinality({}) = 0
  BY FS_EmptySet
<1>2. KeyEntries(o)' \in SUBSET (KeyEntries(o) \cup {}) /\ FurnitureEntries(o)' \in SUBSET (FurnitureEntries(o) \cup {})
  OBVIOUS
<1>3. Count(o) \in Nat /\ Count(o)' \in Nat /\ Count(o)' <= Count(o) + Cardinality({}) + Cardinality({})
  BY <1>1, <1>2, CountGrows
<1> QED
  BY <1>1, <1>3

(* A reference is taken for what is added.                                  *)
LEMMA AddedReference ==
  ASSUME RegTypeOK, RegisteredAreReferenced, NEW s \in Subscribers, NEW new \in BOOLEAN,
         refs' = AddRef(s, new),
         \A o \in Objects :
           \/ KeyEntries(o)' \in SUBSET KeyEntries(o)
           \/ new /\ s[1] = o /\ \E x : KeyEntries(o)' \in SUBSET (KeyEntries(o) \cup {x})
                                     /\ FurnitureEntries(o)' \in SUBSET FurnitureEntries(o),
         \A o \in Objects :
           \/ FurnitureEntries(o)' \in SUBSET FurnitureEntries(o)
           \/ new /\ s[1] = o /\ \E x : FurnitureEntries(o)' \in SUBSET (FurnitureEntries(o) \cup {x})
                                     /\ KeyEntries(o)' \in SUBSET KeyEntries(o)
  PROVE  refs' \in [Objects -> Nat] /\ RegisteredAreReferenced'
PROOF
<1>1. s[1] \in Objects /\ refs \in [Objects -> Nat] /\ DOMAIN furniture \in SUBSET Subscribers
  BY FurnitureFacts DEF RegTypeOK, Subscribers
<1>2. refs' = [refs EXCEPT ![s[1]] = IF new THEN @ + 1 ELSE @]
  BY DEF AddRef
<1>3. refs' \in [Objects -> Nat]
  BY <1>1, <1>2
<1>4. ASSUME NEW o \in Objects PROVE Count(o)' <= refs'[o]
  <2>1. Count(o) <= refs[o]
    BY DEF RegisteredAreReferenced
  <2>2. refs'[o] = IF new /\ s[1] = o THEN refs[o] + 1 ELSE refs[o]
    BY <1>1, <1>2
  <2>3. refs[o] \in Nat
    BY <1>1
  <2>4. CASE KeyEntries(o)' \in SUBSET KeyEntries(o) /\ FurnitureEntries(o)' \in SUBSET FurnitureEntries(o)
    BY <1>1, <2>1, <2>2, <2>3, <2>4, CountDoesNotGrow
  <2>5. ASSUME new, s[1] = o, NEW x, KeyEntries(o)' \in SUBSET (KeyEntries(o) \cup {x}),
               FurnitureEntries(o)' \in SUBSET FurnitureEntries(o)
        PROVE  Count(o)' <= refs'[o]
    <3>1. /\ IsFiniteSet({x}) /\ Cardinality({x}) = 1 /\ IsFiniteSet({}) /\ Cardinality({}) = 0
          /\ FurnitureEntries(o)' \in SUBSET (FurnitureEntries(o) \cup {})
      BY <2>5, FS_Singleton, FS_EmptySet
    <3>2. /\ Count(o) \in Nat /\ Count(o)' \in Nat
          /\ Count(o)' <= Count(o) + Cardinality({x}) + Cardinality({})
      BY <1>1, <2>5, <3>1, CountGrows
    <3>3. QED
      BY <2>1, <2>2, <2>3, <2>5, <3>1, <3>2
  <2>6. ASSUME new, s[1] = o, NEW x, FurnitureEntries(o)' \in SUBSET (FurnitureEntries(o) \cup {x}),
               KeyEntries(o)' \in SUBSET KeyEntries(o)
        PROVE  Count(o)' <= refs'[o]
    <3>1. /\ IsFiniteSet({x}) /\ Cardinality({x}) = 1 /\ IsFiniteSet({}) /\ Cardinality({}) = 0
          /\ KeyEntries(o)' \in SUBSET (KeyEntries(o) \cup {})
      BY <2>6, FS_Singleton, FS_EmptySet
    <3>2. /\ Count(o) \in Nat /\ Count(o)' \in Nat
          /\ Count(o)' <= Count(o) + Cardinality({}) + Cardinality({x})
      BY <1>1, <2>6, <3>1, CountGrows
    <3>3. QED
      BY <2>1, <2>2, <2>3, <2>6, <3>1, <3>2
  <2>7. QED
    BY <2>4, <2>5, <2>6
<1> QED
  BY <1>3, <1>4 DEF RegisteredAreReferenced

LEMMA RegisterRefs ==
  ASSUME RegTypeOK, RegisteredAreReferenced, NEW h \in Holders \X Keys, NEW s \in Subscribers,
         RegisterFor(h, s)
  PROVE  registered' \in Registrations /\ refs' \in [Objects -> Nat] /\ RegisteredAreReferenced'
PROOF
<1>1. /\ refs' = AddRef(s, s \notin registered[h]) /\ furniture' = furniture
      /\ registered' = [registered EXCEPT ![h] = @ \cup {s}]
  BY DEF RegisterFor
<1>2. registered \in [Holders \X Keys -> SUBSET Subscribers]
  BY DEF RegTypeOK, Registrations
<1>3. registered' \in Registrations
  BY <1>1, <1>2 DEF Registrations
<1>4. \A o \in Objects : FurnitureEntries(o)' = FurnitureEntries(o)
  BY <1>1 DEF FurnitureEntries
<1>5. ASSUME NEW o \in Objects
      PROVE  /\ KeyEntries(o)' \in SUBSET (KeyEntries(o) \cup {<<h, s>>})
             /\ ~(s \notin registered[h] /\ s[1] = o) => KeyEntries(o)' \in SUBSET KeyEntries(o)
  <2>1. ASSUME NEW e \in KeyEntries(o)', e \notin KeyEntries(o)
        PROVE  e = <<h, s>> /\ s[1] = o /\ s \notin registered[h]
    <3>1. /\ e \in (Holders \X Keys) \X Subscribers /\ e[2] \in registered'[e[1]] /\ e[2][1] = o
      BY <2>1 DEF KeyEntries
    <3>2. e[2] \notin registered[e[1]]
      BY <2>1, <3>1 DEF KeyEntries
    <3>3. e[1] = h /\ e[2] = s
      BY <1>1, <1>2, <3>1, <3>2
    <3>4. e = <<e[1], e[2]>>
      BY <3>1
    <3>5. QED
      BY <3>1, <3>2, <3>3, <3>4
  <2>2. QED
    BY <2>1
<1> DEFINE new == s \notin registered[h]
<1>6. new \in BOOLEAN /\ refs' = AddRef(s, new)
  BY <1>1
<1>7. \A o \in Objects :
        \/ KeyEntries(o)' \in SUBSET KeyEntries(o)
        \/ new /\ s[1] = o /\ \E x : KeyEntries(o)' \in SUBSET (KeyEntries(o) \cup {x})
                                  /\ FurnitureEntries(o)' \in SUBSET FurnitureEntries(o)
  BY <1>4, <1>5
<1>8. \A o \in Objects : FurnitureEntries(o)' \in SUBSET FurnitureEntries(o)
  BY <1>4
<1> HIDE DEF new
<1> QED
  BY <1>3, <1>6, <1>7, <1>8, AddedReference

LEMMA RegisterForFurnitureRefs ==
  ASSUME RegTypeOK, RegisteredAreReferenced, NEW s \in Subscribers, NEW o \in Objects \cup {Gone},
         RegisterForFurnitureEvent(s, o)
  PROVE  furniture' \in Furniture /\ refs' \in [Objects -> Nat] /\ RegisteredAreReferenced'
PROOF
<1>0. registered' = registered
  BY DEF RegisterForFurnitureEvent
<1>1. furniture \in Furniture /\ refs \in [Objects -> Nat]
  BY DEF RegTypeOK
<1>2. CASE o = Gone
  <2>1. furniture' = furniture /\ refs' = refs
    BY <1>2 DEF RegisterForFurnitureEvent
  <2>2. RegisteredAreReferenced' <=> RegisteredAreReferenced
    BY <1>0, <2>1 DEF RegisteredAreReferenced, Count, KeyEntries, FurnitureEntries
  <2>3. QED
    BY <1>1, <2>1, <2>2
<1>3. CASE o # Gone
  <2>1. refs' = AddRef(s, s \notin DOMAIN furniture) /\ furniture' = Inserted(s, {})
    BY <1>3 DEF RegisterForFurnitureEvent
  <2>2. /\ DOMAIN furniture' = DOMAIN furniture \cup {s}
        /\ furniture' = [t \in DOMAIN furniture' |-> furniture'[t]]
        /\ \A t \in DOMAIN furniture' : furniture'[t] = IF t \in DOMAIN furniture THEN furniture[t] ELSE {}
    BY <2>1 DEF Inserted
  <2>3. furniture' \in Furniture
    BY <1>1, <2>2, FurnitureFacts
  <2>4. \A k \in Objects : KeyEntries(k)' = KeyEntries(k)
    BY <1>0 DEF KeyEntries
  <2>5. \A k \in Objects :
          /\ FurnitureEntries(k)' \in SUBSET (FurnitureEntries(k) \cup {s})
          /\ ~(s \notin DOMAIN furniture /\ s[1] = k) => FurnitureEntries(k)' \in SUBSET FurnitureEntries(k)
    BY <2>2 DEF FurnitureEntries
  <2> DEFINE new == s \notin DOMAIN furniture
  <2>6. new \in BOOLEAN /\ refs' = AddRef(s, new)
    BY <2>1
  <2>7. \A k \in Objects :
          \/ FurnitureEntries(k)' \in SUBSET FurnitureEntries(k)
          \/ new /\ s[1] = k /\ \E x : FurnitureEntries(k)' \in SUBSET (FurnitureEntries(k) \cup {x})
                                    /\ KeyEntries(k)' \in SUBSET KeyEntries(k)
    BY <2>4, <2>5
  <2>8. \A k \in Objects : KeyEntries(k)' \in SUBSET KeyEntries(k)
    BY <2>4
  <2> HIDE DEF new
  <2>9. QED
    BY <2>3, <2>6, <2>7, <2>8, AddedReference
<1> QED
  BY <1>2, <1>3

LEMMA Removed ==
  ASSUME NEW A, NEW B, NEW x, IsFiniteSet(A), x \in A, B \in SUBSET (A \ {x})
  PROVE  /\ Cardinality(A) \in Nat /\ Cardinality(B) \in Nat /\ Cardinality(B) + 1 <= Cardinality(A)
PROOF
<1>1. IsFiniteSet(A \ {x}) /\ Cardinality(A \ {x}) = Cardinality(A) - 1
  BY FS_RemoveElement
<1>2. IsFiniteSet(B) /\ Cardinality(B) <= Cardinality(A \ {x})
  BY <1>1, FS_Subset
<1>3. Cardinality(A) \in Nat /\ Cardinality(B) \in Nat
  BY <1>2, FS_CardinalityType
<1> QED
  BY <1>1, <1>2, <1>3

(* An object that is registered has a reference to give back.              *)
LEMMA ReleasedReference ==
  ASSUME RegTypeOK, RegisteredAreReferenced, NEW s \in Subscribers, NEW there \in BOOLEAN,
         refs' = ReleaseRef(s, there),
         \A o \in Objects : /\ KeyEntries(o)' \in SUBSET KeyEntries(o)
                            /\ FurnitureEntries(o)' \in SUBSET FurnitureEntries(o),
         there => \/ \E x \in KeyEntries(s[1]) : x \notin KeyEntries(s[1])'
                  \/ \E x \in FurnitureEntries(s[1]) : x \notin FurnitureEntries(s[1])'
  PROVE  refs' \in [Objects -> Nat] /\ RegisteredAreReferenced'
PROOF
<1>1. s[1] \in Objects /\ refs \in [Objects -> Nat] /\ DOMAIN furniture \in SUBSET Subscribers
  BY FurnitureFacts DEF RegTypeOK, Subscribers
<1>2. refs' = [refs EXCEPT ![s[1]] = IF there THEN @ - 1 ELSE @]
  BY DEF ReleaseRef
<1>3. ASSUME NEW o \in Objects
      PROVE  /\ Count(o) \in Nat /\ Count(o)' \in Nat /\ Count(o)' <= Count(o) /\ Count(o) <= refs[o]
  BY <1>1, CountDoesNotGrow DEF RegisteredAreReferenced
<1>4. ASSUME there PROVE Count(s[1])' + 1 <= Count(s[1])
  <2> DEFINE o == s[1]
  <2>1. /\ IsFiniteSet(KeyEntries(o)) /\ IsFiniteSet(FurnitureEntries(o)) /\ IsFiniteSet({})
        /\ Cardinality({}) = 0
    BY <1>1, EntriesAreFinite, FS_EmptySet
  <2>2. /\ KeyEntries(o)' \in SUBSET KeyEntries(o) /\ FurnitureEntries(o)' \in SUBSET FurnitureEntries(o)
        /\ \/ \E x \in KeyEntries(o) : x \notin KeyEntries(o)'
           \/ \E x \in FurnitureEntries(o) : x \notin FurnitureEntries(o)'
    BY <1>1, <1>4
  <2>3. /\ Count(o) = Cardinality(KeyEntries(o)) + Cardinality(FurnitureEntries(o))
        /\ Count(o)' = Cardinality(KeyEntries(o)') + Cardinality(FurnitureEntries(o)')
    BY <1>2 DEF Count
  <2> HIDE DEF o
  <2>4. /\ KeyEntries(o)' \in SUBSET (KeyEntries(o) \cup {})
        /\ FurnitureEntries(o)' \in SUBSET (FurnitureEntries(o) \cup {})
    BY <2>2
  <2>5. /\ Cardinality(KeyEntries(o)) \in Nat /\ Cardinality(KeyEntries(o)') \in Nat
        /\ Cardinality(KeyEntries(o)') <= Cardinality(KeyEntries(o)) + 0
    BY <2>1, <2>4, Grown
  <2>6. /\ Cardinality(FurnitureEntries(o)) \in Nat /\ Cardinality(FurnitureEntries(o)') \in Nat
        /\ Cardinality(FurnitureEntries(o)') <= Cardinality(FurnitureEntries(o)) + 0
    BY <2>1, <2>4, Grown
  <2>7. ASSUME NEW x \in KeyEntries(o), x \notin KeyEntries(o)' PROVE Count(o)' + 1 <= Count(o)
    <3>1. KeyEntries(o)' \in SUBSET (KeyEntries(o) \ {x})
      BY <2>2, <2>7
    <3>2. Cardinality(KeyEntries(o)') + 1 <= Cardinality(KeyEntries(o))
      BY <2>1, <2>7, <3>1, Removed
    <3>3. QED
      BY <2>3, <2>5, <2>6, <3>2
  <2>8. ASSUME NEW x \in FurnitureEntries(o), x \notin FurnitureEntries(o)' PROVE Count(o)' + 1 <= Count(o)
    <3>1. FurnitureEntries(o)' \in SUBSET (FurnitureEntries(o) \ {x})
      BY <2>2, <2>8
    <3>2. Cardinality(FurnitureEntries(o)') + 1 <= Cardinality(FurnitureEntries(o))
      BY <2>1, <2>8, <3>1, Removed
    <3>3. QED
      BY <2>3, <2>5, <2>6, <3>2
  <2>9. QED
    BY <2>2, <2>7, <2>8 DEF o
<1>5. ASSUME NEW o \in Objects PROVE refs'[o] \in Nat /\ Count(o)' <= refs'[o]
  <2>1. refs'[o] = IF there /\ s[1] = o THEN refs[o] - 1 ELSE refs[o]
    BY <1>1, <1>2
  <2>2. refs[o] \in Nat
    BY <1>1
  <2>3. CASE there /\ s[1] = o
    BY <1>3, <1>4, <2>1, <2>2, <2>3
  <2>4. CASE ~(there /\ s[1] = o)
    BY <1>3, <2>1, <2>2, <2>4
  <2>5. QED
    BY <2>3, <2>4
<1>6. refs' \in [Objects -> Nat]
  <2>1. refs' = [o \in Objects |-> refs'[o]]
    BY <1>1, <1>2
  <2>2. QED
    BY <1>5, <2>1
<1> QED
  BY <1>5, <1>6 DEF RegisteredAreReferenced

LEMMA UnregisterRefs ==
  ASSUME RegTypeOK, RegisteredAreReferenced, NEW h \in Holders \X Keys, NEW s \in Subscribers,
         UnregisterFor(h, s)
  PROVE  registered' \in Registrations /\ refs' \in [Objects -> Nat] /\ RegisteredAreReferenced'
PROOF
<1>1. /\ refs' = ReleaseRef(s, s \in registered[h]) /\ furniture' = furniture
      /\ registered' = [registered EXCEPT ![h] = @ \ {s}]
  BY DEF UnregisterFor
<1>2. registered \in [Holders \X Keys -> SUBSET Subscribers]
  BY DEF RegTypeOK, Registrations
<1>3. registered' \in Registrations
  BY <1>1, <1>2 DEF Registrations
<1>4. \A o \in Objects : FurnitureEntries(o)' = FurnitureEntries(o)
  BY <1>1 DEF FurnitureEntries
<1>5. \A k \in Holders \X Keys : registered'[k] = IF k = h THEN registered[k] \ {s} ELSE registered[k]
  BY <1>1, <1>2
<1>6. \A o \in Objects : KeyEntries(o)' \in SUBSET KeyEntries(o)
  BY <1>5 DEF KeyEntries
<1> DEFINE there == s \in registered[h]
<1>7. there => \E x \in KeyEntries(s[1]) : x \notin KeyEntries(s[1])'
  <2> SUFFICES ASSUME there PROVE <<h, s>> \in KeyEntries(s[1]) /\ <<h, s>> \notin KeyEntries(s[1])'
    OBVIOUS
  <2>1. <<h, s>> \in (Holders \X Keys) \X Subscribers /\ <<h, s>>[1] = h /\ <<h, s>>[2] = s
    OBVIOUS
  <2>2. s \notin registered'[h]
    BY <1>5
  <2>3. QED
    BY <2>1, <2>2 DEF KeyEntries
<1>8. there \in BOOLEAN /\ refs' = ReleaseRef(s, there)
  BY <1>1
<1> HIDE DEF there
<1>9. \A o \in Objects : /\ KeyEntries(o)' \in SUBSET KeyEntries(o)
                         /\ FurnitureEntries(o)' \in SUBSET FurnitureEntries(o)
  BY <1>4, <1>6
<1> QED
  BY <1>3, <1>7, <1>8, <1>9, ReleasedReference

LEMMA UnregisterForFurnitureRefs ==
  ASSUME RegTypeOK, RegisteredAreReferenced, NEW s \in Subscribers, NEW o \in Objects \cup {Gone},
         UnregisterForFurnitureEvent(s, o)
  PROVE  furniture' \in Furniture /\ refs' \in [Objects -> Nat] /\ RegisteredAreReferenced'
PROOF
<1>0. registered' = registered
  BY DEF UnregisterForFurnitureEvent
<1>1. furniture \in Furniture /\ refs \in [Objects -> Nat]
  BY DEF RegTypeOK
<1>2. CASE o # Gone
  <2>1. /\ refs' = refs
        /\ furniture' = [t \in DOMAIN furniture |-> IF t = s THEN furniture[t] \ {o} ELSE furniture[t]]
    BY <1>2 DEF UnregisterForFurnitureEvent
  <2>2. /\ DOMAIN furniture' = DOMAIN furniture /\ furniture' = [t \in DOMAIN furniture' |-> furniture'[t]]
        /\ \A t \in DOMAIN furniture' : furniture'[t] \in SUBSET furniture[t]
    BY <2>1
  <2>3. furniture' \in Furniture
    BY <1>1, <2>2, FurnitureFacts
  <2>4. RegisteredAreReferenced' <=> RegisteredAreReferenced
    BY <1>0, <2>1, <2>2 DEF RegisteredAreReferenced, Count, KeyEntries, FurnitureEntries
  <2>5. QED
    BY <1>1, <2>1, <2>3, <2>4
<1>3. CASE o = Gone
  <2> DEFINE there == s \in DOMAIN furniture
  <2>1. /\ refs' = ReleaseRef(s, s \in DOMAIN furniture)
        /\ furniture' = [t \in DOMAIN furniture \ {s} |-> furniture[t]]
    BY <1>3 DEF UnregisterForFurnitureEvent
  <2>2. /\ DOMAIN furniture' = DOMAIN furniture \ {s} /\ furniture' = [t \in DOMAIN furniture' |-> furniture'[t]]
        /\ \A t \in DOMAIN furniture' : furniture'[t] = furniture[t]
    BY <2>1
  <2>3. furniture' \in Furniture
    BY <1>1, <2>2, FurnitureFacts
  <2>4. \A k \in Objects : /\ KeyEntries(k)' \in SUBSET KeyEntries(k)
                           /\ FurnitureEntries(k)' \in SUBSET FurnitureEntries(k)
    BY <1>0, <2>2 DEF KeyEntries, FurnitureEntries
  <2>5. there => \E x \in FurnitureEntries(s[1]) : x \notin FurnitureEntries(s[1])'
    BY <2>2 DEF FurnitureEntries
  <2>6. there \in BOOLEAN /\ refs' = ReleaseRef(s, there)
    BY <2>1
  <2> HIDE DEF there
  <2>7. QED
    BY <2>3, <2>4, <2>5, <2>6, ReleasedReference
<1> QED
  BY <1>2, <1>3

(* What survives a load is a subscriber again.                             *)
LEMMA MovedSubscribers ==
  ASSUME RegTypeOK, NEW S \in SUBSET Subscribers
  PROVE  {Moved(s) : s \in {t \in S : Survives(t)}} \in SUBSET Subscribers
PROOF
<1>1. resolve \in [Objects -> Objects \cup {Gone}]
  BY DEF RegTypeOK, Resolution
<1>2. ASSUME NEW s \in S, Survives(s) PROVE Moved(s) \in Subscribers
  <2>1. s[1] \in Objects /\ s[2] \in Scripts /\ resolve[s[1]] # Gone
    BY <1>2 DEF Survives, Subscribers
  <2>2. resolve[s[1]] \in Objects
    BY <1>1, <2>1
  <2>3. QED
    BY <2>1, <2>2 DEF Moved, Subscribers
<1> QED
  BY <1>2

LEMMA LoadKeyRefs ==
  ASSUME RegTypeOK, RegisteredAreReferenced, NEW record, LoadKey(record),
         holder \in Holders, record.key \in Keys, record.regs \in SUBSET Subscribers
  PROVE  registered' \in Registrations /\ refs' \in [Objects -> Nat] /\ RegisteredAreReferenced'
PROOF
<1> DEFINE h == <<holder, record.key>>
           new == {Moved(s) : s \in {t \in record.regs : Survives(t)}}
           added(o) == {s \in new \ registered[h] : s[1] = o}
<1>1. /\ registered' = [registered EXCEPT ![h] = @ \cup new]
      /\ refs' = [o \in Objects |-> refs[o] + Cardinality(added(o))]
      /\ furniture' = furniture
  BY DEF LoadKey
<1>2. /\ registered \in [Holders \X Keys -> SUBSET Subscribers] /\ h \in Holders \X Keys
      /\ refs \in [Objects -> Nat] /\ DOMAIN furniture \in SUBSET Subscribers
  BY FurnitureFacts DEF RegTypeOK, Registrations
<1>3. new \in SUBSET Subscribers
  BY MovedSubscribers
<1> HIDE DEF new, h
<1>4. registered' \in Registrations
  BY <1>1, <1>2, <1>3 DEF Registrations
<1>5. IsFiniteSet(Subscribers)
  BY RegAssumption, FS_Product DEF Subscribers
<1>6. ASSUME NEW o \in Objects
      PROVE  /\ Cardinality(added(o)) \in Nat
             /\ Count(o) \in Nat /\ Count(o)' \in Nat /\ Count(o)' <= Count(o) + Cardinality(added(o))
  <2>1. added(o) \in SUBSET Subscribers
    BY <1>3
  <2>2. IsFiniteSet(added(o)) /\ Cardinality(added(o)) \in Nat
    BY <1>5, <2>1, FS_Subset, FS_CardinalityType
  <2>3. FurnitureEntries(o)' \in SUBSET (FurnitureEntries(o) \cup {})
    BY <1>1 DEF FurnitureEntries
  <2> DEFINE N == {h} \X added(o)
  <2>4. KeyEntries(o)' \in SUBSET (KeyEntries(o) \cup N)
    <3>1. ASSUME NEW e \in KeyEntries(o)', e \notin KeyEntries(o) PROVE e \in N
      <4>1. e \in (Holders \X Keys) \X Subscribers /\ e[2] \in registered'[e[1]] /\ e[2][1] = o
        BY <3>1 DEF KeyEntries
      <4>2. e[2] \notin registered[e[1]]
        BY <3>1, <4>1 DEF KeyEntries
      <4>3. e[1] = h /\ e[2] \in new
        BY <1>1, <1>2, <4>1, <4>2
      <4>4. e = <<e[1], e[2]>> /\ e[2] \in added(o)
        BY <4>1, <4>2, <4>3
      <4>5. QED
        BY <4>3, <4>4
    <3>2. QED
      BY <3>1
  <2>5. IsFiniteSet(N) /\ Cardinality(N) = Cardinality({h}) * Cardinality(added(o))
    BY <2>2, FS_Singleton, FS_Product
  <2>6. Cardinality({h}) = 1 /\ IsFiniteSet({}) /\ Cardinality({}) = 0
    BY FS_Singleton, FS_EmptySet
  <2> HIDE DEF N, added
  <2>7. Cardinality(N) = Cardinality(added(o))
    BY <2>2, <2>5, <2>6
  <2>8. /\ Count(o) \in Nat /\ Count(o)' \in Nat
        /\ Count(o)' <= Count(o) + Cardinality(N) + Cardinality({})
    BY <1>2, <2>3, <2>4, <2>5, <2>6, CountGrows
  <2>9. QED
    BY <2>2, <2>6, <2>7, <2>8
<1> HIDE DEF added
<1>7. ASSUME NEW o \in Objects PROVE refs'[o] \in Nat /\ Count(o)' <= refs'[o]
  <2>1. refs'[o] = refs[o] + Cardinality(added(o)) /\ refs[o] \in Nat
    BY <1>1, <1>2
  <2>2. Count(o) <= refs[o]
    BY DEF RegisteredAreReferenced
  <2>3. QED
    BY <1>6, <2>1, <2>2
<1>8. refs' \in [Objects -> Nat]
  <2>1. refs' = [o \in Objects |-> refs'[o]]
    BY <1>1
  <2>2. QED
    BY <1>7, <2>1
<1> QED
  BY <1>4, <1>7, <1>8 DEF RegisteredAreReferenced

LEMMA LoadFurnitureRefs ==
  ASSUME RegTypeOK, RegisteredAreReferenced, NEW filters \in Furniture, LoadFurniture(filters)
  PROVE  /\ furniture' \in Furniture /\ refs' \in [Objects -> Nat] /\ RegisteredAreReferenced'
         /\ DOMAIN furniture' = DOMAIN furniture
              \cup {Moved(s) : s \in {t \in DOMAIN filters : Survives(t)}}
PROOF
<1> DEFINE new == {Moved(t) : t \in {u \in DOMAIN filters : Survives(u)}}
           old(s) == CHOOSE t \in DOMAIN filters : Survives(t) /\ Moved(t) = s
           added(o) == {s \in new \ DOMAIN furniture : s[1] = o}
<1>1. /\ furniture' = [s \in new \cup DOMAIN furniture |->
             IF s \in DOMAIN furniture THEN furniture[s]
             ELSE {resolve[o] : o \in filters[old(s)]} \ {Gone}]
      /\ refs' = [o \in Objects |-> refs[o] + Cardinality(added(o))]
      /\ registered' = registered
  BY DEF LoadFurniture
<1>2. /\ DOMAIN furniture' = new \cup DOMAIN furniture
      /\ furniture' = [s \in DOMAIN furniture' |-> furniture'[s]]
      /\ \A s \in DOMAIN furniture' : s \in DOMAIN furniture => furniture'[s] = furniture[s]
      /\ \A s \in DOMAIN furniture' : s \notin DOMAIN furniture =>
           furniture'[s] = {resolve[o] : o \in filters[old(s)]} \ {Gone}
  BY <1>1
<1>3. /\ refs \in [Objects -> Nat] /\ DOMAIN furniture \in SUBSET Subscribers
      /\ \A s \in DOMAIN furniture : furniture[s] \in SUBSET Objects
      /\ DOMAIN filters \in SUBSET Subscribers
      /\ \A s \in DOMAIN filters : filters[s] \in SUBSET Objects
      /\ resolve \in [Objects -> Objects \cup {Gone}]
  BY FurnitureFacts DEF RegTypeOK, Resolution
<1>4. new \in SUBSET Subscribers
  BY <1>3, MovedSubscribers
<1>5. ASSUME NEW s \in DOMAIN furniture' PROVE furniture'[s] \in SUBSET Objects
  <2>1. CASE s \in DOMAIN furniture
    BY <1>2, <1>3, <2>1
  <2>2. CASE s \notin DOMAIN furniture
    <3>1. \E t \in DOMAIN filters : Survives(t) /\ Moved(t) = s
      BY <1>2, <2>2
    <3>2. old(s) \in DOMAIN filters
      BY <3>1
    <3>3. \A o \in filters[old(s)] : resolve[o] \in Objects \cup {Gone}
      BY <1>3, <3>2
    <3>4. QED
      BY <1>2, <2>2, <3>3
  <2>3. QED
    BY <2>1, <2>2
<1> HIDE DEF new, old
<1>6. furniture' \in Furniture
  BY <1>2, <1>3, <1>4, <1>5, FurnitureFacts
<1>7. IsFiniteSet(Subscribers)
  BY RegAssumption, FS_Product DEF Subscribers
<1>8. ASSUME NEW o \in Objects
      PROVE  /\ Cardinality(added(o)) \in Nat
             /\ Count(o) \in Nat /\ Count(o)' \in Nat /\ Count(o)' <= Count(o) + Cardinality(added(o))
  <2>1. added(o) \in SUBSET Subscribers
    BY <1>4
  <2>2. IsFiniteSet(added(o)) /\ Cardinality(added(o)) \in Nat
    BY <1>7, <2>1, FS_Subset, FS_CardinalityType
  <2>3. KeyEntries(o)' \in SUBSET (KeyEntries(o) \cup {})
    BY <1>1 DEF KeyEntries
  <2>4. FurnitureEntries(o)' \in SUBSET (FurnitureEntries(o) \cup added(o))
    BY <1>2 DEF FurnitureEntries
  <2>5. IsFiniteSet({}) /\ Cardinality({}) = 0
    BY FS_EmptySet
  <2> HIDE DEF added
  <2>6. /\ Count(o) \in Nat /\ Count(o)' \in Nat
        /\ Count(o)' <= Count(o) + Cardinality({}) + Cardinality(added(o))
    BY <1>3, <2>2, <2>3, <2>4, <2>5, CountGrows
  <2>7. QED
    BY <2>2, <2>5, <2>6
<1> HIDE DEF added
<1>9. ASSUME NEW o \in Objects PROVE refs'[o] \in Nat /\ Count(o)' <= refs'[o]
  <2>1. refs'[o] = refs[o] + Cardinality(added(o)) /\ refs[o] \in Nat
    BY <1>1, <1>3
  <2>2. Count(o) <= refs[o]
    BY DEF RegisteredAreReferenced
  <2>3. QED
    BY <1>8, <2>1, <2>2
<1>10. refs' \in [Objects -> Nat]
  <2>1. refs' = [o \in Objects |-> refs'[o]]
    BY <1>1
  <2>2. QED
    BY <1>9, <2>1
<1>11. DOMAIN furniture' = DOMAIN furniture
         \cup {Moved(s) : s \in {t \in DOMAIN filters : Survives(t)}}
  BY <1>2 DEF new
<1> QED
  BY <1>6, <1>9, <1>10, <1>11 DEF RegisteredAreReferenced

-----------------------------------------------------------------------------
(* The steps.                                                              *)
LEMMA SavedStays ==
  ASSUME saved' = saved
  PROVE  /\ \A h : UsedBy(h)' = UsedBy(h) /\ HolderAt(h)' = HolderAt(h) /\ HolderEnd(h)' = HolderEnd(h)
         /\ FurnitureAt' = FurnitureAt
PROOF
<1>1. \A h : UsedBy(h)' = UsedBy(h)
  BY DEF UsedBy
<1>2. \A h : HolderAt(h)' = HolderAt(h)
  BY <1>1 DEF HolderAt
<1>3. \A h : HolderEnd(h)' = HolderEnd(h)
  BY <1>1, <1>2 DEF HolderEnd
<1> QED
  BY <1>1, <1>2, <1>3 DEF FurnitureAt

LEMMA LoadedStays ==
  ASSUME saved' = saved, resolve' = resolve, missing' = missing
  PROVE  /\ \A h : Loaded(h)' = Loaded(h)
         /\ LoadedFurniture' = LoadedFurniture
PROOF
  BY DEF Loaded, LoadedFurniture, Survives, Moved

LEMMA ScriptStep ==
  ASSUME RegInv, ScriptCalls, registered' \in Registrations, furniture' \in Furniture,
         refs' \in [Objects -> Nat], RegisteredAreReferenced',
         wanted' \in [Subscribers -> SUBSET (Objects \cup {"all"})]
  PROVE  RegInv'
PROOF
<1>1. /\ reading' = 0 /\ restored' = FALSE /\ reverted' = FALSE /\ calls' \in 0..MaxCalls
      /\ loads' = loads /\ saved' = saved /\ records' = records
      /\ holder' = holder /\ resolve' = resolve /\ missing' = missing
  BY RegAssumption DEF ScriptCalls, load, RegInv, RegTypeOK
<1>2. RegTypeOK'
  <2>1. 0 \in 0..Len(records) + 1
    BY <1>1 DEF RegInv, RegTypeOK, ScriptCalls
  <2>2. QED
    BY <1>1, <2>1 DEF RegInv, RegTypeOK
<1>3. RegRecordsInv'
  BY <1>1 DEF RegInv, RegRecordsInv
<1>4. RegLoadingInv' /\ LoadRestores'
  BY <1>1 DEF RegLoadingInv, LoadRestores
<1> QED
  BY <1>2, <1>3, <1>4 DEF RegInv

LEMMA RevertStep == RegInv /\ Revert => RegInv'
PROOF
<1> SUFFICES ASSUME RegInv, Revert PROVE RegInv'
  OBVIOUS
<1>1. /\ reading' = 0 /\ restored' = FALSE /\ reverted' = TRUE /\ loads' \in 0..MaxLoads
      /\ calls' = calls /\ saved' = saved /\ records' = records /\ refs' = refs
      /\ holder' = holder /\ resolve' = resolve /\ missing' = missing
      /\ registered' = [h \in Holders \X Keys |-> {}] /\ furniture' = NoFilter
      /\ wanted' = [s \in Subscribers |-> {}]
  BY RegAssumption DEF Revert, load, RegInv, RegTypeOK
<1>2. DOMAIN furniture' = {} /\ furniture' \in Furniture /\ registered' \in Registrations
  <2>1. DOMAIN furniture' = {} /\ furniture' = [t \in DOMAIN furniture' |-> furniture'[t]]
    BY <1>1 DEF NoFilter
  <2>2. furniture' \in Furniture
    BY <2>1, FurnitureFacts
  <2>3. QED
    BY <1>1, <2>1, <2>2 DEF Registrations
<1>3. RegTypeOK'
  <2>1. 0 \in 0..Len(records) + 1
    BY DEF RegInv, RegTypeOK, Revert
  <2>2. QED
    BY <1>1, <1>2, <2>1 DEF RegInv, RegTypeOK
<1>4. RegRecordsInv'
  BY <1>1 DEF RegInv, RegRecordsInv
<1>5. RegLoadingInv' /\ LoadRestores'
  BY <1>1, <1>2 DEF RegLoadingInv, LoadRestores
<1>6. RegisteredAreReferenced'
  <2> SUFFICES ASSUME NEW o \in Objects PROVE Count(o)' <= refs'[o]
    BY DEF RegisteredAreReferenced
  <2>1. KeyEntries(o)' = {} /\ FurnitureEntries(o)' = {}
    BY <1>1, <1>2 DEF KeyEntries, FurnitureEntries
  <2>2. DOMAIN furniture \in SUBSET Subscribers /\ refs[o] \in Nat
    BY FurnitureFacts DEF RegInv, RegTypeOK
  <2>3. Count(o) \in Nat /\ Count(o)' \in Nat /\ Count(o)' <= Count(o)
    BY <2>1, <2>2, CountDoesNotGrow
  <2>4. Count(o) <= refs[o]
    BY DEF RegInv, RegisteredAreReferenced
  <2>5. QED
    BY <1>1, <2>2, <2>3, <2>4
<1> QED
  BY <1>3, <1>4, <1>5, <1>6 DEF RegInv

LEMMA SaveStep == RegInv /\ Save => RegInv'
PROOF
<1> SUFFICES ASSUME RegInv, Save PROVE RegInv'
  OBVIOUS
<1>1. /\ reading' = 0 /\ restored' = FALSE /\ reverted' = FALSE /\ loads' \in 0..MaxLoads
      /\ calls' = calls /\ refs' = refs /\ wanted' = wanted
      /\ holder' = holder /\ resolve' = resolve /\ missing' = missing
      /\ registered' = registered /\ furniture' = furniture
      /\ saved' = <<registered, furniture>> /\ records' = CoreRecords(registered, furniture)
  BY RegAssumption DEF Save, load, RegInv, RegTypeOK
<1>2. RegRecordsInv'
  BY <1>1 DEF RegInv, RegTypeOK, RegRecordsInv
<1>3. records' \in Seq(RegRecord)
  BY <1>1, CoreRecordsType DEF RegInv, RegTypeOK
<1>4. RegTypeOK'
  <2>1. 0 \in 0..Len(records') + 1
    BY <1>3
  <2>2. QED
    BY <1>1, <2>1 DEF RegInv, RegTypeOK
<1>5. RegLoadingInv' /\ LoadRestores'
  BY <1>1 DEF RegLoadingInv, LoadRestores
<1>6. RegisteredAreReferenced'
  BY <1>1 DEF RegInv, RegisteredAreReferenced, Count, KeyEntries, FurnitureEntries
<1> QED
  BY <1>2, <1>4, <1>5, <1>6 DEF RegInv

(* Nothing of a save is passed when a load begins, and everything at its   *)
(* end.                                                                    *)
LEMMA LoadBeginStep ==
  ASSUME RegInv, NEW answer \in Resolution, NEW gone \in SUBSET Scripts, LoadBegin(answer, gone)
  PROVE  RegInv'
PROOF
<1>1. /\ reading = 0 /\ reverted /\ records # <<>>
      /\ reading' = 1 /\ holder' = "core" /\ resolve' = answer /\ missing' = gone
      /\ UNCHANGED <<registered, furniture, refs, records, reverted, calls, loads, saved, restored, wanted>>
  BY DEF LoadBegin
<1>2. records \in Seq(RegRecord) /\ ~restored
  BY <1>1, SavedRecords DEF RegInv, RegLoadingInv
<1>3. RegTypeOK'
  <2>1. 1 \in 0..Len(records) + 1
    BY <1>2
  <2>2. QED
    BY <1>1, <2>1 DEF RegInv, RegTypeOK
<1>4. RegRecordsInv'
  BY <1>1 DEF RegInv, RegRecordsInv
<1>5. RegLoadingInv'
  <2>1. \A h : UsedBy(h)' = UsedBy(h) /\ HolderAt(h)' = HolderAt(h) /\ HolderEnd(h)' = HolderEnd(h)
    BY <1>1, SavedStays
  <2>2. FurnitureAt' = FurnitureAt
    BY <1>1, SavedStays
  <2>3. /\ FurnitureAt \in Nat
        /\ \A h \in Holders : /\ HolderAt(h) \in Nat /\ 1 <= HolderAt(h) /\ HolderEnd(h) < FurnitureAt
                              /\ HolderEnd(h) \in Nat /\ Len(UsedBy(h)) \in Nat
    BY Places DEF RegInv
  <2>4. \A h \in Holders : ~(HolderAt(h) < 1)
    BY <2>3
  <2>5. \A h \in Holders \X Keys : ~ Passed(h)'
    <3>1. ASSUME NEW h \in Holders \X Keys PROVE ~ \E i \in 1..Len(UsedBy(h[1])) : HolderAt(h[1]) + i < 1
      BY <2>3
    <3>2. QED
      BY <1>1, <2>1, <3>1 DEF Passed
  <2>6. ~(FurnitureAt < 1)
    <3>1. "KEYR" \in Holders
      BY DEF Holders
    <3>2. QED
      BY <2>3, <3>1
  <2>7. (\A h \in Holders \X Keys : registered[h] = {}) /\ DOMAIN furniture = {}
    BY <1>1 DEF RegInv, RegLoadingInv
  <2>8. \A h \in Holders : "core" # h
    BY DEF Holders
  <2>9. \A h \in Holders : holder' = h <=> HolderAt(h)' < reading' /\ reading' <= HolderEnd(h)'
    BY <1>1, <2>1, <2>4, <2>8
  <2>10. \A h \in Holders \X Keys : registered'[h] = IF Passed(h)' THEN Loaded(h)' ELSE {}
    BY <1>1, <2>5, <2>7
  <2>11. DOMAIN furniture' = IF FurnitureAt' < reading' THEN LoadedFurniture' ELSE {}
    BY <1>1, <2>2, <2>6, <2>7
  <2>12. QED
    BY <1>1, <1>2, <2>9, <2>10, <2>11 DEF RegLoadingInv
<1>6. LoadRestores'
  BY <1>1, <1>2 DEF LoadRestores
<1>7. RegisteredAreReferenced'
  BY <1>1 DEF RegInv, RegisteredAreReferenced, Count, KeyEntries, FurnitureEntries
<1> QED
  BY <1>3, <1>4, <1>5, <1>6, <1>7 DEF RegInv

LEMMA CoreLoadEndStep == RegInv /\ CoreLoadEnd => RegInv'
PROOF
<1> SUFFICES ASSUME RegInv, CoreLoadEnd PROVE RegInv'
  OBVIOUS
<1>1. /\ reading = Len(records) + 1 /\ records # <<>>
      /\ reading' = 0 /\ holder' = "core" /\ reverted' = FALSE /\ restored' = TRUE
      /\ wanted' = [s \in Subscribers |-> IF s \in DOMAIN furniture THEN {"all"} ELSE {}]
      /\ UNCHANGED <<registered, furniture, refs, records, resolve, missing, calls, loads, saved>>
  BY DEF CoreLoadEnd
<1>2. records \in Seq(RegRecord) /\ Len(records) = FurnitureAt
  BY <1>1, SavedRecords DEF RegInv
<1>3. reading # 0 /\ reading = FurnitureAt + 1 /\ FurnitureAt \in Nat
  BY <1>1, <1>2
<1>4. RegTypeOK'
  <2>1. 0 \in 0..Len(records) + 1
    BY <1>2
  <2>2. wanted' \in [Subscribers -> SUBSET (Objects \cup {"all"})]
    BY <1>1
  <2>3. QED
    BY <1>1, <2>1, <2>2 DEF RegInv, RegTypeOK
<1>5. RegRecordsInv'
  BY <1>1 DEF RegInv, RegRecordsInv
<1>6. RegLoadingInv'
  BY <1>1 DEF RegLoadingInv
<1>7. \A h \in Holders \X Keys : registered[h] = Loaded(h)
  <2> TAKE h \in Holders \X Keys
  <2>1. h[1] \in Holders /\ h[2] \in Keys /\ h = <<h[1], h[2]>>
    OBVIOUS
  <2>2. registered[h] = IF Passed(h) THEN Loaded(h) ELSE {}
    BY <1>3 DEF RegInv, RegLoadingInv
  <2>3. ASSUME saved[1][h] # {} PROVE Passed(h)
    <3>1. PICK i \in 1..Len(UsedBy(h[1])) : UsedBy(h[1])[i] = h[2]
      BY <2>1, <2>3, Places, UsedFacts DEF UsedBy, RegInv
    <3>2. /\ HolderAt(h[1]) \in Nat /\ HolderEnd(h[1]) = HolderAt(h[1]) + Len(UsedBy(h[1])) + 1
          /\ HolderEnd(h[1]) < FurnitureAt /\ Len(UsedBy(h[1])) \in Nat
      BY <2>1, Places DEF RegInv
    <3>3. HolderAt(h[1]) + i < reading
      BY <1>3, <3>2
    <3>4. QED
      BY <3>1, <3>3 DEF Passed
  <2>4. saved[1][h] = {} => Loaded(h) = {}
    BY DEF Loaded
  <2>5. QED
    BY <2>2, <2>3, <2>4
<1>8. DOMAIN furniture = LoadedFurniture
  <2>1. FurnitureAt < reading
    BY <1>3
  <2>2. QED
    BY <1>3, <2>1 DEF RegInv, RegLoadingInv
<1>9. LoadRestores'
  <2>1. (\A h : Loaded(h)' = Loaded(h)) /\ LoadedFurniture' = LoadedFurniture
    BY <1>1, LoadedStays
  <2>2. (\A h \in Holders \X Keys : registered'[h] = Loaded(h)') /\ DOMAIN furniture' = LoadedFurniture'
    BY <1>1, <1>7, <1>8, <2>1
  <2>3. QED
    BY <2>2 DEF LoadRestores, Loaded, LoadedFurniture
<1>10. RegisteredAreReferenced'
  BY <1>1 DEF RegInv, RegisteredAreReferenced, Count, KeyEntries, FurnitureEntries
<1> QED
  BY <1>4, <1>5, <1>6, <1>9, <1>10 DEF RegInv

LEMMA PassedStep ==
  ASSUME RegInv, reading # 0, reading' = reading + 1, saved' = saved, NEW h \in Holders \X Keys
  PROVE  Passed(h)' <=> Passed(h) \/ \E i \in 1..Len(UsedBy(h[1])) :
                                       HolderAt(h[1]) + i = reading /\ UsedBy(h[1])[i] = h[2]
PROOF
<1>1. UsedBy(h[1])' = UsedBy(h[1]) /\ HolderAt(h[1])' = HolderAt(h[1])
  BY SavedStays
<1>2. h[1] \in Holders
  OBVIOUS
<1>3. HolderAt(h[1]) \in Nat /\ Len(UsedBy(h[1])) \in Nat
  BY <1>2, Places DEF RegInv
<1>4. reading \in Nat
  BY DEF RegInv, RegTypeOK
<1>5. \A i \in 1..Len(UsedBy(h[1])) :
        HolderAt(h[1]) + i < reading + 1 <=> HolderAt(h[1]) + i < reading \/ HolderAt(h[1]) + i = reading
  BY <1>3, <1>4
<1>6. Passed(h)' <=> \E i \in 1..Len(UsedBy(h[1])) :
                       HolderAt(h[1]) + i < reading + 1 /\ UsedBy(h[1])[i] = h[2]
  BY <1>1 DEF Passed
<1> QED
  BY <1>5, <1>6 DEF Passed

LEMMA RecordStep ==
  ASSUME RegInv, LoadsOn,
         UNCHANGED <<records, resolve, missing, reverted, calls, loads, saved, restored, wanted>>,
         registered' \in Registrations, furniture' \in Furniture, refs' \in [Objects -> Nat],
         RegisteredAreReferenced', holder' \in Holders \cup {"core"},
         \A g \in Holders : holder' = g <=> HolderAt(g) <= reading /\ reading < HolderEnd(g),
         \A h \in Holders \X Keys : registered'[h] = IF Passed(h)' THEN Loaded(h) ELSE {},
         DOMAIN furniture' = IF FurnitureAt <= reading THEN LoadedFurniture ELSE {}
  PROVE  RegInv'
PROOF
<1>1. /\ reading \in Nat /\ reading # 0 /\ reading' = reading + 1 /\ reading <= Len(records)
      /\ reverted /\ records # <<>> /\ ~restored
  BY DEF LoadsOn, RegInv, RegTypeOK, RegLoadingInv
<1>2. records \in Seq(RegRecord)
  BY <1>1, SavedRecords DEF RegInv
<1>3. RegTypeOK'
  <2>1. reading + 1 \in 0..Len(records) + 1
    BY <1>1, <1>2
  <2>2. QED
    BY <1>1, <2>1 DEF RegInv, RegTypeOK
<1>4. RegRecordsInv'
  BY DEF RegInv, RegRecordsInv
<1>5. \A h : HolderAt(h)' = HolderAt(h) /\ HolderEnd(h)' = HolderEnd(h)
  BY SavedStays
<1>6. FurnitureAt' = FurnitureAt
  BY SavedStays
<1>7. /\ FurnitureAt \in Nat
      /\ \A g \in Holders : HolderAt(g) \in Nat /\ HolderEnd(g) \in Nat
  BY Places DEF RegInv
<1>8. \A g \in Holders : holder' = g <=> HolderAt(g)' < reading' /\ reading' <= HolderEnd(g)'
  BY <1>1, <1>5, <1>7
<1>9. \A h : Loaded(h)' = Loaded(h)
  BY LoadedStays
<1>10. LoadedFurniture' = LoadedFurniture
  BY LoadedStays
<1>11. \A h \in Holders \X Keys : registered'[h] = IF Passed(h)' THEN Loaded(h)' ELSE {}
  BY <1>9
<1>12. FurnitureAt' < reading' <=> FurnitureAt <= reading
  BY <1>1, <1>6, <1>7
<1>13. DOMAIN furniture' = IF FurnitureAt' < reading' THEN LoadedFurniture' ELSE {}
  BY <1>10, <1>12
<1>14. RegLoadingInv'
  <2>1. reverted' /\ records' # <<>> /\ ~restored' /\ reading' # 0
    BY <1>1
  <2>2. QED
    BY <1>8, <1>11, <1>13, <2>1 DEF RegLoadingInv
<1>15. LoadRestores'
  BY <1>1 DEF LoadRestores
<1> QED
  BY <1>3, <1>4, <1>14, <1>15 DEF RegInv

LEMMA LoadHolderRecordStep == RegInv /\ LoadHolderRecord => RegInv'
PROOF
<1> SUFFICES ASSUME RegInv, LoadHolderRecord PROVE RegInv'
  OBVIOUS
<1>1. /\ LoadsOn /\ holder \in Holders
      /\ UNCHANGED <<records, resolve, missing, reverted, calls, loads, saved, restored, wanted>>
  BY DEF LoadHolderRecord, RegInv, RegTypeOK
<1>2. /\ reading \in Nat /\ reading # 0 /\ reading' = reading + 1 /\ records # <<>>
  BY <1>1 DEF LoadsOn, RegInv, RegTypeOK, RegLoadingInv
<1>3. HolderAt(holder) < reading /\ reading <= HolderEnd(holder)
  BY <1>1, <1>2 DEF RegInv, RegLoadingInv
<1>4. /\ \A g \in Holders : /\ HolderAt(g) \in Nat /\ HolderEnd(g) \in Nat /\ Len(UsedBy(g)) \in Nat
                            /\ HolderEnd(g) = HolderAt(g) + Len(UsedBy(g)) + 1
                            /\ HolderEnd(g) < FurnitureAt
      /\ HolderAt("CTLR") = HolderEnd("KEYR") + 1 /\ FurnitureAt \in Nat
  BY Places DEF RegInv
<1>5. \A g \in Holders : g # holder => ~(HolderAt(g) <= reading /\ reading <= HolderEnd(g))
  BY <1>1, <1>2, <1>3, <1>4, SMTT(40) DEF Holders
<1>6. /\ records[HolderEnd(holder)] = [type |-> "REGE"]
      /\ \A i \in 1..Len(UsedBy(holder)) :
           records[HolderAt(holder) + i] = KeyRecord(saved[1], holder, UsedBy(holder)[i])
  BY <1>1, <1>2, SavedRecords DEF RegInv
<1>7. ~(FurnitureAt <= reading)
  BY <1>1, <1>2, <1>3, <1>4
<1>8. /\ \A h \in Holders \X Keys : registered[h] = IF Passed(h) THEN Loaded(h) ELSE {}
      /\ DOMAIN furniture = {}
  BY <1>2, <1>4, <1>7 DEF RegInv, RegLoadingInv
<1>9. \A h \in Holders \X Keys :
        Passed(h)' <=> Passed(h) \/ \E i \in 1..Len(UsedBy(h[1])) :
                                      HolderAt(h[1]) + i = reading /\ UsedBy(h[1])[i] = h[2]
  BY <1>1, <1>2, PassedStep
<1>10. CASE reading = HolderEnd(holder)
  <2>1. /\ holder' = "core" /\ registered' = registered /\ furniture' = furniture /\ refs' = refs
    BY <1>6, <1>10 DEF LoadHolderRecord
  <2>2. \A g \in Holders : ~(HolderAt(g) <= reading /\ reading < HolderEnd(g)) /\ "core" # g
    <3> TAKE g \in Holders
    <3>1. "core" # g
      BY DEF Holders
    <3>2. CASE g = holder
      BY <1>2, <1>10, <3>1, <3>2
    <3>3. CASE g # holder
      <4>1. ~(HolderAt(g) <= reading /\ reading <= HolderEnd(g)) /\ HolderEnd(g) \in Nat
        BY <1>4, <1>5, <3>3
      <4>2. QED
        BY <1>2, <3>1, <4>1
    <3>4. QED
      BY <3>2, <3>3
  <2>3. ASSUME NEW h \in Holders \X Keys PROVE Passed(h)' <=> Passed(h)
    <3>1. ASSUME NEW i \in 1..Len(UsedBy(h[1])), HolderAt(h[1]) + i = reading PROVE FALSE
      <4>1. h[1] \in Holders
        OBVIOUS
      <4>2. HolderAt(h[1]) <= reading /\ reading < HolderEnd(h[1])
        BY <1>4, <3>1, <4>1
      <4>3. QED
        BY <2>2, <4>1, <4>2
    <3>2. QED
      BY <1>9, <3>1
  <2>4. \A h \in Holders \X Keys : registered'[h] = IF Passed(h)' THEN Loaded(h) ELSE {}
    BY <1>8, <2>1, <2>3
  <2>5. DOMAIN furniture' = IF FurnitureAt <= reading THEN LoadedFurniture ELSE {}
    BY <1>7, <1>8, <2>1
  <2>6. /\ registered' \in Registrations /\ furniture' \in Furniture /\ refs' \in [Objects -> Nat]
        /\ RegisteredAreReferenced' /\ holder' \in Holders \cup {"core"}
    BY <2>1 DEF RegInv, RegTypeOK, RegisteredAreReferenced, Count, KeyEntries, FurnitureEntries
  <2>7. \A g \in Holders : holder' = g <=> HolderAt(g) <= reading /\ reading < HolderEnd(g)
    BY <2>1, <2>2
  <2>8. QED
    BY <1>1, <2>4, <2>5, <2>6, <2>7, RecordStep
<1>11. CASE reading # HolderEnd(holder)
  <2>1. PICK i \in 1..Len(UsedBy(holder)) : reading = HolderAt(holder) + i
    <3>1. reading - HolderAt(holder) \in 1..Len(UsedBy(holder))
          /\ reading = HolderAt(holder) + (reading - HolderAt(holder))
      BY <1>1, <1>2, <1>3, <1>4, <1>11
    <3>2. QED
      BY <3>1
  <2> DEFINE k == UsedBy(holder)[i]
  <2>2. records[reading] = KeyRecord(saved[1], holder, k)
    BY <1>6, <2>1
  <2>3. k \in Keys
    BY <1>1, Places, UsedFacts DEF RegInv, UsedBy
  <2> HIDE DEF k
  <2>4. /\ records[reading].type = "REGS" /\ records[reading].key = k
        /\ records[reading].regs = saved[1][<<holder, k>>]
    BY <2>2 DEF KeyRecord
  <2>5. LoadKey(records[reading]) /\ furniture' = furniture /\ holder' = holder
    BY <2>4 DEF LoadHolderRecord, LoadKey
  <2>6. <<holder, k>> \in Holders \X Keys /\ saved[1][<<holder, k>>] \in SUBSET Subscribers
    BY <1>1, <2>3, Places DEF RegInv, Registrations
  <2>7. registered' \in Registrations /\ refs' \in [Objects -> Nat] /\ RegisteredAreReferenced'
    BY <1>1, <2>3, <2>4, <2>5, <2>6, LoadKeyRefs DEF RegInv
  <2>8. registered' = [registered EXCEPT ![<<holder, k>>] = @ \cup Loaded(<<holder, k>>)]
    BY <2>4, <2>5 DEF LoadKey, Loaded
  <2>9. ASSUME NEW h \in Holders \X Keys PROVE Passed(h)' <=> Passed(h) \/ h = <<holder, k>>
    <3>1. h[1] \in Holders /\ h[2] \in Keys /\ h = <<h[1], h[2]>>
      OBVIOUS
    <3>2. ASSUME NEW j \in 1..Len(UsedBy(h[1])), HolderAt(h[1]) + j = reading, UsedBy(h[1])[j] = h[2]
          PROVE  h = <<holder, k>>
      <4>1. h[1] = holder
        BY <1>4, <1>5, <3>1, <3>2
      <4>2. j = i
        BY <1>1, <1>4, <2>1, <3>2, <4>1
      <4>3. QED
        BY <3>1, <3>2, <4>1, <4>2 DEF k
    <3>3. h = <<holder, k>> => /\ HolderAt(h[1]) + i = reading /\ UsedBy(h[1])[i] = h[2]
                               /\ i \in 1..Len(UsedBy(h[1]))
      BY <2>1 DEF k
    <3>4. QED
      BY <1>9, <3>2, <3>3
  <2>10. ASSUME NEW h \in Holders \X Keys
         PROVE  registered'[h] = IF Passed(h)' THEN Loaded(h) ELSE {}
    <3>1. registered \in [Holders \X Keys -> SUBSET Subscribers]
      BY DEF RegInv, RegTypeOK, Registrations
    <3>2. CASE h = <<holder, k>>
      <4>1. registered'[h] = registered[h] \cup Loaded(h) /\ Passed(h)'
        BY <2>6, <2>8, <2>9, <3>1, <3>2
      <4>2. registered[h] \in SUBSET Loaded(h)
        BY <1>8
      <4>3. QED
        BY <4>1, <4>2
    <3>3. CASE h # <<holder, k>>
      <4>1. registered'[h] = registered[h] /\ (Passed(h)' <=> Passed(h))
        BY <2>6, <2>8, <2>9, <3>1, <3>3
      <4>2. QED
        BY <1>8, <4>1
    <3>4. QED
      BY <3>2, <3>3
  <2>11. DOMAIN furniture' = IF FurnitureAt <= reading THEN LoadedFurniture ELSE {}
    BY <1>7, <1>8, <2>5
  <2>12. furniture' \in Furniture /\ holder' \in Holders \cup {"core"}
    BY <2>5 DEF RegInv, RegTypeOK
  <2>13. ASSUME NEW g \in Holders PROVE holder' = g <=> HolderAt(g) <= reading /\ reading < HolderEnd(g)
    <3>1. CASE g = holder
      BY <1>1, <1>2, <1>3, <1>4, <1>11, <2>5, <3>1
    <3>2. CASE g # holder
      BY <1>2, <1>4, <1>5, <2>5, <3>2
    <3>3. QED
      BY <3>1, <3>2
  <2>14. QED
    BY <1>1, <2>7, <2>10, <2>11, <2>12, <2>13, RecordStep
<1> QED
  BY <1>10, <1>11

LEMMA LoadCoreRecordStep == RegInv /\ LoadCoreRecord => RegInv'
PROOF
<1> SUFFICES ASSUME RegInv, LoadCoreRecord PROVE RegInv'
  OBVIOUS
<1>1. /\ LoadsOn /\ holder = "core"
      /\ UNCHANGED <<records, resolve, missing, reverted, calls, loads, saved, restored, wanted>>
  BY DEF LoadCoreRecord
<1>2. /\ reading \in Nat /\ reading # 0 /\ reading' = reading + 1 /\ records # <<>>
      /\ reading <= Len(records)
  BY <1>1 DEF LoadsOn, RegInv, RegTypeOK, RegLoadingInv
<1>3. /\ \A g \in Holders : /\ HolderAt(g) \in Nat /\ HolderEnd(g) \in Nat /\ Len(UsedBy(g)) \in Nat
                            /\ HolderEnd(g) = HolderAt(g) + Len(UsedBy(g)) + 1
                            /\ HolderEnd(g) < FurnitureAt
      /\ HolderAt("KEYR") = 1 /\ HolderAt("CTLR") = HolderEnd("KEYR") + 1
      /\ FurnitureAt = HolderEnd("CTLR") + 1 /\ FurnitureAt \in Nat
  BY Places DEF RegInv
<1>4. /\ Len(records) = FurnitureAt
      /\ \A h \in Holders : records[HolderAt(h)] = [type |-> h]
      /\ records[FurnitureAt] = [type |-> "FRNR", filters |-> saved[2]]
  BY <1>2, SavedRecords DEF RegInv
<1>5. \A g \in Holders : ~(HolderAt(g) < reading /\ reading <= HolderEnd(g))
  <2>1. \A g \in Holders : "core" # g
    BY DEF Holders
  <2>2. \A g \in Holders : holder = g <=> HolderAt(g) < reading /\ reading <= HolderEnd(g)
    BY <1>2 DEF RegInv, RegLoadingInv
  <2>3. QED
    BY <1>1, <2>1, <2>2
<1>6. \A h \in Holders \X Keys : registered[h] = IF Passed(h) THEN Loaded(h) ELSE {}
  BY <1>2 DEF RegInv, RegLoadingInv
<1>7. DOMAIN furniture = {}
  <2>1. ~(FurnitureAt < reading)
    BY <1>2, <1>3, <1>4
  <2>2. QED
    BY <1>2, <2>1 DEF RegInv, RegLoadingInv
<1>8. \A h \in Holders \X Keys : Passed(h)' <=> Passed(h)
  <2> TAKE h \in Holders \X Keys
  <2>1. ASSUME NEW i \in 1..Len(UsedBy(h[1])), HolderAt(h[1]) + i = reading PROVE FALSE
    <3>1. h[1] \in Holders
      OBVIOUS
    <3>2. HolderAt(h[1]) < reading /\ reading <= HolderEnd(h[1])
      BY <1>3, <2>1, <3>1
    <3>3. QED
      BY <1>5, <3>1, <3>2
  <2>2. QED
    BY <1>1, <1>2, <2>1, PassedStep
<1>9. CASE \E h \in Holders : reading = HolderAt(h)
  <2>1. PICK h \in Holders : reading = HolderAt(h)
    BY <1>9
  <2>2. records[reading].type = h /\ h \in Holders
    <3>1. records[reading] = [type |-> h]
      BY <1>4, <2>1
    <3>2. QED
      BY <3>1
  <2>3. holder' = h /\ registered' = registered /\ furniture' = furniture /\ refs' = refs
    BY <2>2 DEF LoadCoreRecord, Holders
  <2>4. ~(FurnitureAt <= reading) /\ reading < HolderEnd(h)
    BY <1>3, <2>1
  <2>5. DOMAIN furniture' = IF FurnitureAt <= reading THEN LoadedFurniture ELSE {}
    BY <1>7, <2>3, <2>4
  <2>6. \A k \in Holders \X Keys : registered'[k] = IF Passed(k)' THEN Loaded(k) ELSE {}
    BY <1>6, <1>8, <2>3
  <2>7. /\ registered' \in Registrations /\ furniture' \in Furniture /\ refs' \in [Objects -> Nat]
        /\ RegisteredAreReferenced' /\ holder' \in Holders \cup {"core"}
    BY <2>3 DEF RegInv, RegTypeOK, RegisteredAreReferenced, Count, KeyEntries, FurnitureEntries
  <2>8. ASSUME NEW g \in Holders PROVE holder' = g <=> HolderAt(g) <= reading /\ reading < HolderEnd(g)
    <3>1. CASE g = h
      BY <1>2, <2>1, <2>3, <2>4, <3>1
    <3>2. CASE g # h
      <4>1. ~(HolderAt(g) <= reading /\ reading < HolderEnd(g))
        <5>1. "KEYR" \in Holders /\ "CTLR" \in Holders
          BY DEF Holders
        <5>2. /\ HolderAt("KEYR") = 1 /\ HolderEnd("KEYR") \in Nat
              /\ 1 < HolderAt("CTLR") /\ HolderAt("CTLR") \in Nat
              /\ HolderEnd("KEYR") < HolderAt("CTLR")
          <6>1. /\ HolderAt("KEYR") = 1 /\ Len(UsedBy("KEYR")) \in Nat
                /\ HolderEnd("KEYR") = HolderAt("KEYR") + Len(UsedBy("KEYR")) + 1
                /\ HolderAt("CTLR") = HolderEnd("KEYR") + 1
            BY <1>3, <5>1
          <6>2. QED
            BY <6>1
        <5>3. (g = "KEYR" /\ h = "CTLR") \/ (g = "CTLR" /\ h = "KEYR")
          BY <3>2 DEF Holders
        <5>4. QED
          BY <2>1, <5>2, <5>3
      <4>2. QED
        BY <2>3, <3>2, <4>1
    <3>3. QED
      BY <3>1, <3>2
  <2>9. QED
    BY <1>1, <2>5, <2>6, <2>7, <2>8, RecordStep
<1>10. CASE reading = FurnitureAt
  <2>1. records[reading].type = "FRNR" /\ records[reading].filters = saved[2]
    BY <1>4, <1>10
  <2>2. LoadFurniture(saved[2]) /\ registered' = registered /\ holder' = holder
    <3>1. LoadFurniture(records[reading].filters)
      BY <2>1 DEF LoadCoreRecord, Holders
    <3>2. LoadFurniture(saved[2])
      BY <2>1, <3>1
    <3>3. QED
      BY <3>2 DEF LoadFurniture
  <2>3. /\ furniture' \in Furniture /\ refs' \in [Objects -> Nat] /\ RegisteredAreReferenced'
        /\ DOMAIN furniture' = DOMAIN furniture
             \cup {Moved(s) : s \in {t \in DOMAIN saved[2] : Survives(t)}}
    BY <2>2, Places, LoadFurnitureRefs DEF RegInv
  <2>4. DOMAIN furniture' = IF FurnitureAt <= reading THEN LoadedFurniture ELSE {}
    BY <1>3, <1>7, <1>10, <2>3 DEF LoadedFurniture
  <2>5. \A k \in Holders \X Keys : registered'[k] = IF Passed(k)' THEN Loaded(k) ELSE {}
    BY <1>6, <1>8, <2>2
  <2>6. registered' \in Registrations /\ holder' \in Holders \cup {"core"}
    BY <1>1, <2>2 DEF RegInv, RegTypeOK
  <2>7. \A g \in Holders : holder' = g <=> HolderAt(g) <= reading /\ reading < HolderEnd(g)
    <3>1. \A g \in Holders : "core" # g /\ ~(reading < HolderEnd(g))
      <4>1. \A g \in Holders : HolderEnd(g) \in Nat /\ HolderEnd(g) < FurnitureAt /\ FurnitureAt \in Nat
        BY <1>3
      <4>2. \A g \in Holders : ~(reading < HolderEnd(g))
        BY <1>10, <4>1
      <4>3. QED
        BY <4>2 DEF Holders
    <3>2. QED
      BY <1>1, <2>2, <3>1
  <2>8. QED
    BY <1>1, <2>3, <2>4, <2>5, <2>6, <2>7, RecordStep
<1>11. (\E h \in Holders : reading = HolderAt(h)) \/ reading = FurnitureAt
  <2>1. "KEYR" \in Holders /\ "CTLR" \in Holders
    BY DEF Holders
  <2>2. /\ HolderAt("KEYR") = 1 /\ HolderEnd("KEYR") \in Nat
        /\ HolderEnd("CTLR") \in Nat /\ HolderAt("CTLR") = HolderEnd("KEYR") + 1
        /\ FurnitureAt = HolderEnd("CTLR") + 1
        /\ ~(HolderAt("KEYR") < reading /\ reading <= HolderEnd("KEYR"))
        /\ ~(HolderAt("CTLR") < reading /\ reading <= HolderEnd("CTLR"))
    BY <1>3, <1>5, <2>1
  <2>3. reading = 1 \/ reading = HolderEnd("KEYR") + 1 \/ reading = HolderEnd("CTLR") + 1
    <3>1. PICK a \in Nat, b \in Nat : a = HolderEnd("KEYR") /\ b = HolderEnd("CTLR")
      BY <2>2
    <3>2. /\ ~(1 < reading /\ reading <= a) /\ ~(a + 1 < reading /\ reading <= b)
          /\ reading <= b + 1 /\ reading \in Nat /\ reading # 0
      BY <1>2, <1>4, <2>2, <3>1
    <3>3. QED
      BY <3>1, <3>2
  <2>4. QED
    BY <2>1, <2>2, <2>3
<1> QED
  BY <1>9, <1>10, <1>11

LEMMA RegInvHolds == RegSpec => []RegInv
PROOF
<1>1. RegInit => RegInv
  <2> SUFFICES ASSUME RegInit PROVE RegInv
    OBVIOUS
  <2>1. /\ registered = [h \in Holders \X Keys |-> {}] /\ furniture = NoFilter
        /\ refs = [o \in Objects |-> 0] /\ records = <<>> /\ reading = 0 /\ holder = "core"
        /\ resolve = [o \in Objects |-> o] /\ missing = {} /\ reverted = FALSE /\ restored = FALSE
        /\ calls = 0 /\ loads = 0 /\ saved = <<registered, furniture>>
        /\ wanted = [s \in Subscribers |-> {}]
    BY DEF RegInit
  <2>2. DOMAIN furniture = {} /\ furniture = [t \in DOMAIN furniture |-> furniture[t]]
    BY <2>1 DEF NoFilter
  <2>3. registered \in Registrations /\ furniture \in Furniture
    BY <2>1, <2>2, FurnitureFacts DEF Registrations
  <2>4. resolve \in Resolution
    BY <2>1 DEF Resolution
  <2>5. RegTypeOK
    <3>1. 0 \in 0..Len(records) + 1 /\ 0 \in 0..MaxCalls /\ 0 \in 0..MaxLoads
      BY <2>1, RegAssumption
    <3>2. refs \in [Objects -> Nat] /\ wanted \in [Subscribers -> SUBSET (Objects \cup {"all"})]
      BY <2>1
    <3>3. QED
      BY <2>1, <2>3, <2>4, <3>1, <3>2 DEF RegTypeOK
  <2>6. RegRecordsInv
    BY <2>1, <2>3 DEF RegRecordsInv
  <2>7. RegLoadingInv /\ LoadRestores
    BY <2>1 DEF RegLoadingInv, LoadRestores
  <2>8. RegisteredAreReferenced
    <3>1. ASSUME NEW o \in Objects PROVE Count(o) <= refs[o]
      <4>1. KeyEntries(o) = {} /\ FurnitureEntries(o) = {}
        BY <2>1, <2>2 DEF KeyEntries, FurnitureEntries
      <4>2. Cardinality({}) = 0 /\ refs[o] = 0
        BY <2>1, FS_EmptySet
      <4>3. Count(o) = 0 + 0
        BY <4>1, <4>2 DEF Count
      <4>4. QED
        BY <4>2, <4>3
    <3>2. QED
      BY <3>1 DEF RegisteredAreReferenced
  <2>9. QED
    BY <2>5, <2>6, <2>7, <2>8 DEF RegInv
<1>2. RegInv /\ [RegNext]_regVars => RegInv'
  <2> SUFFICES ASSUME RegInv, [RegNext]_regVars PROVE RegInv'
    OBVIOUS
  <2>0. /\ RegTypeOK /\ RegisteredAreReferenced
        /\ registered \in Registrations /\ furniture \in Furniture
        /\ wanted \in [Subscribers -> SUBSET (Objects \cup {"all"})]
    BY DEF RegInv, RegTypeOK
  <2>1. ASSUME NEW h \in Holders \X Keys, NEW s \in Subscribers, RegisterFor(h, s) PROVE RegInv'
    BY <2>0, <2>1, RegisterRefs, ScriptStep DEF RegisterFor
  <2>2. ASSUME NEW h \in Holders \X Keys, NEW s \in Subscribers, UnregisterFor(h, s) PROVE RegInv'
    BY <2>0, <2>2, UnregisterRefs, ScriptStep DEF UnregisterFor
  <2>3. ASSUME NEW s \in Subscribers, NEW o \in Objects \cup {Gone}, RegisterForFurnitureEvent(s, o)
        PROVE  RegInv'
    <3>1. wanted' = [wanted EXCEPT ![s] = @ \cup {IF o = Gone THEN "all" ELSE o}]
          /\ ScriptCalls /\ registered' = registered
      BY <2>3 DEF RegisterForFurnitureEvent
    <3>2. wanted' \in [Subscribers -> SUBSET (Objects \cup {"all"})]
      <4>1. (IF o = Gone THEN "all" ELSE o) \in Objects \cup {"all"}
        OBVIOUS
      <4>2. QED
        BY <2>0, <3>1, <4>1
    <3>3. QED
      BY <2>0, <2>3, <3>1, <3>2, RegisterForFurnitureRefs, ScriptStep
  <2>4. ASSUME NEW s \in Subscribers, NEW o \in Objects \cup {Gone}, UnregisterForFurnitureEvent(s, o)
        PROVE  RegInv'
    <3>1. wanted' = [wanted EXCEPT ![s] = IF o = Gone THEN {} ELSE @ \ {o}]
          /\ ScriptCalls /\ registered' = registered
      BY <2>4 DEF UnregisterForFurnitureEvent
    <3>2. wanted' \in [Subscribers -> SUBSET (Objects \cup {"all"})]
      BY <2>0, <3>1
    <3>3. QED
      BY <2>0, <2>4, <3>1, <3>2, UnregisterForFurnitureRefs, ScriptStep
  <2>5. CASE Revert
    BY <2>5, RevertStep
  <2>6. CASE Save
    BY <2>6, SaveStep
  <2>7. ASSUME NEW answer \in Resolution, NEW gone \in SUBSET Scripts, LoadBegin(answer, gone)
        PROVE  RegInv'
    BY <2>7, LoadBeginStep
  <2>8. CASE LoadHolderRecord \/ LoadCoreRecord \/ CoreLoadEnd
    BY <2>8, LoadHolderRecordStep, LoadCoreRecordStep, CoreLoadEndStep
  <2>9. CASE UNCHANGED regVars
    <3>1. UNCHANGED <<registered, furniture, refs, records, reading, holder, resolve, missing,
                      reverted, calls, loads, saved, restored, wanted>>
      BY <2>9 DEF regVars
    <3>2. \A h : UsedBy(h)' = UsedBy(h) /\ HolderAt(h)' = HolderAt(h) /\ HolderEnd(h)' = HolderEnd(h)
      BY <3>1, SavedStays
    <3>3. FurnitureAt' = FurnitureAt /\ LoadedFurniture' = LoadedFurniture
      BY <3>1, SavedStays, LoadedStays
    <3>4. \A h : Loaded(h)' = Loaded(h)
      BY <3>1, LoadedStays
    <3>5. \A h : Passed(h)' <=> Passed(h)
      BY <3>1, <3>2 DEF Passed
    <3>6. RegTypeOK' /\ RegRecordsInv'
      BY <3>1 DEF RegInv, RegTypeOK, RegRecordsInv
    <3>7. RegLoadingInv'
      BY <3>1, <3>2, <3>3, <3>4, <3>5 DEF RegInv, RegLoadingInv
    <3>8. LoadRestores'
      BY <3>1 DEF RegInv, LoadRestores, Survives, Moved
    <3>9. RegisteredAreReferenced'
      BY <3>1 DEF RegInv, RegisteredAreReferenced, Count, KeyEntries, FurnitureEntries
    <3>10. QED
      BY <3>6, <3>7, <3>8, <3>9 DEF RegInv
  <2>10. QED
    BY <2>1, <2>2, <2>3, <2>4, <2>5, <2>6, <2>7, <2>8, <2>9 DEF RegNext
<1> QED
  BY <1>1, <1>2, PTL DEF RegSpec

(* PapyrusScriptObject.cpp, PapyrusObjectReference.cpp: what scripts are   *)
(* registered for is the same after a load, under the objects' new handles,*)
(* and every registered object is referenced often enough, for any objects,*)
(* scripts and keys and any number of calls, saves, reverts and loads.     *)
THEOREM RegistrationsAlwaysSurvive == RegSpec => []RegistrationsSurvive
PROOF
<1>1. RegInv => RegistrationsSurvive
  BY DEF RegInv, RegistrationsSurvive
<1> QED
  BY <1>1, RegInvHolds, PTL
=============================================================================
