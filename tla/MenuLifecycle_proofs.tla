------------------------ MODULE MenuLifecycle_proofs ------------------------
(***************************************************************************)
(* Proofs about the displays.  MenuLifecycle: the menu follows the HUD and *)
(* shows the settings of the ini file, for every number of messages and    *)
(* edits, every limit of the queue and whatever LoadMovie may return.      *)
(* CompanionStatus: whoever is shown is in the list, and names are mapped, *)
(* for every number of companions and messages and every file of names.    *)
(***************************************************************************)
EXTENDS MenuLifecycle, CompanionStatus, DamageQueue_proofs, FiniteSetTheorems, SequenceTheorems,
        WellFoundedInduction

-----------------------------------------------------------------------------
(* The k-th of a set of numbers: there is one for every k up to the size   *)
(* of the set, and every number has its k.                                 *)
LEMMA NthFacts ==
  ASSUME NEW n \in Nat, NEW S \in SUBSET (1..n)
  PROVE  /\ IsFiniteSet(S) /\ Cardinality(S) \in Nat
         /\ \A k \in 1..Cardinality(S) : Nth(S, k) \in S /\ Cardinality({j \in S : j <= Nth(S, k)}) = k
         /\ \A i \in S : \E k \in 1..Cardinality(S) : Nth(S, k) = i
PROOF
<1> DEFINE UpTo(i) == {j \in S : j <= i}
           rank == [i \in S |-> Cardinality(UpTo(i))]
<1>1. IsFiniteSet(S) /\ Cardinality(S) \in Nat
  <2>1. IsFiniteSet(1..n)
    BY FS_Interval
  <2> QED
    BY <2>1, FS_Subset, FS_CardinalityType
<1>2. \A i \in S : IsFiniteSet(UpTo(i)) /\ Cardinality(UpTo(i)) \in 1..Cardinality(S)
  <2> SUFFICES ASSUME NEW i \in S PROVE IsFiniteSet(UpTo(i)) /\ Cardinality(UpTo(i)) \in 1..Cardinality(S)
    OBVIOUS
  <2>1. UpTo(i) \subseteq S /\ i \in UpTo(i)
    OBVIOUS
  <2> HIDE DEF UpTo
  <2>2. IsFiniteSet(UpTo(i)) /\ Cardinality(UpTo(i)) <= Cardinality(S) /\ Cardinality(UpTo(i)) # 0
    BY <2>1, <1>1, FS_Subset, FS_EmptySet
  <2> QED
    BY <2>2, <1>1, FS_CardinalityType
<1>3. \A i, j \in S : i < j => Cardinality(UpTo(i)) < Cardinality(UpTo(j))
  <2> SUFFICES ASSUME NEW i \in S, NEW j \in S, i < j
               PROVE  Cardinality(UpTo(i)) < Cardinality(UpTo(j))
    OBVIOUS
  <2>1. UpTo(i) \subseteq UpTo(j) /\ UpTo(i) # UpTo(j)
    <3>1. j \in UpTo(j) /\ j \notin UpTo(i)
      OBVIOUS
    <3>2. \A l \in S : l <= i => l <= j
      OBVIOUS
    <3> QED
      BY <3>1, <3>2
  <2>2. IsFiniteSet(UpTo(j)) /\ Cardinality(UpTo(i)) \in Nat /\ Cardinality(UpTo(j)) \in Nat
    BY <1>1, <1>2
  <2> HIDE DEF UpTo
  <2>3. Cardinality(UpTo(i)) <= Cardinality(UpTo(j)) /\ Cardinality(UpTo(i)) # Cardinality(UpTo(j))
    BY <2>1, <2>2, FS_Subset
  <2> QED
    BY <2>2, <2>3
<1>4. \A i, j \in S : rank[i] = rank[j] => i = j
  <2> SUFFICES ASSUME NEW i \in S, NEW j \in S, Cardinality(UpTo(i)) = Cardinality(UpTo(j)), i # j PROVE FALSE
    OBVIOUS
  <2>1. i < j \/ j < i
    OBVIOUS
  <2>2. Cardinality(UpTo(i)) \in Nat /\ Cardinality(UpTo(j)) \in Nat
    BY <1>1, <1>2
  <2> HIDE DEF UpTo
  <2> QED
    BY <2>1, <2>2, <1>3
<1>5. rank \in Injection(S, 1..Cardinality(S))
  <2>1. rank \in [S -> 1..Cardinality(S)]
    BY <1>2
  <2>2. \A i, j \in DOMAIN rank : rank[i] = rank[j] => i = j
    BY <1>4
  <2> HIDE DEF rank
  <2> QED
    BY <2>1, <2>2 DEF Injection, IsInjective
<1>6. rank \in Surjection(S, 1..Cardinality(S))
  <2>1. IsFiniteSet(1..Cardinality(S)) /\ Cardinality(1..Cardinality(S)) = Cardinality(S)
    BY <1>1, FS_Interval
  <2> HIDE DEF rank
  <2> QED
    BY <2>1, <1>5, FS_Injection
<1>7. \A k \in 1..Cardinality(S) : \E i \in S : Cardinality(UpTo(i)) = k
  <2>1. \A k \in 1..Cardinality(S) : \E i \in S : rank[i] = k
    <3> HIDE DEF rank
    <3> QED
      BY <1>6 DEF Surjection
  <2> QED
    BY <2>1
<1>8. \A k \in 1..Cardinality(S) : Nth(S, k) \in S /\ Cardinality(UpTo(Nth(S, k))) = k
  BY <1>7 DEF Nth
<1>9. \A i \in S : \E k \in 1..Cardinality(S) : Nth(S, k) = i
  <2> SUFFICES ASSUME NEW i \in S PROVE Nth(S, Cardinality(UpTo(i))) = i
    BY <1>2
  <2>1. rank[Nth(S, Cardinality(UpTo(i)))] = rank[i]
    BY <1>2, <1>8
  <2> HIDE DEF rank
  <2> QED
    BY <2>1, <1>2, <1>4, <1>8
<1> QED
  BY <1>1, <1>8, <1>9

(* A name after all lines of the file: what the map says of it, since no   *)
(* line names what an earlier one has.                                     *)
LEMMA LineFacts ==
  /\ Len(NameLines) \in Nat /\ DOMAIN NameLines = 1..Len(NameLines)
  /\ \A i, j \in DOMAIN NameLines : i < j => NameLines[j][1] # NameLines[i][1] /\ NameLines[j][1] # NameLines[i][2]
BY NameLinesAssumption

LEMMA FileMapFacts ==
  /\ \A name : name \in DOMAIN FileMap <=> \E i \in DOMAIN NameLines : NameLines[i][1] = name
  /\ \A i \in DOMAIN NameLines : FileMap[NameLines[i][1]] = NameLines[i][2]
  /\ \A name \in DOMAIN FileMap : FileMap[name] # NoName
PROOF
<1>1. \A i, j \in DOMAIN NameLines : NameLines[i][1] = NameLines[j][1] => i = j
  BY LineFacts
<1>2. \A name : name \in DOMAIN FileMap <=> \E i \in DOMAIN NameLines : NameLines[i][1] = name
  BY DEF FileMap
<1>3. ASSUME NEW i \in DOMAIN NameLines
      PROVE  FileMap[NameLines[i][1]] = NameLines[i][2]
  <2> DEFINE last == CHOOSE l \in DOMAIN NameLines :
                       /\ NameLines[l][1] = NameLines[i][1]
                       /\ \A j \in DOMAIN NameLines : NameLines[j][1] = NameLines[i][1] => j <= l
  <2>1. last \in DOMAIN NameLines /\ NameLines[last][1] = NameLines[i][1]
    <3>1. \E l \in DOMAIN NameLines :
            /\ NameLines[l][1] = NameLines[i][1]
            /\ \A j \in DOMAIN NameLines : NameLines[j][1] = NameLines[i][1] => j <= l
      BY <1>1, LineFacts
    <3> QED
      BY <3>1
  <2>2. FileMap[NameLines[i][1]] = NameLines[last][2]
    BY DEF FileMap
  <2> QED
    BY <2>1, <2>2, <1>1
<1>4. \A name \in DOMAIN FileMap : FileMap[name] # NoName
  BY <1>2, <1>3, NameLinesAssumption
<1> QED
  BY <1>2, <1>3, <1>4

LEMMA RenamedAsMapped ==
  ASSUME NEW name
  PROVE  Renamed(name) = IF name \in DOMAIN FileMap THEN FileMap[name] ELSE name
PROOF
<1> DEFINE L == Len(NameLines)
           Step(g) == [k \in 0..L |-> IF k = 0 THEN name
                                      ELSE IF g[k - 1] = NameLines[k][1] THEN NameLines[k][2] ELSE g[k - 1]]
           w == [k \in 0..L |-> IF \E i \in 1..k : NameLines[i][1] = name THEN FileMap[name] ELSE name]
           after == CHOOSE g : g = Step(g)
<1>0. L \in Nat /\ DOMAIN NameLines = 1..L
  BY LineFacts
<1>1. ASSUME NEW k \in 1..L
      PROVE  w[k] = IF w[k - 1] = NameLines[k][1] THEN NameLines[k][2] ELSE w[k - 1]
  <2>1. k - 1 \in 0..L /\ k \in 0..L /\ 1..(k - 1) \subseteq 1..L /\ k \in 1..L
    BY <1>0
  <2>2. CASE \E i \in 1..(k - 1) : NameLines[i][1] = name
    <3>1. PICK i \in 1..(k - 1) : NameLines[i][1] = name
      BY <2>2
    <3>2. w[k - 1] = FileMap[name] /\ w[k] = FileMap[name]
      <4>1. i \in 1..k
        BY <2>1
      <4> QED
        BY <3>1, <4>1, <2>1
    <3>3. FileMap[name] = NameLines[i][2]
      BY <3>1, <2>1, <1>0, FileMapFacts
    <3>4. NameLines[k][1] # NameLines[i][2]
      BY <2>1, <1>0, LineFacts
    <3> QED
      BY <3>2, <3>3, <3>4
  <2>3. CASE ~\E i \in 1..(k - 1) : NameLines[i][1] = name
    <3>1. w[k - 1] = name
      BY <2>1, <2>3
    <3>2. CASE NameLines[k][1] = name
      <4>1. w[k] = FileMap[name]
        BY <2>1, <3>2
      <4>2. FileMap[name] = NameLines[k][2]
        BY <3>2, <1>0, FileMapFacts
      <4> QED
        BY <3>1, <3>2, <4>1, <4>2
    <3>3. CASE NameLines[k][1] # name
      <4>1. ~\E i \in 1..k : NameLines[i][1] = name
        <5>1. \A i \in 1..k : i = k \/ i \in 1..(k - 1)
          BY <2>1
        <5> QED
          BY <5>1, <2>3, <3>3
      <4>2. w[k] = name
        BY <2>1, <4>1
      <4> QED
        BY <3>1, <3>3, <4>2
    <3> QED
      BY <3>2, <3>3
  <2> QED
    BY <2>2, <2>3
<1>2. w = Step(w)
  <2>1. 0 \in 0..L /\ w[0] = name
    BY <1>0
  <2>2. \A k \in 0..L : w[k] = Step(w)[k]
    <3> SUFFICES ASSUME NEW k \in 0..L PROVE w[k] = Step(w)[k]
      OBVIOUS
    <3>1. CASE k = 0
      BY <3>1, <2>1
    <3>2. CASE k # 0
      <4>1. k \in 1..L
        BY <3>2, <1>0
      <4>2. w[k] = IF w[k - 1] = NameLines[k][1] THEN NameLines[k][2] ELSE w[k - 1]
        BY <4>1, <1>1
      <4> HIDE DEF w
      <4> QED
        BY <3>2, <4>2
    <3> QED
      BY <3>1, <3>2
  <2> QED
    BY <2>2
<1>3. after = Step(after)
  <2> HIDE DEF w, Step
  <2> QED
    BY <1>2
<1>4. \A k \in 0..L : after[k] = w[k]
  <2> HIDE DEF w, Step, after
  <2> DEFINE Bad == {k \in Nat : k \in 0..L /\ after[k] # w[k]}
  <2> SUFFICES ASSUME Bad # {} PROVE FALSE
    BY <1>0
  <2>1. \E k \in Bad : \A j \in Bad : ~ (<<j, k>> \in OpToRel(<, Nat))
    BY NatLessThanWellFounded, WFMin
  <2>2. \A j, k \in Bad : j < k => <<j, k>> \in OpToRel(<, Nat)
    BY DEF OpToRel
  <2>5. PICK k \in Bad : \A j \in Bad : ~ (j < k)
    BY <2>1, <2>2
  <2>3. CASE k = 0
    <3>1. after[0] = name
      BY <1>0, <1>3 DEF Step
    <3>2. w[0] = name
      BY <1>0 DEF w
    <3> QED
      BY <2>5, <2>3, <3>1, <3>2
  <2>4. CASE k # 0
    <3>0. k \in Nat /\ k <= L
      BY <2>5, <1>0
    <3>1. k \in 1..L /\ k - 1 \in 0..L /\ k - 1 \in Nat /\ k - 1 < k
      BY <3>0, <2>4, <1>0
    <3>2. after[k - 1] = w[k - 1]
      BY <2>5, <3>1
    <3>3. after[k] = IF after[k - 1] = NameLines[k][1] THEN NameLines[k][2] ELSE after[k - 1]
      BY <1>0, <1>3, <3>1, <2>4 DEF Step
    <3>4. w[k] = IF w[k - 1] = NameLines[k][1] THEN NameLines[k][2] ELSE w[k - 1]
      BY <1>1, <3>1
    <3> QED
      BY <2>5, <3>2, <3>3, <3>4
  <2> QED
    BY <2>3, <2>4
<1>5. Renamed(name) = after[L]
  BY DEF Renamed
<1>6. L \in 0..L /\ w[L] = IF name \in DOMAIN FileMap THEN FileMap[name] ELSE name
  BY <1>0, FileMapFacts
<1> HIDE DEF w, after
<1> QED
  BY <1>4, <1>5, <1>6

(* The invariant of the companions' widgets: a widget is as its fades left *)
(* it; whoever is in the list was faded in and, if it is fading out, was   *)
(* hidden since the last frame; whoever is in it twice was shown again     *)
(* then; and names are as the map has them.                                *)
IsWidget(w) ==
  /\ DOMAIN w = {"name", "hp", "y", "visible", "clip", "fadeInStarted", "fadeOutStarted"}
  /\ w.hp \in 0..Full /\ w.clip \in {"still", "FadeIn", "FastFadeOut"}
  /\ w.visible \in BOOLEAN /\ w.fadeInStarted \in BOOLEAN /\ w.fadeOutStarted \in BOOLEAN

FadesAgree(w) ==
  /\ w.clip = "FadeIn" => w.fadeInStarted /\ ~w.fadeOutStarted
  /\ w.clip = "FastFadeOut" => w.fadeOutStarted
  /\ w.fadeInStarted /\ ~w.fadeOutStarted => w.visible
  /\ w.fadeOutStarted /\ w.clip = "still" => ~w.visible

WidgetInv ==
  /\ DOMAIN widgets \subseteq Followers /\ DOMAIN given = DOMAIN widgets
  /\ \A f \in DOMAIN widgets : IsWidget(widgets[f]) /\ FadesAgree(widgets[f])

ListInv ==
  /\ listed \in Seq(Followers)
  /\ \A i \in 1..Len(listed) : listed[i] \in DOMAIN widgets /\ widgets[listed[i]].fadeInStarted
  /\ \A f \in DOMAIN widgets :
       widgets[f].fadeInStarted /\ ~widgets[f].fadeOutStarted => \E i \in 1..Len(listed) : listed[i] = f
  /\ \A i \in 1..Len(listed) : widgets[listed[i]].fadeOutStarted => listed[i] \in justHidden
  /\ \A i, j \in 1..Len(listed) : listed[i] = listed[j] => i = j \/ listed[i] \in reshown
  /\ justHidden \subseteq DOMAIN widgets /\ reshown \subseteq DOMAIN widgets

NamedInv ==
  /\ \A f \in DOMAIN widgets : widgets[f].name = Mapped(given[f])
  /\ nameMap = IF loaded THEN FileMap ELSE [n \in {} |-> n]

StatusInv == WidgetInv /\ ListInv /\ NamedInv /\ loaded \in BOOLEAN

(* A widget's fields after each operation.                                 *)
SameFades(v, w) ==
  (v.fadeInStarted <=> w.fadeInStarted) /\ (v.fadeOutStarted <=> w.fadeOutStarted)

LEMMA NamedWidget ==
  ASSUME NEW w, IsWidget(w), FadesAgree(w), NEW n, NEW v, v = [w EXCEPT !.name = n]
  PROVE  IsWidget(v) /\ FadesAgree(v) /\ v.name = n /\ SameFades(v, w)
BY DEF IsWidget, FadesAgree, SameFades

LEMMA UpdatedWidget ==
  ASSUME NEW w, IsWidget(w), FadesAgree(w), NEW h \in 0..Full, NEW v, v = [w EXCEPT !.hp = h]
  PROVE  IsWidget(v) /\ FadesAgree(v) /\ v.name = w.name /\ SameFades(v, w)
BY DEF IsWidget, FadesAgree, SameFades

LEMMA MovedWidget ==
  ASSUME NEW w, IsWidget(w), FadesAgree(w), NEW y, NEW v, v = [w EXCEPT !.y = y]
  PROVE  IsWidget(v) /\ FadesAgree(v) /\ v.name = w.name /\ SameFades(v, w)
BY DEF IsWidget, FadesAgree, SameFades

LEMMA ShownWidget ==
  ASSUME NEW w, IsWidget(w), FadesAgree(w), NEW r, r = ResetFadeState(w), NEW v, v = FadeIn(r)
  PROVE  IsWidget(v) /\ FadesAgree(v) /\ v.name = w.name /\ v.fadeInStarted /\ ~v.fadeOutStarted
BY DEF IsWidget, FadesAgree, FadeIn, ResetFadeState

LEMMA HiddenWidget ==
  ASSUME NEW w, IsWidget(w), FadesAgree(w), NEW v, v = FastFadeOut(w)
  PROVE  IsWidget(v) /\ FadesAgree(v) /\ v.name = w.name /\ v.fadeOutStarted
         /\ (v.fadeInStarted <=> w.fadeInStarted)
BY DEF IsWidget, FadesAgree, FastFadeOut

LEMMA CompletedWidget ==
  ASSUME NEW w, IsWidget(w), FadesAgree(w), w.clip # "still", NEW v, v = Completed(w)
  PROVE  IsWidget(v) /\ FadesAgree(v) /\ v.name = w.name /\ SameFades(v, w)
PROOF
<1>1. DOMAIN v = DOMAIN w /\ v.name = w.name /\ v.hp = w.hp /\ v.clip = "still"
      /\ v.fadeInStarted = w.fadeInStarted /\ v.fadeOutStarted = w.fadeOutStarted
  BY DEF Completed, IsWidget
<1>2. v.visible \in BOOLEAN /\ (v.visible <=> w.clip = "FadeIn")
  BY DEF Completed, IsWidget
<1>3. IsWidget(v)
  BY <1>1, <1>2 DEF IsWidget
<1>4. FadesAgree(v)
  BY <1>1, <1>2 DEF IsWidget, FadesAgree
<1> QED
  BY <1>1, <1>3, <1>4 DEF SameFades

LEMMA StatusInit1 == StatusInit => StatusInv
PROOF
<1> SUFFICES ASSUME StatusInit PROVE StatusInv
  OBVIOUS
<1>1. listed \in Seq(Followers) /\ Len(listed) = 0 /\ justHidden = {} /\ reshown = {} /\ loaded = FALSE
      /\ nameMap = [n \in {} |-> n]
  BY DEF StatusInit
<1>2. DOMAIN widgets = {} /\ DOMAIN given = {}
  BY DEF StatusInit
<1>3. WidgetInv
  BY <1>2 DEF WidgetInv
<1>4. ListInv
  BY <1>1, <1>2 DEF ListInv
<1>5. NamedInv
  BY <1>1, <1>2 DEF NamedInv
<1> QED
  BY <1>1, <1>3, <1>4, <1>5 DEF StatusInv

(* A step that changes widgets but neither the list nor what fades.        *)
LEMMA ListStays ==
  ASSUME StatusInv, listed' = listed, reshown' = reshown,
         justHidden \subseteq justHidden', justHidden' \subseteq DOMAIN widgets',
         DOMAIN widgets \subseteq DOMAIN widgets',
         \A f \in DOMAIN widgets :
           /\ widgets'[f].fadeInStarted <=> widgets[f].fadeInStarted
           /\ widgets[f].fadeOutStarted => widgets'[f].fadeOutStarted
           /\ widgets'[f].fadeOutStarted => widgets[f].fadeOutStarted \/ ~widgets[f].fadeInStarted \/ f \in justHidden',
         \A f \in DOMAIN widgets' \ DOMAIN widgets : ~widgets'[f].fadeInStarted
  PROVE  ListInv'
PROOF
<1>1. listed' \in Seq(Followers) /\ Len(listed') = Len(listed) /\ Len(listed) \in Nat
  BY DEF StatusInv, ListInv
<1>2. \A i \in 1..Len(listed) : listed[i] \in DOMAIN widgets /\ widgets[listed[i]].fadeInStarted
  BY DEF StatusInv, ListInv
<1>3. \A i \in 1..Len(listed)' : listed[i]' \in DOMAIN widgets' /\ widgets'[listed[i]'].fadeInStarted
  BY <1>1, <1>2
<1>4. ASSUME NEW f \in DOMAIN widgets', widgets'[f].fadeInStarted, ~widgets'[f].fadeOutStarted
      PROVE  \E i \in 1..Len(listed)' : listed[i]' = f
  <2>1. f \in DOMAIN widgets /\ widgets[f].fadeInStarted /\ ~widgets[f].fadeOutStarted
    BY <1>4
  <2>2. \E i \in 1..Len(listed) : listed[i] = f
    BY <2>1 DEF StatusInv, ListInv
  <2> QED
    BY <2>2, <1>1
<1>5. ASSUME NEW i \in 1..Len(listed)', widgets'[listed[i]'].fadeOutStarted PROVE listed[i]' \in justHidden'
  <2>1. /\ listed[i] \in DOMAIN widgets /\ widgets[listed[i]].fadeInStarted
        /\ widgets[listed[i]].fadeOutStarted => listed[i] \in justHidden
    BY <1>1, <1>2 DEF StatusInv, ListInv
  <2> QED
    BY <2>1, <1>5
<1>6. \A i, j \in 1..Len(listed)' : listed[i]' = listed[j]' => i = j \/ listed[i]' \in reshown'
  BY <1>1 DEF StatusInv, ListInv
<1>7. reshown' \subseteq DOMAIN widgets'
  BY DEF StatusInv, ListInv
<1> QED
  BY <1>1, <1>3, <1>4, <1>5, <1>6, <1>7 DEF ListInv

LEMMA AddKeeps ==
  ASSUME StatusInv, NEW f \in Followers, NEW name \in Names, AddFollower(f, name)
  PROVE  StatusInv'
PROOF
<1>1. /\ justHidden' = justHidden /\ reshown' = reshown /\ nameMap' = nameMap /\ loaded' = loaded
      /\ listed' = listed /\ given' = Put(given, f, name)
  BY DEF AddFollower, Told
<1>2. DOMAIN given' = DOMAIN given \cup {f} /\ given'[f] = name /\ \A g \in DOMAIN given : g # f => given'[g] = given[g]
  BY <1>1 DEF Put
<1>3. Mapped(name)' = Mapped(name) /\ \A g : Mapped(g)' = Mapped(g)
  BY <1>1 DEF Mapped
<1>4. DOMAIN given = DOMAIN widgets /\ DOMAIN widgets \subseteq Followers
  BY DEF StatusInv, WidgetInv
<1>5. \A g \in DOMAIN widgets : IsWidget(widgets[g]) /\ FadesAgree(widgets[g]) /\ widgets[g].name = Mapped(given[g])
  BY DEF StatusInv, WidgetInv, NamedInv
<1>6. /\ DOMAIN widgets' = DOMAIN widgets \cup {f}
      /\ \A g \in DOMAIN widgets : SameFades(widgets'[g], widgets[g])
      /\ f \notin DOMAIN widgets => ~widgets'[f].fadeInStarted
      /\ \A g \in DOMAIN widgets' : IsWidget(widgets'[g]) /\ FadesAgree(widgets'[g])
                                    /\ widgets'[g].name = Mapped(given'[g])
  <2>1. CASE IsKnown(f)
    <3>1. widgets' = [widgets EXCEPT ![f] = [widgets[f] EXCEPT !.name = Mapped(name)]] /\ f \in DOMAIN widgets
      BY <2>1 DEF AddFollower, IsKnown
    <3>2. PICK v : v = [widgets[f] EXCEPT !.name = Mapped(name)]
      OBVIOUS
    <3>3. IsWidget(v) /\ FadesAgree(v) /\ v.name = Mapped(name) /\ SameFades(v, widgets[f])
      BY <3>1, <3>2, <1>5, NamedWidget
    <3>4. DOMAIN widgets' = DOMAIN widgets /\ widgets'[f] = v /\ \A g \in DOMAIN widgets : g # f => widgets'[g] = widgets[g]
      BY <3>1, <3>2
    <3>5. DOMAIN widgets \cup {f} = DOMAIN widgets
      BY <3>1
    <3>6. \A g \in DOMAIN widgets : SameFades(widgets'[g], widgets[g])
      BY <3>3, <3>4 DEF SameFades
    <3> QED
      BY <3>1, <3>3, <3>4, <3>5, <3>6, <1>2, <1>4, <1>5
  <2>2. CASE ~IsKnown(f)
    <3>1. widgets' = Put(widgets, f, NewFader(Mapped(name))) /\ f \notin DOMAIN widgets
      BY <2>2 DEF AddFollower, IsKnown
    <3>2. PICK v : v = NewFader(Mapped(name))
      OBVIOUS
    <3>3. IsWidget(v) /\ FadesAgree(v) /\ v.name = Mapped(name) /\ ~v.fadeInStarted
      BY <3>2, StatusAssumption DEF NewFader, IsWidget, FadesAgree
    <3>4. /\ DOMAIN widgets' = DOMAIN widgets \cup {f} /\ widgets'[f] = v
          /\ \A g \in DOMAIN widgets : widgets'[g] = widgets[g]
      BY <3>1, <3>2 DEF Put
    <3>5. \A g \in DOMAIN widgets : SameFades(widgets'[g], widgets[g])
      BY <3>4 DEF SameFades
    <3> QED
      BY <3>1, <3>3, <3>4, <3>5, <1>2, <1>4, <1>5
  <2> QED
    BY <2>1, <2>2
<1>7. WidgetInv'
  BY <1>2, <1>4, <1>6 DEF WidgetInv
<1>8. ListInv'
  <2>1. /\ \A g \in DOMAIN widgets' \ DOMAIN widgets : ~widgets'[g].fadeInStarted
        /\ justHidden' \subseteq DOMAIN widgets'
    BY <1>1, <1>6 DEF StatusInv, ListInv
  <2> QED
    BY <1>1, <1>6, <2>1, ListStays DEF SameFades
<1>9. NamedInv'
  BY <1>1, <1>3, <1>6 DEF NamedInv, StatusInv, Mapped
<1> QED
  BY <1>1, <1>7, <1>8, <1>9 DEF StatusInv

(* A message or an animation's end that changes one widget.                *)
LEMMA OneWidget ==
  ASSUME StatusInv, NEW f \in DOMAIN widgets, NEW v, widgets' = [widgets EXCEPT ![f] = v],
         IsWidget(v), FadesAgree(v), v.name = widgets[f].name,
         v.fadeInStarted <=> widgets[f].fadeInStarted,
         widgets[f].fadeOutStarted => v.fadeOutStarted,
         v.fadeOutStarted => widgets[f].fadeOutStarted \/ ~widgets[f].fadeInStarted \/ f \in justHidden',
         nameMap' = nameMap, loaded' = loaded, given' = given, listed' = listed, reshown' = reshown,
         justHidden \subseteq justHidden', justHidden' \subseteq DOMAIN widgets
  PROVE  StatusInv'
PROOF
<1>1. /\ DOMAIN widgets' = DOMAIN widgets /\ widgets'[f] = v
      /\ \A g \in DOMAIN widgets : g # f => widgets'[g] = widgets[g]
  OBVIOUS
<1>2. WidgetInv'
  BY <1>1 DEF StatusInv, WidgetInv
<1>3. ListInv'
  BY <1>1, ListStays
<1>4. NamedInv'
  BY <1>1 DEF StatusInv, NamedInv, Mapped
<1> QED
  BY <1>2, <1>3, <1>4 DEF StatusInv

LEMMA UpdateKeeps ==
  ASSUME StatusInv, NEW f \in Followers, NEW hp \in Stats, UpdateStats(f, hp)
  PROVE  StatusInv'
PROOF
<1>1. /\ justHidden' = justHidden /\ reshown' = reshown /\ nameMap' = nameMap /\ loaded' = loaded
      /\ given' = given /\ listed' = listed /\ justHidden \subseteq DOMAIN widgets
  BY DEF UpdateStats, Told, StatusInv, ListInv
<1>2. CASE IsKnown(f)
  <2>1. f \in DOMAIN widgets /\ widgets' = [widgets EXCEPT ![f] = [widgets[f] EXCEPT !.hp = Clamped(hp)]]
    BY <1>2 DEF UpdateStats, IsKnown
  <2>2. Clamped(hp) \in 0..Full
    BY StatusAssumption DEF Clamped
  <2>3. PICK v : v = [widgets[f] EXCEPT !.hp = Clamped(hp)]
    OBVIOUS
  <2>4. IsWidget(widgets[f]) /\ FadesAgree(widgets[f])
    BY <2>1 DEF StatusInv, WidgetInv
  <2>5. /\ IsWidget(v) /\ FadesAgree(v) /\ v.name = widgets[f].name
        /\ (v.fadeInStarted <=> widgets[f].fadeInStarted) /\ (v.fadeOutStarted <=> widgets[f].fadeOutStarted)
    BY <2>2, <2>3, <2>4, UpdatedWidget DEF SameFades
  <2> QED
    BY <1>1, <2>1, <2>3, <2>5, OneWidget
<1>3. CASE ~IsKnown(f)
  <2>1. widgets' = widgets
    BY <1>3 DEF UpdateStats
  <2>2. ListInv'
    BY <1>1, <2>1, ListStays
  <2> QED
    BY <1>1, <2>1, <2>2 DEF StatusInv, WidgetInv, NamedInv, Mapped
<1> QED
  BY <1>2, <1>3

LEMMA HideKeeps ==
  ASSUME StatusInv, NEW f \in Followers, HideFollower(f)
  PROVE  StatusInv'
PROOF
<1>1. /\ reshown' = reshown /\ nameMap' = nameMap /\ loaded' = loaded /\ given' = given /\ listed' = listed
      /\ justHidden' = IF IsShown(f) THEN justHidden \cup {f} ELSE justHidden
      /\ justHidden \subseteq DOMAIN widgets
  BY DEF HideFollower, Told, StatusInv, ListInv
<1>2. CASE IsKnown(f)
  <2>1. f \in DOMAIN widgets /\ widgets' = [widgets EXCEPT ![f] = FastFadeOut(widgets[f])]
    BY <1>2 DEF HideFollower, IsKnown
  <2>2. PICK v : v = FastFadeOut(widgets[f])
    OBVIOUS
  <2>3. IsWidget(widgets[f]) /\ FadesAgree(widgets[f])
    BY <2>1 DEF StatusInv, WidgetInv
  <2>4. /\ IsWidget(v) /\ FadesAgree(v) /\ v.name = widgets[f].name
        /\ (v.fadeInStarted <=> widgets[f].fadeInStarted) /\ v.fadeOutStarted
    BY <2>2, <2>3, HiddenWidget
  <2>5. /\ justHidden \subseteq justHidden' /\ justHidden' \subseteq DOMAIN widgets
        /\ widgets[f].fadeOutStarted \/ ~widgets[f].fadeInStarted \/ f \in justHidden'
    BY <1>1, <1>2, <2>1 DEF IsShown
  <2> QED
    BY <1>1, <2>1, <2>2, <2>4, <2>5, OneWidget
<1>3. CASE ~IsKnown(f)
  <2>1. widgets' = widgets /\ justHidden' = justHidden
    BY <1>1, <1>3 DEF HideFollower, IsShown
  <2>2. ListInv'
    BY <1>1, <2>1, ListStays
  <2> QED
    BY <1>1, <2>1, <2>2 DEF StatusInv, WidgetInv, NamedInv, Mapped
<1> QED
  BY <1>2, <1>3

LEMMA ClipEndKeeps ==
  ASSUME StatusInv, NEW f \in Followers, ClipEnds(f)
  PROVE  StatusInv'
PROOF
<1>1. /\ nameMap' = nameMap /\ loaded' = loaded /\ given' = given /\ listed' = listed
      /\ justHidden' = justHidden /\ reshown' = reshown
      /\ f \in DOMAIN widgets /\ widgets[f].clip # "still"
      /\ widgets' = [widgets EXCEPT ![f] = Completed(widgets[f])]
  BY DEF ClipEnds, IsKnown
<1>2. PICK v : v = Completed(widgets[f])
  OBVIOUS
<1>3. IsWidget(widgets[f]) /\ FadesAgree(widgets[f]) /\ justHidden \subseteq DOMAIN widgets
  BY <1>1 DEF StatusInv, WidgetInv, ListInv
<1>4. /\ IsWidget(v) /\ FadesAgree(v) /\ v.name = widgets[f].name
      /\ (v.fadeInStarted <=> widgets[f].fadeInStarted) /\ (v.fadeOutStarted <=> widgets[f].fadeOutStarted)
  BY <1>1, <1>2, <1>3, CompletedWidget DEF SameFades
<1> QED
  BY <1>1, <1>2, <1>3, <1>4, OneWidget


LEMMA ShowKeeps ==
  ASSUME StatusInv, NEW f \in Followers, ShowFollower(f)
  PROVE  StatusInv'
PROOF
<1>1. /\ justHidden' = justHidden /\ nameMap' = nameMap /\ loaded' = loaded /\ given' = given
      /\ justHidden \subseteq DOMAIN widgets /\ reshown \subseteq DOMAIN widgets
  BY DEF ShowFollower, Told, StatusInv, ListInv
<1>2. CASE IsKnown(f) /\ ~IsShown(f)
  <2>1. PICK y : widgets' = [widgets EXCEPT ![f] = [FadeIn(ResetFadeState(widgets[f])) EXCEPT !.y = y]]
    BY <1>2 DEF ShowFollower
  <2>2. f \in DOMAIN widgets /\ listed' = Append(listed, f) /\ reshown' = reshown \cup ({f} \cap justHidden)
    BY <1>2 DEF ShowFollower, IsKnown
  <2>3. PICK v : v = [FadeIn(ResetFadeState(widgets[f])) EXCEPT !.y = y]
    OBVIOUS
  <2>4. IsWidget(widgets[f]) /\ FadesAgree(widgets[f])
    BY <2>2 DEF StatusInv, WidgetInv
  <2>5. IsWidget(v) /\ FadesAgree(v) /\ v.name = widgets[f].name /\ v.fadeInStarted /\ ~v.fadeOutStarted
    <3>1. PICK r : r = ResetFadeState(widgets[f])
      OBVIOUS
    <3>2. PICK u : u = FadeIn(r)
      OBVIOUS
    <3>3. v = [u EXCEPT !.y = y]
      BY <2>3, <3>1, <3>2
    <3>4. IsWidget(u) /\ FadesAgree(u) /\ u.name = widgets[f].name /\ u.fadeInStarted /\ ~u.fadeOutStarted
      BY <2>4, <3>1, <3>2, ShownWidget
    <3> QED
      BY <3>3, <3>4, MovedWidget DEF SameFades
  <2>6. /\ DOMAIN widgets' = DOMAIN widgets /\ widgets'[f] = v
        /\ \A g \in DOMAIN widgets : g # f => widgets'[g] = widgets[g]
    BY <2>1, <2>2, <2>3
  <2>7. WidgetInv'
    BY <1>1, <2>5, <2>6 DEF StatusInv, WidgetInv
  <2>8. NamedInv'
    BY <1>1, <2>5, <2>6 DEF StatusInv, NamedInv, Mapped
  <2>9. ListInv'
    <3>1. /\ listed \in Seq(Followers) /\ Len(listed) \in Nat
          /\ \A i \in 1..Len(listed) : listed[i] \in DOMAIN widgets /\ widgets[listed[i]].fadeInStarted
      BY DEF StatusInv, ListInv
    <3>2. /\ listed' \in Seq(Followers) /\ Len(listed)' = Len(listed) + 1 /\ listed'[Len(listed) + 1] = f
          /\ \A i \in 1..Len(listed) : listed'[i] = listed[i]
      BY <2>2, <3>1
    <3>3. \A i \in 1..Len(listed)' : i = Len(listed) + 1 \/ i \in 1..Len(listed)
      BY <3>1, <3>2
    <3>4. \A i \in 1..Len(listed)' : listed'[i] \in DOMAIN widgets' /\ widgets'[listed'[i]].fadeInStarted
      BY <2>2, <2>5, <2>6, <3>1, <3>2, <3>3
    <3>5. ASSUME NEW g \in DOMAIN widgets', widgets'[g].fadeInStarted, ~widgets'[g].fadeOutStarted
          PROVE  \E i \in 1..Len(listed)' : listed'[i] = g
      <4>1. CASE g = f
        BY <4>1, <3>1, <3>2
      <4>2. CASE g # f
        <5>1. PICK i \in 1..Len(listed) : listed[i] = g
          BY <4>2, <3>5, <2>6 DEF StatusInv, ListInv
        <5> QED
          BY <5>1, <3>1, <3>2
      <4> QED
        BY <4>1, <4>2
    <3>6. \A i, j \in 1..Len(listed)' : listed'[i] = listed'[j] => i = j \/ listed'[i] \in reshown'
      <4>1. \A i \in 1..Len(listed) : widgets[listed[i]].fadeOutStarted => listed[i] \in justHidden
        BY DEF StatusInv, ListInv
      <4>2. \A i \in 1..Len(listed) : listed[i] = f => f \in reshown'
        BY <1>2, <2>2, <3>1, <4>1 DEF IsShown
      <4>3. \A i, j \in 1..Len(listed) : listed[i] = listed[j] => i = j \/ listed[i] \in reshown
        BY DEF StatusInv, ListInv
      <4> QED
        BY <2>2, <4>2, <4>3, <3>2, <3>3
    <3>7. \A i \in 1..Len(listed)' : widgets'[listed'[i]].fadeOutStarted => listed'[i] \in justHidden'
      <4>1. \A i \in 1..Len(listed) : widgets[listed[i]].fadeOutStarted => listed[i] \in justHidden
        BY DEF StatusInv, ListInv
      <4> QED
        BY <1>1, <2>5, <2>6, <3>1, <3>2, <3>3, <4>1
    <3>8. justHidden' \subseteq DOMAIN widgets' /\ reshown' \subseteq DOMAIN widgets'
      BY <1>1, <2>2, <2>6
    <3> QED
      BY <3>2, <3>4, <3>5, <3>6, <3>7, <3>8 DEF ListInv
  <2> QED
    BY <1>1, <2>7, <2>8, <2>9 DEF StatusInv
<1>3. CASE ~(IsKnown(f) /\ ~IsShown(f))
  <2>1. widgets' = widgets /\ listed' = listed /\ reshown' = reshown
    BY <1>3 DEF ShowFollower
  <2>2. ListInv'
    BY <1>1, <2>1, ListStays
  <2> QED
    BY <1>1, <2>1, <2>2 DEF StatusInv, WidgetInv, NamedInv, Mapped
<1> QED
  BY <1>2, <1>3

LEMMA FileKeeps ==
  ASSUME StatusInv, NameMapLoaded
  PROVE  StatusInv'
PROOF
<1>1. /\ loaded = FALSE /\ loaded' = TRUE /\ nameMap' = FileMap
      /\ given' = given /\ listed' = listed /\ justHidden' = justHidden /\ reshown' = reshown
  BY DEF NameMapLoaded, StatusInv
<1>2. DOMAIN widgets' = DOMAIN widgets
  BY DEF NameMapLoaded
<1>3. ASSUME NEW f \in DOMAIN widgets
      PROVE  IsWidget(widgets'[f]) /\ FadesAgree(widgets'[f]) /\ SameFades(widgets'[f], widgets[f])
             /\ widgets'[f].name = Mapped(given[f])'
  <2>1. IsWidget(widgets[f]) /\ FadesAgree(widgets[f]) /\ widgets[f].name = Mapped(given[f])
    BY DEF StatusInv, WidgetInv, NamedInv
  <2>2. DOMAIN nameMap = {}
    BY <1>1 DEF StatusInv, NamedInv
  <2>3. widgets[f].name = given[f]
    BY <2>1, <2>2 DEF Mapped
  <2>4. widgets'[f] = [widgets[f] EXCEPT !.name = Renamed(given[f])]
    BY <2>3 DEF NameMapLoaded
  <2>5. PICK n : n = Renamed(given[f])
    OBVIOUS
  <2>6. n = Mapped(given[f])'
    BY <1>1, <2>5, RenamedAsMapped, FileMapFacts DEF Mapped
  <2> QED
    BY <2>1, <2>4, <2>5, <2>6, NamedWidget
<1>4. WidgetInv'
  BY <1>1, <1>2, <1>3 DEF StatusInv, WidgetInv
<1>5. ListInv'
  <2>1. justHidden' \subseteq DOMAIN widgets'
    BY <1>1, <1>2 DEF StatusInv, ListInv
  <2> QED
    BY <1>1, <1>2, <1>3, <2>1, ListStays DEF SameFades
<1>6. NamedInv'
  BY <1>1, <1>2, <1>3 DEF NamedInv
<1> QED
  BY <1>1, <1>4, <1>5, <1>6 DEF StatusInv

LEMMA FrameKeeps ==
  ASSUME StatusInv, Frame
  PROVE  StatusInv'
PROOF
<1>1. /\ nameMap' = nameMap /\ loaded' = loaded /\ given' = given
      /\ justHidden' = {} /\ reshown' = {f \in reshown : ~widgets[f].fadeOutStarted}
      /\ DOMAIN widgets' = DOMAIN widgets
  BY DEF Frame
<1>2. ASSUME NEW f \in DOMAIN widgets
      PROVE  IsWidget(widgets'[f]) /\ FadesAgree(widgets'[f]) /\ SameFades(widgets'[f], widgets[f])
             /\ widgets'[f].name = widgets[f].name
  <2>1. PICK y : widgets'[f] = [widgets[f] EXCEPT !.y = y]
    BY DEF Frame
  <2>2. IsWidget(widgets[f]) /\ FadesAgree(widgets[f])
    BY DEF StatusInv, WidgetInv
  <2> QED
    BY <2>1, <2>2, MovedWidget
<1>3. WidgetInv'
  BY <1>1, <1>2 DEF StatusInv, WidgetInv
<1>4. NamedInv'
  BY <1>1, <1>2 DEF StatusInv, NamedInv, Mapped
<1>5. ListInv'
  <2>1. /\ listed \in Seq(Followers) /\ Len(listed) \in Nat
        /\ \A i \in 1..Len(listed) : listed[i] \in DOMAIN widgets /\ widgets[listed[i]].fadeInStarted
    BY DEF StatusInv, ListInv
  <2>2. PICK S : S = Staying
    OBVIOUS
  <2>3. S \in SUBSET (1..Len(listed)) /\ \A i \in 1..Len(listed) : i \in S <=> ~widgets[listed[i]].fadeOutStarted
    BY <2>2 DEF Staying
  <2>4. PICK c : c = Cardinality(S)
    OBVIOUS
  <2>5. /\ c \in Nat
        /\ \A k \in 1..c : Nth(S, k) \in S /\ Cardinality({j \in S : j <= Nth(S, k)}) = k
        /\ \A i \in S : \E k \in 1..c : Nth(S, k) = i
    BY <2>1, <2>3, <2>4, NthFacts
  <2>6. listed' = [k \in 1..c |-> listed[Nth(S, k)]]
    BY <2>2, <2>4 DEF Frame
  <2>7. \A k \in 1..c : listed'[k] = listed[Nth(S, k)] /\ Nth(S, k) \in 1..Len(listed)
    BY <2>3, <2>5, <2>6
  <2>8. listed' \in Seq(Followers) /\ Len(listed)' = c
    <3>1. \A k \in 1..c : listed[Nth(S, k)] \in Followers
      BY <2>1, <2>7
    <3>2. listed' \in [1..c -> Followers]
      BY <3>1, <2>6
    <3> QED
      BY <3>2, <2>5
  <2>9. \A k \in 1..c : listed'[k] \in DOMAIN widgets' /\ widgets'[listed'[k]].fadeInStarted
    BY <2>1, <2>7, <1>1, <1>2 DEF SameFades
  <2>10. \A k \in 1..c : ~widgets'[listed'[k]].fadeOutStarted
    <3>1. \A k \in 1..c : ~widgets[listed[Nth(S, k)]].fadeOutStarted
      BY <2>3, <2>5
    <3> QED
      BY <3>1, <2>1, <2>7, <1>2 DEF SameFades
  <2>11. ASSUME NEW f \in DOMAIN widgets', widgets'[f].fadeInStarted, ~widgets'[f].fadeOutStarted
         PROVE  \E k \in 1..c : listed'[k] = f
    <3>1. f \in DOMAIN widgets /\ widgets[f].fadeInStarted /\ ~widgets[f].fadeOutStarted
      BY <2>11, <1>1, <1>2 DEF SameFades
    <3>2. PICK i \in 1..Len(listed) : listed[i] = f
      BY <3>1 DEF StatusInv, ListInv
    <3>3. PICK k \in 1..c : Nth(S, k) = i
      BY <3>1, <3>2, <2>3, <2>5
    <3> QED
      BY <3>2, <3>3, <2>7
  <2>12. ASSUME NEW k \in 1..c, NEW l \in 1..c, listed'[k] = listed'[l], k # l PROVE listed'[k] \in reshown'
    <3>1. \A i, j \in 1..Len(listed) : listed[i] = listed[j] => i = j \/ listed[i] \in reshown
      BY DEF StatusInv, ListInv
    <3>2. Nth(S, k) # Nth(S, l)
      BY <2>12, <2>5
    <3>3. listed'[k] \in reshown
      BY <3>1, <3>2, <2>7, <2>12
    <3>4. ~widgets[listed'[k]].fadeOutStarted
      BY <2>3, <2>5, <2>7
    <3> QED
      BY <3>3, <3>4, <1>1
  <2>13. justHidden' \subseteq DOMAIN widgets' /\ reshown' \subseteq DOMAIN widgets'
    BY <1>1 DEF StatusInv, ListInv
  <2> QED
    BY <2>8, <2>9, <2>10, <2>11, <2>12, <2>13 DEF ListInv
<1> QED
  BY <1>1, <1>3, <1>4, <1>5 DEF StatusInv

LEMMA StatusInvMeans == StatusInv => CompanionsAreListed
PROOF
<1> SUFFICES ASSUME StatusInv PROVE CompanionsAreListed
  OBVIOUS
<1>1. StatusTypeOK
  BY DEF StatusInv, WidgetInv, ListInv, StatusTypeOK, IsWidget
<1>2. listed \in Seq(Followers) /\ DOMAIN listed = 1..Len(listed)
  BY DEF StatusInv, ListInv
<1>3. OnePlaceEach
  <2>1. \A i, j \in 1..Len(listed) : listed[i] = listed[j] => i = j \/ listed[i] \in reshown
    BY DEF StatusInv, ListInv
  <2> QED
    BY <1>2, <2>1 DEF OnePlaceEach
<1>4. ListedAreVisible
  <2> SUFFICES ASSUME NEW f \in DOMAIN widgets
               PROVE  /\ widgets[f].fadeInStarted /\ ~widgets[f].fadeOutStarted
                            => widgets[f].visible /\ f \in ToSet(listed)
                      /\ widgets[f].fadeOutStarted /\ widgets[f].clip = "still" => ~widgets[f].visible
    BY DEF ListedAreVisible
  <2>1. FadesAgree(widgets[f])
    BY DEF StatusInv, WidgetInv
  <2>2. widgets[f].fadeInStarted /\ ~widgets[f].fadeOutStarted => f \in ToSet(listed)
    BY <1>2 DEF StatusInv, ListInv, ToSet
  <2> QED
    BY <2>1, <2>2 DEF FadesAgree
<1>5. NamesAreMapped
  BY DEF StatusInv, WidgetInv, NamedInv, NamesAreMapped
<1> QED
  BY <1>1, <1>3, <1>4, <1>5 DEF CompanionsAreListed

(* Whatever messages come and however many frames are between them, a      *)
(* companion's widget is in the list and visible while it is shown, names  *)
(* are mapped whether they came before the file or after it, and nobody is *)
(* in the list twice but a companion hidden and shown again between two    *)
(* frames.                                                                 *)
THEOREM CompanionsAreAlwaysListed == StatusSpec => []CompanionsAreListed
PROOF
<1>1. StatusInv /\ [StatusNext]_statusVars => StatusInv'
  <2> SUFFICES ASSUME StatusInv, [StatusNext]_statusVars PROVE StatusInv'
    OBVIOUS
  <2>1. ASSUME NEW f \in Followers, NEW name \in Names, AddFollower(f, name) PROVE StatusInv'
    BY <2>1, AddKeeps
  <2>2. ASSUME NEW f \in Followers, NEW hp \in Stats, UpdateStats(f, hp) PROVE StatusInv'
    BY <2>2, UpdateKeeps
  <2>3. ASSUME NEW f \in Followers, ShowFollower(f) PROVE StatusInv'
    BY <2>3, ShowKeeps
  <2>4. ASSUME NEW f \in Followers, HideFollower(f) PROVE StatusInv'
    BY <2>4, HideKeeps
  <2>5. ASSUME NEW f \in Followers, ClipEnds(f) PROVE StatusInv'
    BY <2>5, ClipEndKeeps
  <2>6. CASE NameMapLoaded
    BY <2>6, FileKeeps
  <2>7. CASE Frame
    BY <2>7, FrameKeeps
  <2>8. CASE UNCHANGED statusVars
    BY <2>8 DEF statusVars, StatusInv, WidgetInv, ListInv, NamedInv, Mapped
  <2> QED
    BY <2>1, <2>2, <2>3, <2>4, <2>5, <2>6, <2>7, <2>8 DEF StatusNext
<1> QED
  BY <1>1, StatusInit1, StatusInvMeans, PTL DEF StatusSpec

-----------------------------------------------------------------------------
USE MovieLoadsAssumption, BoundsAssumption

(* A message for the plugin's menu of one of these types.                  *)
Is(m, types) == m.menu = "FloatingDamageMenu" /\ m.type \in types

HasPending(q, types) == \E i \in DOMAIN q : Is(q[i], types)

Moves == {"open", "close"}

(* What the messages in q make of a menu that is open or not.              *)
LeavesOpen(q, wasOpen) ==
  IF HasPending(q, Moves)
    THEN \E i \in DOMAIN q :
           /\ Is(q[i], Moves) /\ q[i].type = "open"
           /\ \A j \in DOMAIN q : Is(q[j], Moves) => j <= i
    ELSE wasOpen

MenuWillBeOpen == LeavesOpen(messages, menu # "closed")

(* Before the handler has learned of the HUD nobody opens the menu; then   *)
(* the messages under way lead it to where the HUD is, and it is in the    *)
(* table when they arrive.                                                 *)
FollowInv ==
  /\ told => sink /\ (MenuWillBeOpen <=> hudOpen)
  /\ ~told => menu = "closed" /\ ~HasPending(messages, Moves)
  /\ sink => inTable

(* Settings are what the ini file has, up to the edits to be announced.    *)
SettingsAreLoaded == \A g \in Groups : g \notin due => settings[g] = ini[g]

SettingsInv ==
  /\ SettingsAreLoaded
  /\ menu = "ready" /\ "mod" \notin due /\ ~HasPending(messages, {"mod"}) => movie = ini["mod"]
  /\ menu \in {"loaded", "ready"} /\ "color" \notin due /\ ~HasPending(messages, {"color"})
       => shader = ini["color"]

-----------------------------------------------------------------------------
(* An appended message decides alone, if it opens or closes the menu.      *)
LEMMA PendingAppend ==
  ASSUME NEW q \in Seq(Message), NEW m \in Message, NEW types
  PROVE  HasPending(Append(q, m), types) <=> HasPending(q, types) \/ Is(m, types)
<1> DEFINE r == Append(q, m)
<1>1. /\ DOMAIN r = 1..(Len(q) + 1) /\ r[Len(q) + 1] = m
      /\ \A i \in 1..Len(q) : r[i] = q[i]
      /\ Len(q) \in Nat /\ DOMAIN q = 1..Len(q)
  BY AppendFacts
<1> HIDE DEF r
<1>2. HasPending(r, types) <=> HasPending(q, types) \/ Is(m, types)
  <2>1. ASSUME HasPending(r, types) PROVE HasPending(q, types) \/ Is(m, types)
    <3>1. PICK i \in DOMAIN r : Is(r[i], types)
      BY <2>1 DEF HasPending
    <3>2. i = Len(q) + 1 \/ i \in 1..Len(q)
      BY <1>1
    <3>3. QED
      BY <1>1, <3>1, <3>2 DEF HasPending
  <2>2. ASSUME HasPending(q, types) PROVE HasPending(r, types)
    <3>1. PICK i \in DOMAIN q : Is(q[i], types)
      BY <2>2 DEF HasPending
    <3>2. i \in DOMAIN r /\ r[i] = q[i]
      BY <1>1
    <3>3. QED
      BY <3>1, <3>2 DEF HasPending
  <2>3. ASSUME Is(m, types) PROVE HasPending(r, types)
    <3>1. Len(q) + 1 \in DOMAIN r
      BY <1>1
    <3>2. QED
      BY <1>1, <2>3, <3>1 DEF HasPending
  <2>4. QED
    BY <2>1, <2>2, <2>3
<1>3. QED
  BY <1>2 DEF r

LEMMA LeavesOpenAppend ==
  ASSUME NEW q \in Seq(Message), NEW m \in Message, NEW wasOpen \in BOOLEAN
  PROVE  LeavesOpen(Append(q, m), wasOpen)
           <=> IF Is(m, Moves) THEN m.type = "open" ELSE LeavesOpen(q, wasOpen)
<1> DEFINE r == Append(q, m)
<1>1. /\ DOMAIN r = 1..(Len(q) + 1) /\ r[Len(q) + 1] = m
      /\ \A i \in 1..Len(q) : r[i] = q[i]
      /\ Len(q) \in Nat /\ DOMAIN q = 1..Len(q)
  BY AppendFacts
<1>2. HasPending(r, Moves) <=> HasPending(q, Moves) \/ Is(m, Moves)
  BY PendingAppend
<1> HIDE DEF r
<1>3. CASE Is(m, Moves)
  <2>1. Len(q) + 1 \in DOMAIN r /\ \A j \in DOMAIN r : j <= Len(q) + 1
    BY <1>1
  <2>2. ASSUME NEW i \in DOMAIN r, \A j \in DOMAIN r : Is(r[j], Moves) => j <= i
        PROVE  i = Len(q) + 1
    <3>1. Len(q) + 1 <= i
      BY <1>1, <1>3, <2>1, <2>2
    <3>2. QED
      BY <1>1, <2>1, <3>1
  <2>3. LeavesOpen(r, wasOpen) <=> m.type = "open"
    BY <1>1, <1>2, <1>3, <2>1, <2>2 DEF LeavesOpen
  <2>4. QED
    BY <1>3, <2>3 DEF r
<1>4. CASE ~Is(m, Moves)
  <2>1. \A j \in DOMAIN r : Is(r[j], Moves) => j \in DOMAIN q /\ Is(q[j], Moves)
    BY <1>1, <1>4
  <2>2. \A j \in DOMAIN q : j \in DOMAIN r /\ r[j] = q[j]
    BY <1>1
  <2>3. LeavesOpen(r, wasOpen) <=> LeavesOpen(q, wasOpen)
    BY <1>2, <1>4, <2>1, <2>2 DEF LeavesOpen
  <2>4. QED
    BY <1>4, <2>3 DEF r
<1>5. QED
  BY <1>3, <1>4

(* The message at the head is the first to take effect.                    *)
LEMMA PendingTail ==
  ASSUME NEW q \in Seq(Message), q # <<>>, NEW types
  PROVE  HasPending(q, types) <=> Is(Head(q), types) \/ HasPending(Tail(q), types)
<1> DEFINE r == Tail(q)
<1>1. /\ DOMAIN r = 1..(Len(q) - 1) /\ Head(q) = q[1]
      /\ \A i \in 1..(Len(q) - 1) : r[i] = q[i + 1]
      /\ Len(q) \in Nat /\ Len(q) >= 1 /\ DOMAIN q = 1..Len(q)
  BY TailFacts
<1> HIDE DEF r
<1>2. ASSUME HasPending(q, types) PROVE Is(Head(q), types) \/ HasPending(r, types)
  <2>1. PICK i \in DOMAIN q : Is(q[i], types)
    BY <1>2 DEF HasPending
  <2>2. i = 1 \/ (i - 1 \in DOMAIN r /\ r[i - 1] = q[i])
    BY <1>1
  <2>3. QED
    BY <1>1, <2>1, <2>2 DEF HasPending
<1>3. ASSUME Is(Head(q), types) \/ HasPending(r, types) PROVE HasPending(q, types)
  <2>1. CASE Is(Head(q), types)
    <3>1. 1 \in DOMAIN q
      BY <1>1
    <3>2. QED
      BY <1>1, <2>1, <3>1 DEF HasPending
  <2>2. CASE HasPending(r, types)
    <3>1. PICK i \in DOMAIN r : Is(r[i], types)
      BY <2>2 DEF HasPending
    <3>2. i + 1 \in DOMAIN q /\ r[i] = q[i + 1]
      BY <1>1
    <3>3. QED
      BY <3>1, <3>2 DEF HasPending
  <2>3. QED
    BY <1>3, <2>1, <2>2
<1>4. QED
  BY <1>2, <1>3 DEF r

LEMMA LeavesOpenTail ==
  ASSUME NEW q \in Seq(Message), q # <<>>, NEW wasOpen \in BOOLEAN
  PROVE  LeavesOpen(q, wasOpen)
           <=> LeavesOpen(Tail(q), IF Is(Head(q), Moves) THEN Head(q).type = "open" ELSE wasOpen)
<1> DEFINE r == Tail(q)
<1>1. /\ DOMAIN r = 1..(Len(q) - 1) /\ Head(q) = q[1]
      /\ \A i \in 1..(Len(q) - 1) : r[i] = q[i + 1]
      /\ Len(q) \in Nat /\ Len(q) >= 1 /\ DOMAIN q = 1..Len(q)
  BY TailFacts
<1>2. HasPending(q, Moves) <=> Is(Head(q), Moves) \/ HasPending(r, Moves)
  BY PendingTail
<1> HIDE DEF r
<1>3. CASE HasPending(r, Moves)
  <2>1. PICK k \in DOMAIN r : Is(r[k], Moves)
    BY <1>3 DEF HasPending
  <2>2. k + 1 \in DOMAIN q /\ Is(q[k + 1], Moves) /\ k >= 1 /\ k \in Nat
    BY <1>1, <2>1
  <2>3. ASSUME NEW i \in DOMAIN r, \A j \in DOMAIN r : Is(r[j], Moves) => j <= i,
               NEW j \in DOMAIN q, Is(q[j], Moves)
        PROVE  j <= i + 1
    <3>1. j = 1 \/ (j - 1 \in DOMAIN r /\ r[j - 1] = q[j])
      BY <1>1
    <3>2. QED
      BY <1>1, <2>3, <3>1
  <2>4. ASSUME NEW i \in DOMAIN q, \A j \in DOMAIN q : Is(q[j], Moves) => j <= i
        PROVE  /\ i - 1 \in DOMAIN r /\ r[i - 1] = q[i]
               /\ \A j \in DOMAIN r : Is(r[j], Moves) => j <= i - 1
    <3>1. k + 1 <= i
      BY <2>2, <2>4
    <3>2. i - 1 \in DOMAIN r /\ r[i - 1] = q[i]
      BY <1>1, <2>2, <3>1
    <3>3. ASSUME NEW j \in DOMAIN r, Is(r[j], Moves) PROVE j <= i - 1
      <4>1. j + 1 \in DOMAIN q /\ Is(q[j + 1], Moves) /\ j \in Nat
        BY <1>1, <3>3
      <4>2. j + 1 <= i
        BY <2>4, <4>1
      <4>3. QED
        BY <1>1, <4>1, <4>2
    <3>4. QED
      BY <3>2, <3>3
  <2>5. \A i \in DOMAIN r : i + 1 \in DOMAIN q /\ q[i + 1] = r[i]
    BY <1>1
  <2>6. QED
    BY <1>2, <1>3, <2>3, <2>4, <2>5 DEF LeavesOpen, r
<1>4. CASE ~HasPending(r, Moves) /\ Is(Head(q), Moves)
  <2>1. \A j \in DOMAIN q : Is(q[j], Moves) => j = 1
    <3>1. \A j \in DOMAIN q : j = 1 \/ (j - 1 \in DOMAIN r /\ r[j - 1] = q[j])
      BY <1>1
    <3>2. QED
      BY <1>4, <3>1 DEF HasPending
  <2>2. 1 \in DOMAIN q
    BY <1>1
  <2>3. QED
    BY <1>1, <1>2, <1>4, <2>1, <2>2 DEF LeavesOpen, r
<1>5. CASE ~HasPending(r, Moves) /\ ~Is(Head(q), Moves)
  BY <1>2, <1>5 DEF LeavesOpen, r
<1>6. QED
  BY <1>3, <1>4, <1>5

-----------------------------------------------------------------------------
(* The numbers go through the menu as through any other: every step of the *)
(* menu is one of the queue or leaves it alone.                            *)
LEMMA MenuQueueStep ==
  ASSUME [MenuNext]_menuVars
  PROVE  [QueueNext]_queueVars
<1> USE DEF queueVars
<1>1. CASE \E name \in GameMenus, type \in {"open", "close"} : GameSends(name, type)
  BY <1>1 DEF GameSends
<1>2. CASE GameLoaded
  BY <1>2 DEF GameLoaded
<1>3. CASE GameMenuMessage
  BY <1>3 DEF GameMenuMessage
<1>4. CASE MenuOpens
  BY <1>4 DEF MenuOpens, QueueNext, UIStep
<1>5. CASE MenuCloses
  BY <1>5 DEF MenuCloses, QueueNext, UIStep
<1>6. CASE ModSettingsArrive \/ ColorSettingsArrive
  BY <1>6 DEF ModSettingsArrive, ColorSettingsArrive
<1>7. CASE MovieCreated
  BY <1>7 DEF MovieCreated, QueueNext, UIStep
<1>8. CASE \E g \in Groups : EditSetting(g) \/ OnSettingChanged(g)
  BY <1>8 DEF EditSetting, OnSettingChanged
<1>9. CASE (Register \/ Drawn) /\ UNCHANGED <<menuOnly, settingVars>>
  BY <1>9 DEF Drawn, QueueNext, UIStep
<1>10. CASE UNCHANGED menuVars
  BY <1>10 DEF menuVars
<1>11. QED
  BY <1>1, <1>2, <1>3, <1>4, <1>5, <1>6, <1>7, <1>8, <1>9, <1>10 DEF MenuNext, Handled

(* The messages that are sent are messages.                                *)
LEMMA SentAreMessages ==
  /\ \A name \in GameMenus, type \in {"open", "close"} : [menu |-> name, type |-> type] \in Message
  /\ \A type \in {"open", "close"} \cup Groups : ToFloatingDamage(type) \in Message
<1>1. ASSUME NEW name \in GameMenus, NEW type \in {"open", "close"}
      PROVE  [menu |-> name, type |-> type] \in Message
  BY DEF Message
<1>2. ASSUME NEW type \in {"open", "close"} \cup Groups
      PROVE  ToFloatingDamage(type) \in Message
  BY DEF Message, ToFloatingDamage
<1>3. QED
  BY <1>1, <1>2

(* The handler answers with one message or none.                           *)
LEMMA AnswerIs ==
  ASSUME NEW name \in GameMenus, NEW isOpen \in BOOLEAN
  PROVE  Answer(name, isOpen) =
           IF name = "HUDMenu"
             THEN <<ToFloatingDamage(IF isOpen THEN "open" ELSE "close")>>
             ELSE IF ~isOpen /\ hudOpen /\ menu = "closed"
                    THEN <<ToFloatingDamage("open")>> ELSE <<>>
<1>1. CASE name = "HUDMenu"
  BY <1>1 DEF Answer
<1>2. CASE name = "FaderMenu"
  BY <1>2 DEF Answer
<1>3. QED
  BY <1>1, <1>2 DEF GameMenus

LEMMA ConcatFacts ==
  ASSUME NEW S, NEW q \in Seq(S), NEW m \in S
  PROVE  q \o <<>> = q /\ q \o <<m>> = Append(q, m)
  OBVIOUS

(* What the game's own message leaves in the queue.                        *)
LEMMA GameMenuMessageSends ==
  ASSUME MenuTypeOK, GameMenuMessage
  PROVE  /\ messages # <<>> /\ Tail(messages) \in Seq(Message)
         /\ Head(messages) \in Message /\ Head(messages).menu \in GameMenus
         /\ \/ messages' = Tail(messages)
            \/ \E type \in {"open", "close"} :
                 messages' = Append(Tail(messages), ToFloatingDamage(type))
<1> DEFINE name == Head(messages).menu
           isOpen == Head(messages).type = "open"
<1>1. /\ messages # <<>> /\ Tail(messages) \in Seq(Message) /\ Head(messages) \in Message
      /\ name \in GameMenus
  BY TailFacts DEF MenuTypeOK, GameMenuMessage
<1>2. \/ messages' = Tail(messages) \o <<>>
      \/ messages' = Tail(messages) \o Answer(name, isOpen)
  BY DEF GameMenuMessage
<1>3. isOpen \in BOOLEAN
  OBVIOUS
<1> HIDE DEF name, isOpen
<1>4. \/ Answer(name, isOpen) = <<>>
      \/ \E type \in {"open", "close"} : Answer(name, isOpen) = <<ToFloatingDamage(type)>>
  BY <1>1, <1>3, AnswerIs
<1>5. \A type \in {"open", "close"} :
        Tail(messages) \o <<ToFloatingDamage(type)>>
          = Append(Tail(messages), ToFloatingDamage(type))
  BY <1>1, ConcatFacts, SentAreMessages
<1>6. Tail(messages) \o <<>> = Tail(messages)
  BY <1>1, ConcatFacts, SentAreMessages
<1>7. \/ messages' = Tail(messages)
      \/ \E type \in {"open", "close"} :
           messages' = Append(Tail(messages), ToFloatingDamage(type))
  BY <1>2, <1>4, <1>5, <1>6
<1>8. QED
  BY <1>1, <1>7 DEF name

-----------------------------------------------------------------------------
(* The types.                                                              *)
LEMMA MenuTypeInit == MenuInit => MenuTypeOK /\ QueueBounded
<1> SUFFICES ASSUME MenuInit PROVE MenuTypeOK /\ QueueBounded
  OBVIOUS
<1>1. QueueTypeOK /\ QueueBounded
  BY QueueTypeInit DEF MenuInit
<1>2. /\ <<>> \in Seq(Message) /\ 0 \in Nat
      /\ [g \in Groups |-> 0] \in [Groups -> Nat]
  OBVIOUS
<1>3. QED
  BY <1>1, <1>2 DEF MenuInit, MenuTypeOK

LEMMA MenuTypeStep ==
  ASSUME MenuTypeOK, QueueBounded, [MenuNext]_menuVars
  PROVE  MenuTypeOK' /\ QueueBounded'
<1>1. QueueTypeOK' /\ QueueBounded'
  BY MenuQueueStep, QueueTypeStep DEF MenuTypeOK
<1> DEFINE Rest == /\ messages' \in Seq(Message)
                   /\ sent' \in Nat
                   /\ hudOpen' \in BOOLEAN /\ faderOpen' \in BOOLEAN
                   /\ inTable' \in BOOLEAN /\ sink' \in BOOLEAN /\ told' \in BOOLEAN
                   /\ ini' \in [Groups -> Nat] /\ settings' \in [Groups -> Nat]
                   /\ due' \subseteq Groups
                   /\ movie' \in Nat /\ shader' \in Nat
<1> USE DEF MenuTypeOK, menuOnly, settingVars
<1>2. ASSUME NEW name \in GameMenus, NEW type \in {"open", "close"}, GameSends(name, type)
      PROVE  Rest
  <2>1. messages' \in Seq(Message)
    BY <1>2, AppendFacts, SentAreMessages DEF GameSends
  <2>2. QED
    BY <1>2, <2>1 DEF GameSends
<1>3. ASSUME GameLoaded PROVE Rest
  BY <1>3 DEF GameLoaded, RegisterMenu, RegisterHandler
<1>4. ASSUME GameMenuMessage PROVE Rest
  <2>1. messages' \in Seq(Message)
    <3>1. /\ Tail(messages) \in Seq(Message)
          /\ \/ messages' = Tail(messages)
             \/ \E type \in {"open", "close"} :
                  messages' = Append(Tail(messages), ToFloatingDamage(type))
      BY <1>4, GameMenuMessageSends
    <3>2. \A type \in {"open", "close"} : ToFloatingDamage(type) \in Message
      BY SentAreMessages
    <3>3. ASSUME NEW m \in Message PROVE Append(Tail(messages), m) \in Seq(Message)
      BY <3>1, AppendFacts
    <3>4. QED
      BY <3>1, <3>2, <3>3
  <2>2. hudOpen' \in BOOLEAN /\ faderOpen' \in BOOLEAN /\ told' \in BOOLEAN
    BY <1>4 DEF GameMenuMessage
  <2>3. QED
    BY <1>4, <2>1, <2>2 DEF GameMenuMessage
<1>5. ASSUME NEW type, Receives(type) PROVE messages' \in Seq(Message)
  BY <1>5, TailFacts DEF Receives
<1>6. settings["mod"] \in Nat /\ settings["color"] \in Nat
  BY DEF Groups
<1>7. ASSUME MenuOpens PROVE Rest
  BY <1>5, <1>6, <1>7 DEF MenuOpens
<1>8. ASSUME MenuCloses PROVE Rest
  BY <1>5, <1>8 DEF MenuCloses
<1>9. ASSUME ModSettingsArrive PROVE Rest
  BY <1>5, <1>6, <1>9 DEF ModSettingsArrive
<1>10. ASSUME ColorSettingsArrive PROVE Rest
  BY <1>5, <1>6, <1>10 DEF ColorSettingsArrive
<1>11. ASSUME MovieCreated PROVE Rest
  BY <1>6, <1>11 DEF MovieCreated
<1>12. ASSUME NEW g \in Groups, EditSetting(g) PROVE Rest
  BY <1>12 DEF EditSetting
<1>13. ASSUME NEW g \in Groups, OnSettingChanged(g) PROVE Rest
  <2>1. messages' \in Seq(Message)
    BY <1>13, AppendFacts, SentAreMessages DEF OnSettingChanged
  <2>2. QED
    BY <1>13, <2>1 DEF OnSettingChanged, LoadSettings
<1>14. ASSUME UNCHANGED <<menuOnly, settingVars>> PROVE Rest
  BY <1>14
<1>15. ASSUME UNCHANGED menuVars PROVE Rest
  BY <1>15 DEF menuVars
<1>16. Rest
  BY <1>2, <1>3, <1>4, <1>7, <1>8, <1>9, <1>10, <1>11, <1>12, <1>13, <1>14, <1>15
     DEF MenuNext, Handled
<1>17. QED
  BY <1>1, <1>16

(* The menu, its queue of messages and its settings keep their types, and  *)
(* the queue of numbers its bound, in every order of openings, closings,   *)
(* loading screens and edits.                                              *)
THEOREM MenuTypeCorrect == MenuSpec => [](MenuTypeOK /\ QueueBounded)
  BY MenuTypeInit, MenuTypeStep, PTL DEF MenuSpec

(* What was proved of the queue holds for a menu that opens and closes with*)
(* the HUD and is told of its settings: numbers are shown fresh, in order  *)
(* and once, and frames are atomic to the hooks.                           *)
THEOREM MenuIsFed == MenuSpec => QueueIsFeed
<1>1. MenuInit => QueueInit
  BY DEF MenuInit
<1>2. MenuSpec => QueueSpec
  BY <1>1, MenuQueueStep, PTL DEF MenuSpec, QueueSpec
<1>3. QED
  BY <1>2, QueueAlwaysFeed

-----------------------------------------------------------------------------
(* The property in the words of the proof.                                 *)
LEMMA WillBeOpenIs ==
  ASSUME MenuTypeOK
  PROVE  /\ WillBeOpen <=> MenuWillBeOpen
         /\ \A types : Pending(types) = {} <=> ~HasPending(messages, types)
<1>1. \A types : Pending(types) = {} <=> ~HasPending(messages, types)
  BY DEF Pending, HasPending, Is
<1>2. CASE HasPending(messages, Moves)
  BY <1>1, <1>2 DEF WillBeOpen, MenuWillBeOpen, LeavesOpen, Pending, Is, Moves
<1>3. CASE ~HasPending(messages, Moves)
  BY <1>1, <1>3 DEF WillBeOpen, MenuWillBeOpen, LeavesOpen, Moves
<1>4. QED
  BY <1>1, <1>2, <1>3

LEMMA NonePending == \A types : ~HasPending(<<>>, types)
<1>1. DOMAIN <<>> = {}
  OBVIOUS
<1>2. QED
  BY <1>1 DEF HasPending

LEMMA FollowInit == MenuInit => FollowInv
  BY NonePending DEF MenuInit, QueueInit, FollowInv

(* A message that is none of the moves makes no difference.                *)
LEMMA FollowOther ==
  ASSUME MenuTypeOK, FollowInv, NEW m \in Message, ~Is(m, Moves),
         \/ messages' = Append(messages, m)
         \/ messages # <<>> /\ m = Head(messages) /\ messages' = Tail(messages),
         (menu' = "closed") <=> (menu = "closed"),
         UNCHANGED <<hudOpen, inTable, sink, told>>
  PROVE  FollowInv'
<1>1. messages \in Seq(Message)
  BY DEF MenuTypeOK
<1>2. HasPending(messages', Moves) <=> HasPending(messages, Moves)
  <2>1. CASE messages' = Append(messages, m)
    BY <1>1, <2>1, PendingAppend
  <2>2. CASE messages # <<>> /\ m = Head(messages) /\ messages' = Tail(messages)
    BY <1>1, <2>2, PendingTail
  <2>3. QED
    BY <2>1, <2>2
<1>3. ASSUME NEW wasOpen \in BOOLEAN
      PROVE  LeavesOpen(messages', wasOpen) <=> LeavesOpen(messages, wasOpen)
  <2>1. CASE messages' = Append(messages, m)
    BY <1>1, <2>1, LeavesOpenAppend
  <2>2. CASE messages # <<>> /\ m = Head(messages) /\ messages' = Tail(messages)
    BY <1>1, <2>2, LeavesOpenTail
  <2>3. QED
    BY <2>1, <2>2
<1>4. MenuWillBeOpen' <=> MenuWillBeOpen
  <2>1. (menu' # "closed") = (menu # "closed") /\ (menu # "closed") \in BOOLEAN
    OBVIOUS
  <2>2. QED
    BY <1>3, <2>1 DEF MenuWillBeOpen
<1>5. QED
  BY <1>2, <1>4 DEF FollowInv

(* A move of the plugin's menu is appended when the HUD is going there, and*)
(* takes effect when it arrives.                                           *)
LEMMA FollowSent ==
  ASSUME MenuTypeOK, FollowInv, NEW type \in {"open", "close"},
         messages # <<>>, Head(messages).menu \in GameMenus, Tail(messages) \in Seq(Message),
         messages' = Append(Tail(messages), ToFloatingDamage(type)),
         hudOpen' = (type = "open"), sink, told', UNCHANGED <<inTable, sink>>
  PROVE  FollowInv'
<1> DEFINE m == ToFloatingDamage(type)
<1>1. m \in Message /\ Is(m, Moves) /\ (m.type = "open" <=> type = "open")
  BY SentAreMessages DEF ToFloatingDamage, Is, Moves
<1>2. ASSUME NEW wasOpen \in BOOLEAN
      PROVE  LeavesOpen(messages', wasOpen) <=> type = "open"
  <2>1. LeavesOpen(Append(Tail(messages), m), wasOpen)
          <=> IF Is(m, Moves) THEN m.type = "open" ELSE LeavesOpen(Tail(messages), wasOpen)
    BY <1>1, LeavesOpenAppend
  <2>2. QED
    BY <1>1, <2>1
<1>3. MenuWillBeOpen' <=> hudOpen'
  <2>1. (menu' # "closed") \in BOOLEAN
    OBVIOUS
  <2>2. QED
    BY <1>2, <2>1 DEF MenuWillBeOpen
<1>4. QED
  BY <1>3 DEF FollowInv

LEMMA FollowGameMenu ==
  ASSUME MenuTypeOK, FollowInv, GameMenuMessage
  PROVE  FollowInv'
<1> DEFINE m == Head(messages)
           name == Head(messages).menu
           isOpen == Head(messages).type = "open"
           changed == isOpen # (IF name = "HUDMenu" THEN hudOpen ELSE faderOpen)
<1>1. /\ messages # <<>> /\ Tail(messages) \in Seq(Message) /\ m \in Message
      /\ name \in GameMenus /\ messages \in Seq(Message)
  BY GameMenuMessageSends DEF MenuTypeOK
<1>2. /\ hudOpen' = (IF name = "HUDMenu" THEN isOpen ELSE hudOpen)
      /\ messages' = Tail(messages) \o (IF sink /\ changed THEN Answer(name, isOpen) ELSE <<>>)
      /\ told' = (told \/ (sink /\ changed /\ (name = "HUDMenu" \/ (~isOpen /\ hudOpen))))
      /\ UNCHANGED <<inTable, sink, menu>>
  BY DEF GameMenuMessage, queueVars
<1>3. isOpen \in BOOLEAN /\ hudOpen \in BOOLEAN /\ ~Is(m, Moves) /\ name = m.menu
  BY <1>1 DEF MenuTypeOK, Is, GameMenus
<1>4. \A type \in {"open", "close"} :
        Tail(messages) \o <<ToFloatingDamage(type)>>
          = Append(Tail(messages), ToFloatingDamage(type))
  BY <1>1, ConcatFacts, SentAreMessages
<1>5. Tail(messages) \o <<>> = Tail(messages)
  BY <1>1, ConcatFacts
<1>6. ASSUME messages' = Tail(messages), hudOpen' = hudOpen, told' = told
      PROVE  FollowInv'
  BY <1>1, <1>2, <1>3, <1>6, FollowOther
<1>7. Answer(name, isOpen) =
        IF name = "HUDMenu"
          THEN <<ToFloatingDamage(IF isOpen THEN "open" ELSE "close")>>
          ELSE IF ~isOpen /\ hudOpen /\ menu = "closed"
                 THEN <<ToFloatingDamage("open")>> ELSE <<>>
  BY <1>1, <1>3, AnswerIs
<1> HIDE DEF m, name, isOpen, changed
\* Nobody listens, and nothing was sent to the menu.
<1>8. CASE ~sink
  <2>1. ~told /\ ~told' /\ messages' = Tail(messages)
    BY <1>2, <1>5, <1>8 DEF FollowInv, MenuTypeOK
  <2>2. ~HasPending(messages', Moves)
    BY <1>1, <2>1, PendingTail DEF FollowInv
  <2>3. QED
    BY <1>2, <1>8, <2>1, <2>2 DEF FollowInv
<1>12. CASE sink /\ ~changed
  <2>1. hudOpen' = hudOpen
    BY <1>2, <1>3, <1>12 DEF changed
  <2>2. QED
    BY <1>2, <1>5, <1>6, <1>12, <2>1 DEF MenuTypeOK
<1>9. CASE sink /\ changed /\ name = "HUDMenu"
  <2>1. PICK type \in {"open", "close"} :
          /\ type = (IF isOpen THEN "open" ELSE "close")
          /\ Answer(name, isOpen) = <<ToFloatingDamage(type)>>
    BY <1>7, <1>9
  <2>2. messages' = Append(Tail(messages), ToFloatingDamage(type))
    BY <1>2, <1>4, <1>9, <2>1
  <2>3. hudOpen' = (type = "open") /\ told'
    BY <1>2, <1>3, <1>9, <2>1
  <2>4. Head(messages).menu \in GameMenus
    BY <1>1 DEF name
  <2>5. QED
    BY <1>1, <1>2, <1>9, <2>2, <2>3, <2>4, FollowSent
<1>10. CASE sink /\ changed /\ name = "FaderMenu"
  <2>1. CASE ~isOpen /\ hudOpen /\ menu = "closed"
    <3>1. messages' = Append(Tail(messages), ToFloatingDamage("open"))
      BY <1>2, <1>4, <1>7, <1>10, <2>1
    <3>2. hudOpen' = ("open" = "open") /\ told'
      BY <1>2, <1>3, <1>10, <2>1
    <3>3. Head(messages).menu \in GameMenus
      BY <1>1 DEF name
    <3>4. QED
      BY <1>1, <1>2, <1>10, <3>1, <3>2, <3>3, FollowSent
  <2>2. CASE ~(~isOpen /\ hudOpen /\ menu = "closed")
    <3>1. messages' = Tail(messages) /\ hudOpen' = hudOpen
      BY <1>2, <1>5, <1>7, <1>10, <2>2
    \* A menu that is open was opened by the handler.
    <3>2. ~isOpen /\ hudOpen => told
      BY <2>2 DEF FollowInv
    <3>3. told' = told
      BY <1>2, <1>10, <3>2 DEF MenuTypeOK
    <3>4. QED
      BY <1>6, <3>1, <3>3
  <2>3. QED
    BY <2>1, <2>2
<1>11. QED
  BY <1>1, <1>8, <1>9, <1>10, <1>12 DEF GameMenus

LEMMA FollowMenuMoves ==
  ASSUME MenuTypeOK, FollowInv, MenuOpens \/ MenuCloses
  PROVE  FollowInv'
<1> DEFINE m == Head(messages)
<1>1. PICK type \in {"open", "close"} :
        /\ Receives(type)
        /\ (menu' # "closed") <=> (type = "open" /\ (inTable \/ menu # "closed"))
  <2>1. CASE MenuOpens
    <3>1. Receives("open")
      BY <2>1 DEF MenuOpens
    <3>2. CASE inTable
      BY <2>1, <3>1, <3>2 DEF MenuOpens, HandleOpen
    <3>3. CASE ~inTable
      BY <2>1, <3>1, <3>3 DEF MenuOpens, queueVars
    <3>4. QED
      BY <3>2, <3>3
  <2>2. CASE MenuCloses
    <3>1. Receives("close")
      BY <2>2 DEF MenuCloses
    <3>2. menu' = "closed"
      BY <2>2 DEF MenuCloses, HandleClose, queueVars
    <3>3. QED
      BY <3>1, <3>2
  <2>3. QED
    BY <2>1, <2>2
<1>2. /\ messages \in Seq(Message) /\ messages # <<>>
      /\ m = ToFloatingDamage(type) /\ messages' = Tail(messages)
      /\ Is(m, Moves) /\ (m.type = "open" <=> type = "open")
  BY <1>1 DEF Receives, MenuTypeOK, ToFloatingDamage, Is, Moves
<1>3. UNCHANGED <<hudOpen, inTable, sink, told>>
  BY DEF MenuOpens, MenuCloses
\* A move is under way, so that the handler has been told and the menu is in the table.
<1>4. told /\ sink /\ inTable
  <2>1. HasPending(messages, Moves)
    BY <1>2, PendingTail
  <2>2. QED
    BY <2>1 DEF FollowInv
<1>5. (menu' # "closed") = (type = "open")
  BY <1>1, <1>4
<1>6. MenuWillBeOpen <=> LeavesOpen(Tail(messages), type = "open")
  <2>1. /\ (menu # "closed") \in BOOLEAN
        /\ (IF Is(m, Moves) THEN m.type = "open" ELSE menu # "closed") = (type = "open")
    BY <1>2
  <2>2. QED
    BY <1>2, <2>1, LeavesOpenTail DEF MenuWillBeOpen
<1>7. MenuWillBeOpen' <=> LeavesOpen(Tail(messages), type = "open")
  BY <1>2, <1>5 DEF MenuWillBeOpen
<1>8. QED
  BY <1>3, <1>4, <1>6, <1>7 DEF FollowInv

LEMMA FollowStep ==
  ASSUME MenuTypeOK, FollowInv, [MenuNext]_menuVars
  PROVE  FollowInv'
<1> DEFINE Still == UNCHANGED <<hudOpen, inTable, sink, told>>
                      /\ ((menu' = "closed") <=> (menu = "closed"))
<1>1. ASSUME NEW name \in GameMenus, NEW type \in {"open", "close"}, GameSends(name, type)
      PROVE  FollowInv'
  <2>1. /\ [menu |-> name, type |-> type] \in Message
        /\ ~Is([menu |-> name, type |-> type], Moves)
    BY SentAreMessages DEF Is, GameMenus
  <2>2. Still
    BY <1>1 DEF GameSends, queueVars
  <2>3. QED
    BY <1>1, <2>1, <2>2, FollowOther DEF GameSends
<1>2. CASE GameLoaded
  <2>1. /\ ~told /\ menu = "closed" /\ ~HasPending(messages, Moves)
        /\ messages' = messages /\ menu' = menu /\ hudOpen' = hudOpen
        /\ sink' /\ inTable' /\ told' = ~hudOpen
    BY <1>2 DEF GameLoaded, RegisterMenu, RegisterHandler, FollowInv, queueVars
  <2>2. ~MenuWillBeOpen'
    BY <2>1 DEF MenuWillBeOpen, LeavesOpen
  <2>3. QED
    BY <2>1, <2>2 DEF FollowInv, MenuTypeOK
<1>3. CASE GameMenuMessage
  BY <1>3, FollowGameMenu
<1>4. CASE MenuOpens \/ MenuCloses
  BY <1>4, FollowMenuMoves
<1>5. CASE ModSettingsArrive \/ ColorSettingsArrive
  <2>1. PICK g \in Groups : Receives(g)
    BY <1>5 DEF ModSettingsArrive, ColorSettingsArrive, Groups
  <2>2. /\ messages # <<>> /\ Head(messages) \in Message /\ messages' = Tail(messages)
        /\ ~Is(Head(messages), Moves)
    BY <2>1, SentAreMessages DEF Receives, ToFloatingDamage, Is, Moves, Groups
  <2>3. Still
    BY <1>5 DEF ModSettingsArrive, ColorSettingsArrive, queueVars
  <2>4. QED
    BY <2>2, <2>3, FollowOther
<1>6. CASE UNCHANGED menuOnly /\ Still
  BY <1>6 DEF menuOnly, FollowInv, MenuWillBeOpen
<1>7. CASE MovieCreated
  BY <1>6, <1>7 DEF MovieCreated, OnCodeObjCreate, menuOnly
<1>8. ASSUME NEW g \in Groups, EditSetting(g) PROVE FollowInv'
  BY <1>6, <1>8 DEF EditSetting, menuOnly, queueVars
<1>9. ASSUME NEW g \in Groups, OnSettingChanged(g) PROVE FollowInv'
  <2>1. /\ ToFloatingDamage(g) \in Message /\ ~Is(ToFloatingDamage(g), Moves)
    BY <1>9, SentAreMessages DEF ToFloatingDamage, Is, Moves, Groups
  <2>2. Still
    BY <1>9 DEF OnSettingChanged, queueVars
  <2>3. QED
    BY <1>9, <2>1, <2>2, FollowOther DEF OnSettingChanged
<1>10. CASE (Register \/ Drawn) /\ UNCHANGED <<menuOnly, settingVars>>
  BY <1>6, <1>10 DEF Drawn, Register, DrawEnter, DrawPop, DrawLeave, menuOnly
<1>11. CASE UNCHANGED menuVars
  BY <1>6, <1>11 DEF menuVars, menuOnly, queueVars
<1>12. QED
  BY <1>1, <1>2, <1>3, <1>4, <1>5, <1>7, <1>8, <1>9, <1>10, <1>11 DEF MenuNext, Handled

(* Once the handler has learned whether the HUD is open, the menu is on    *)
(* its way to where the HUD is, however many messages are under way and in *)
(* whatever order the game opens and closes its menus and loads.           *)
THEOREM MenuAlwaysFollowsHUD == MenuSpec => []MenuFollowsHUD
<1>1. MenuSpec => []FollowInv
  BY MenuTypeCorrect, FollowInit, FollowStep, PTL DEF MenuSpec
<1>2. MenuTypeOK /\ FollowInv => MenuFollowsHUD
  BY WillBeOpenIs DEF FollowInv, MenuFollowsHUD
<1>3. QED
  BY <1>1, <1>2, MenuTypeCorrect, PTL

-----------------------------------------------------------------------------
(* The settings.                                                           *)
LEMMA SettingsInit == MenuInit => SettingsInv
  BY DEF MenuInit, QueueInit, SettingsInv, SettingsAreLoaded

(* A step that neither edits nor announces and leaves a settings message   *)
(* in the queue keeps the settings where they are, unless it gives the     *)
(* movie or the shader what is in memory.                                  *)
LEMMA SettingsKept ==
  ASSUME MenuTypeOK, SettingsInv, UNCHANGED <<ini, settings, due>>,
         \/ movie' = settings["mod"]
         \/ /\ movie' = movie
            /\ menu' = "ready" => menu = "ready"
            /\ HasPending(messages, {"mod"}) => HasPending(messages', {"mod"}),
         \/ shader' = settings["color"]
         \/ /\ shader' = shader
            /\ menu' \in {"loaded", "ready"} => menu \in {"loaded", "ready"}
            /\ HasPending(messages, {"color"}) => HasPending(messages', {"color"})
  PROVE  SettingsInv'
<1>1. SettingsAreLoaded'
  BY DEF SettingsInv, SettingsAreLoaded
<1>2. menu' = "ready" /\ "mod" \notin due' /\ ~HasPending(messages', {"mod"})
        => movie' = ini'["mod"]
  BY DEF SettingsInv, SettingsAreLoaded, Groups
<1>3. menu' \in {"loaded", "ready"} /\ "color" \notin due' /\ ~HasPending(messages', {"color"})
        => shader' = ini'["color"]
  BY DEF SettingsInv, SettingsAreLoaded, Groups
<1>4. QED
  BY <1>1, <1>2, <1>3 DEF SettingsInv

(* A message that is received takes no settings message but itself.        *)
LEMMA ReceivedLeaves ==
  ASSUME MenuTypeOK, NEW type \in Moves \cup Groups, Receives(type),
         NEW g \in Groups, g # type
  PROVE  HasPending(messages, {g}) => HasPending(messages', {g})
<1>1. /\ messages \in Seq(Message) /\ messages # <<>> /\ messages' = Tail(messages)
      /\ ~Is(Head(messages), {g})
  BY DEF MenuTypeOK, Receives, ToFloatingDamage, Is
<1>2. QED
  BY <1>1, PendingTail

LEMMA AppendedLeaves ==
  ASSUME NEW q \in Seq(Message), NEW m \in Message, NEW types
  PROVE  HasPending(q, types) => HasPending(Append(q, m), types)
  BY PendingAppend

LEMMA SettingsStep ==
  ASSUME MenuTypeOK, SettingsInv, [MenuNext]_menuVars
  PROVE  SettingsInv'
<1>0. messages \in Seq(Message)
  BY DEF MenuTypeOK
<1>1. ASSUME NEW name \in GameMenus, NEW type \in {"open", "close"}, GameSends(name, type)
      PROVE  SettingsInv'
  <2>1. \A types : HasPending(messages, types) => HasPending(messages', types)
    BY <1>0, <1>1, AppendedLeaves, SentAreMessages DEF GameSends
  <2>2. UNCHANGED <<menu, settingVars>>
    BY <1>1 DEF GameSends, queueVars
  <2>3. QED
    BY <2>1, <2>2, SettingsKept DEF settingVars
<1>2. CASE GameLoaded
  BY <1>2, SettingsKept DEF GameLoaded, queueVars, settingVars
<1>3. CASE GameMenuMessage
  <2>1. /\ messages # <<>> /\ Tail(messages) \in Seq(Message)
        /\ Head(messages) \in Message /\ Head(messages).menu \in GameMenus
        /\ \/ messages' = Tail(messages)
           \/ \E type \in {"open", "close"} :
                messages' = Append(Tail(messages), ToFloatingDamage(type))
    BY <1>3, GameMenuMessageSends
  <2>2. ASSUME NEW types PROVE HasPending(messages, types) => HasPending(messages', types)
    <3>1. ~Is(Head(messages), types)
      BY <2>1 DEF Is, GameMenus
    <3>2. HasPending(messages, types) => HasPending(Tail(messages), types)
      BY <1>0, <2>1, <3>1, PendingTail
    <3>3. \A type \in {"open", "close"} : ToFloatingDamage(type) \in Message
      BY SentAreMessages
    <3>4. HasPending(Tail(messages), types) => HasPending(messages', types)
      BY <2>1, <3>3, AppendedLeaves
    <3>5. QED
      BY <3>2, <3>4
  <2>3. UNCHANGED <<menu, settingVars>>
    BY <1>3 DEF GameMenuMessage, queueVars
  <2>4. QED
    BY <2>2, <2>3, SettingsKept DEF settingVars
<1>4. CASE MenuOpens
  <2>1. HasPending(messages, {"mod"}) => HasPending(messages', {"mod"})
    BY <1>4, ReceivedLeaves DEF MenuOpens, Moves, Groups
  <2>2. HasPending(messages, {"color"}) => HasPending(messages', {"color"})
    BY <1>4, ReceivedLeaves DEF MenuOpens, Moves, Groups
  <2>3. menu' = "ready" => menu = "ready"
    BY <1>4 DEF MenuOpens, HandleOpen, queueVars
  <2>4. \/ shader' = settings["color"]
        \/ shader' = shader /\ menu' = menu
    BY <1>4 DEF MenuOpens, HandleOpen, queueVars
  <2>5. QED
    BY <1>4, <2>1, <2>2, <2>3, <2>4, SettingsKept DEF MenuOpens
<1>5. CASE MenuCloses
  <2>1. HasPending(messages, {"mod"}) => HasPending(messages', {"mod"})
    BY <1>5, ReceivedLeaves DEF MenuCloses, Moves, Groups
  <2>2. HasPending(messages, {"color"}) => HasPending(messages', {"color"})
    BY <1>5, ReceivedLeaves DEF MenuCloses, Moves, Groups
  <2>3. menu' = "closed"
    BY <1>5 DEF MenuCloses, HandleClose, queueVars
  <2>4. QED
    BY <1>5, <2>1, <2>2, <2>3, SettingsKept DEF MenuCloses, settingVars
<1>6. CASE ModSettingsArrive
  <2>1. HasPending(messages, {"color"}) => HasPending(messages', {"color"})
    BY <1>6, ReceivedLeaves DEF ModSettingsArrive, Moves, Groups
  <2>2. UNCHANGED <<menu, ini, settings, due, shader>>
    BY <1>6 DEF ModSettingsArrive, queueVars
  <2>3. CASE menu = "closed"
    BY <2>1, <2>2, <2>3 DEF SettingsInv, SettingsAreLoaded
  <2>4. CASE menu # "closed"
    <3>1. movie' = settings["mod"]
      BY <1>6, <2>4 DEF ModSettingsArrive
    <3>2. QED
      BY <2>1, <2>2, <3>1, SettingsKept
  <2>5. QED
    BY <2>3, <2>4
<1>7. CASE ColorSettingsArrive
  <2>1. HasPending(messages, {"mod"}) => HasPending(messages', {"mod"})
    BY <1>7, ReceivedLeaves DEF ColorSettingsArrive, Moves, Groups
  <2>2. UNCHANGED <<menu, ini, settings, due, movie>>
    BY <1>7 DEF ColorSettingsArrive, queueVars
  <2>3. CASE menu = "closed"
    BY <2>1, <2>2, <2>3 DEF SettingsInv, SettingsAreLoaded
  <2>4. CASE menu # "closed"
    <3>1. shader' = settings["color"]
      BY <1>7, <2>4 DEF ColorSettingsArrive
    <3>2. QED
      BY <2>1, <2>2, <3>1, SettingsKept
  <2>5. QED
    BY <2>3, <2>4
<1>8. CASE MovieCreated
  <2>1. /\ menu = "loaded" /\ menu' = "ready" /\ movie' = settings["mod"]
        /\ UNCHANGED <<messages, ini, settings, due, shader>>
    BY <1>8 DEF MovieCreated, OnCodeObjCreate, menuOnly
  <2>2. QED
    BY <2>1, SettingsKept
<1>9. ASSUME NEW g \in Groups, EditSetting(g) PROVE SettingsInv'
  <2>1. /\ due' = due \cup {g} /\ ini' = [ini EXCEPT ![g] = @ + 1]
        /\ UNCHANGED <<messages, menu, settings, movie, shader>>
    BY <1>9 DEF EditSetting, queueVars, menuOnly
  <2>2. \A h \in Groups : h # g => ini'[h] = ini[h]
    BY <2>1 DEF MenuTypeOK
  <2>3. SettingsAreLoaded'
    BY <2>1, <2>2 DEF SettingsInv, SettingsAreLoaded
  <2>4. QED
    BY <2>1, <2>2, <2>3 DEF SettingsInv, Groups
<1>10. ASSUME NEW g \in Groups, OnSettingChanged(g) PROVE SettingsInv'
  \* The message that was sent is still to arrive, and the other group has what it had.
  <2>1. /\ due' = due \ {g} /\ settings' = ini
        /\ messages' = Append(messages, ToFloatingDamage(g))
        /\ UNCHANGED <<menu, ini, movie, shader>>
    BY <1>10 DEF OnSettingChanged, LoadSettings, queueVars
  <2>2. ToFloatingDamage(g) \in Message /\ Is(ToFloatingDamage(g), {g})
    BY SentAreMessages DEF ToFloatingDamage, Is
  <2>3. HasPending(messages', {g})
    BY <1>0, <2>1, <2>2, PendingAppend
  <2>4. \A types : HasPending(messages, types) => HasPending(messages', types)
    BY <1>0, <2>1, <2>2, AppendedLeaves
  <2>5. SettingsAreLoaded'
    BY <2>1 DEF SettingsAreLoaded
  <2>6. QED
    BY <2>1, <2>3, <2>4, <2>5 DEF SettingsInv
<1>11. CASE (Register \/ Drawn) /\ UNCHANGED <<menuOnly, settingVars>>
  <2>1. UNCHANGED <<menu, messages, settingVars>>
    BY <1>11 DEF Drawn, Register, DrawEnter, DrawPop, DrawLeave, menuOnly
  <2>2. QED
    BY <2>1, SettingsKept DEF settingVars
<1>12. CASE UNCHANGED menuVars
  BY <1>12, SettingsKept DEF menuVars, menuOnly, queueVars, settingVars
<1>13. QED
  BY <1>1, <1>2, <1>3, <1>4, <1>5, <1>6, <1>7, <1>8, <1>9, <1>10, <1>11, <1>12
     DEF MenuNext, Handled

(* No edit of the settings is lost to the player because the menu was      *)
(* closed, loading or reopening when it was announced, however often the   *)
(* settings are edited.                                                    *)
THEOREM SettingsAlwaysReachMenu == MenuSpec => []SettingsReachMenu
<1>1. MenuSpec => []SettingsInv
  BY MenuTypeCorrect, SettingsInit, SettingsStep, PTL DEF MenuSpec
<1>2. MenuTypeOK /\ SettingsInv => SettingsReachMenu
  BY WillBeOpenIs
     DEF SettingsInv, SettingsReachMenu, ModSettingsReachMovie, ColorSettingsReachShader
<1>3. QED
  BY <1>1, <1>2, MenuTypeCorrect, PTL
=============================================================================
