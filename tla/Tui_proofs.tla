----------------------------- MODULE Tui_proofs -----------------------------
(***************************************************************************)
(* Proofs about the container table and about the event loop and menus     *)
(* over it, for every set of containers, every terminal height and every   *)
(* number of times a container comes back.                                 *)
(***************************************************************************)
EXTENDS Tui, Filtering_proofs

\* The index of the first object with an ID, and 0 when there is none.
LEMMA IndexOfIs ==
    ASSUME NEW list \in Seq(Objects), NEW id
    PROVE  LET k == IndexOf(list, id)
           IN  \/ k = 0 /\ \A i \in 1..Len(list) : Id(list[i]) # id
               \/ k \in 1..Len(list) /\ Id(list[k]) = id
<1> DEFINE I == {i \in 1..Len(list) : Id(list[i]) = id}
<1>1. IndexOf(list, id) = IF I # {} THEN Min(I) ELSE 0
  BY DEF IndexOf, SelectInSeq
<1>2. CASE I = {}
  BY <1>1, <1>2
<1>3. CASE I # {}
  <2>1. I \in SUBSET Nat
    OBVIOUS
  <2>2. \E i \in I : \A j \in I : i <= j
    BY <1>3, <2>1, LeastOne
  <2>3. Min(I) \in I
    <3> HIDE DEF I
    <3> QED BY <2>2 DEF Min
  <2> QED BY <1>1, <1>3, <2>3
<1> QED BY <1>2, <1>3

\* What a refresh lists: objects of containers that are there, each once.
LEMMA ListIs ==
    ASSUME TypeOK, NEW shown \in SUBSET present,
           NEW list \in SetToSeqs({Obj(c) : c \in shown}),
           \A c \in present : version[c] > 0
    PROVE  /\ list \in Seq(Objects)
           /\ Len(list) <= Cardinality(Containers)
           /\ \A i \in 1..Len(list) :
                  Id(list[i]) \in shown /\ list[i] = Obj(Id(list[i]))
           /\ \A i, j \in 1..Len(list) : Id(list[i]) = Id(list[j]) => i = j
           /\ \A c \in shown : \E i \in 1..Len(list) : Id(list[i]) = c
<1> DEFINE S == {Obj(c) : c \in shown}
           f == [c \in shown |-> Obj(c)]
<1>1. shown \subseteq Containers /\ IsFiniteSet(shown)
      /\ Cardinality(shown) <= Cardinality(Containers)
  BY ContainersAssumption, FS_Subset DEF TypeOK
<1>2. f \in Surjection(shown, S)
  BY DEF Surjection
<1>3. IsFiniteSet(S) /\ Cardinality(S) <= Cardinality(shown)
  BY <1>1, <1>2, FS_Surjection
<1>4. Cardinality(S) \in Nat /\ Cardinality(shown) \in Nat
      /\ Cardinality(Containers) \in Nat
  BY <1>1, <1>3, ContainersAssumption, FS_CardinalityType
<1>5. S \subseteq Objects
  BY <1>1, VersionAssumption DEF Obj, Objects, TypeOK
<1>6. \A o \in S : Id(o) \in shown /\ o = Obj(Id(o))
  BY DEF Obj, Id
<1>7. \A c \in shown : Obj(c) \in S /\ Id(Obj(c)) = c
  BY DEF Obj, Id
<1> HIDE DEF S, f
<1>8. /\ list \in [1..Cardinality(S) -> S]
      /\ \A i, j \in 1..Cardinality(S) : i # j => list[i] # list[j]
  BY DEF SetToSeqs, S
<1>9. list \in Seq(S) /\ Len(list) = Cardinality(S)
  BY <1>4, <1>8
<1>10. list \in Seq(Objects)
  BY <1>5, <1>8, <1>9
<1>11. \A i \in 1..Len(list) : list[i] \in S
  BY <1>8, <1>9
<1>12. ASSUME NEW i \in 1..Len(list), NEW j \in 1..Len(list),
              Id(list[i]) = Id(list[j])
       PROVE  i = j
  <2>1. list[i] = list[j]
    BY <1>6, <1>11, <1>12
  <2> QED BY <1>8, <1>9, <2>1
<1>13. list \in Surjection(1..Len(list), S)
  <2>1. list \in Injection(1..Len(list), S)
    BY <1>8, <1>9 DEF Injection, IsInjective
  <2>2. Cardinality(1..Len(list)) = Cardinality(S)
    BY <1>4, <1>9, FS_Interval
  <2> QED BY <1>3, <2>1, <2>2, FS_Injection
<1>14. ASSUME NEW c \in shown PROVE \E i \in 1..Len(list) : Id(list[i]) = c
  BY <1>7, <1>13 DEF Surjection
<1> QED BY <1>1, <1>3, <1>4, <1>6, <1>9, <1>10, <1>11, <1>12, <1>14

-----------------------------------------------------------------------------
(* The table. *)

\* What the highlights rest on.  An object is never newer than the present one
\* of its container, and a highlighted one is never newer than the listed one;
\* of the objects a connector has, only the selected one's row is highlighted:
\* whatever else was highlighted when the connection was lost never comes back.
Highlights ==
    /\ \A c \in present : version[c] > 0
    /\ \A o \in highlighted : o[2] <= version[Id(o)]
    /\ \A i \in 1..Len(filtered) : filtered[i][2] <= version[Id(filtered[i])]
    /\ \A o \in highlighted, i \in 1..Len(filtered) :
           Id(o) = Id(filtered[i]) => o[2] <= filtered[i][2]
    /\ connected => \A o \in highlighted \cap Current : Id(o) = selectedID

TableInv == TableOK /\ Len(filtered) <= Cardinality(Containers) /\ Highlights

LEMMA ObjectsAre ==
    /\ \A o \in Objects : /\ Id(o) \in Containers /\ o[2] \in 1..MaxVersion
                          /\ o = <<Id(o), o[2]>>
    /\ \A c \in Containers, v \in 1..MaxVersion :
           <<c, v>> \in Objects /\ Id(<<c, v>>) = c /\ <<c, v>>[2] = v
BY DEF Objects, Id

\* The list has each ID once.
LEMMA OnceEach ==
    ASSUME SelectionListed, NEW i \in 1..Len(filtered),
           NEW j \in 1..Len(filtered), Id(filtered[i]) = Id(filtered[j])
    PROVE  i = j
<1> DEFINE ids == [k \in 1..Len(filtered) |-> Id(filtered[k])]
<1>1. IsInjective(ids) /\ DOMAIN ids = 1..Len(filtered)
  BY DEF SelectionListed
<1>2. ids[i] = ids[j]
  OBVIOUS
<1> HIDE DEF ids
<1> QED BY <1>1, <1>2 DEF IsInjective

LEMMA ListedOnce ==
    ASSUME \A i, j \in 1..Len(filtered) :
               Id(filtered[i]) = Id(filtered[j]) => i = j,
           filtered # <<>> => selectedID \in Listed
    PROVE  SelectionListed
BY DEF SelectionListed, IsInjective

\* The cursor is at the selected container.
LEMMA IdxIs ==
    ASSUME TypeOK, SelectionListed, filtered # <<>>
    PROVE  /\ Idx \in 0..Len(filtered) - 1
           /\ Id(filtered[Idx + 1]) = selectedID
           /\ \A n \in 0..Len(filtered) - 1 :
                  Id(filtered[n + 1]) = selectedID => n = Idx
<1> DEFINE k == IndexOf(filtered, selectedID)
<1>1. filtered \in Seq(Objects)
  BY DEF TypeOK, Objects
<1>2. \/ k = 0 /\ \A i \in 1..Len(filtered) : Id(filtered[i]) # selectedID
      \/ k \in 1..Len(filtered) /\ Id(filtered[k]) = selectedID
  BY <1>1, IndexOfIs
<1>3. \E i \in 1..Len(filtered) : Id(filtered[i]) = selectedID
  BY DEF SelectionListed, Listed
<1> HIDE DEF k
<1>4. k \in 1..Len(filtered) /\ Id(filtered[k]) = selectedID /\ k # 0
  BY <1>1, <1>2, <1>3
<1>5. Idx = k - 1
  BY <1>4 DEF Idx, k
<1>6. Len(filtered) \in Nat
  BY <1>1
<1>7. ASSUME NEW n \in 0..Len(filtered) - 1, Id(filtered[n + 1]) = selectedID
      PROVE  n = Idx
  <2>1. n + 1 \in 1..Len(filtered)
    BY <1>6
  <2>2. n + 1 = k
    BY <1>4, <1>7, <2>1, OnceEach
  <2> QED BY <1>4, <1>5, <1>6, <2>2
<1> QED BY <1>4, <1>5, <1>6, <1>7

LEMMA AlignOK ==
    ASSUME NEW n \in 0..Cardinality(Containers), NEW o \in Int, Align(n, o)
    PROVE  /\ Rows' \in 0..Cardinality(Containers) /\ Offset' \in Nat
           /\ OffsetInRange'
<1>1. Cardinality(Containers) \in Nat
  BY ContainersAssumption, FS_CardinalityType
<1> QED BY <1>1 DEF Align, OffsetInRange

LEMMA InitTable == Init => TableInv
<1> SUFFICES ASSUME Init PROVE TableInv
  OBVIOUS
<1>1. /\ connected = FALSE /\ present = {} /\ highlighted = {}
      /\ filtered = <<>> /\ selectedID = None /\ Rows = 0 /\ Offset = 0
      /\ version = [c \in Containers |-> 0] /\ maxRows \in Heights
  BY DEF Init
<1>2. Cardinality(Containers) \in Nat
  BY ContainersAssumption, FS_CardinalityType
<1>3. TypeOK
  <2>1. filtered \in Seq(Objects)
    BY <1>1
  <2>2. version \in [Containers -> 0..MaxVersion]
    BY <1>1, VersionAssumption
  <2>3. Rows \in 0..Cardinality(Containers) /\ Offset \in Nat
    BY <1>1, <1>2
  <2>4. connected \in BOOLEAN /\ selectedID \in Containers \cup {None}
    BY <1>1
  <2>5. highlighted \subseteq Objects /\ present \subseteq Containers
    BY <1>1
  <2> QED BY <1>1, <2>1, <2>2, <2>3, <2>4, <2>5 DEF TypeOK, Objects
<1>4. SelectionListed /\ OneHighlight /\ OffsetInRange
  BY <1>1, ListedOnce DEF OneHighlight, OffsetInRange
<1>5. Highlights
  BY <1>1 DEF Highlights
<1>6. Len(filtered) <= Cardinality(Containers)
  BY <1>1, <1>2
<1> QED BY <1>3, <1>4, <1>5, <1>6 DEF TableInv, TableOK

\* The connector may change under the table: what is listed stays as it was,
\* and an object that is new is not highlighted.
LEMMA SourceTable == TableInv /\ Source => TableInv'
<1> SUFFICES ASSUME TableInv, Source PROVE TableInv'
  OBVIOUS
<1> USE DEF TableInv, TableOK
<1>1. UNCHANGED <<highlighted, filtered, selectedID, gridVars>>
  BY DEF Source, Reconnect, Lose, Appear, Vanish
<1>2. /\ version' \in [Containers -> 0..MaxVersion]
      /\ present' \subseteq Containers /\ connected' \in BOOLEAN
      /\ \A c \in Containers : version[c] <= version'[c]
      /\ \A c \in present' : version'[c] > 0
  <2>1. CASE \E c \in Containers : Appear(c)
    BY <2>1, VersionAssumption DEF Appear, TypeOK, Highlights
  <2>2. CASE Reconnect \/ Lose \/ \E c \in Containers : Vanish(c)
    <3>1. version' = version /\ present' \subseteq present
      BY <2>2 DEF Reconnect, Lose, Vanish
    <3>2. connected' \in BOOLEAN
      BY <2>2 DEF Reconnect, Lose, Vanish, TypeOK
    <3>3. \A c \in Containers : version[c] \in Nat
      BY VersionAssumption DEF TypeOK
    <3> QED BY <3>1, <3>2, <3>3 DEF TypeOK, Highlights
  <2> QED BY <2>1, <2>2 DEF Source
<1>3. TypeOK' /\ OffsetInRange'
  BY <1>1, <1>2 DEF TypeOK, OffsetInRange, gridVars
<1>4. SelectionListed' /\ OneHighlight'
  BY <1>1 DEF SelectionListed, OneHighlight, Listed
<1>5. ASSUME NEW o \in Objects, o[2] <= version[Id(o)]
      PROVE  o[2] <= version'[Id(o)]
  <2>1. Id(o) \in Containers /\ o[2] \in Int
    BY ObjectsAre
  <2>2. version[Id(o)] \in Int /\ version'[Id(o)] \in Int
    BY <1>2, <2>1 DEF TypeOK
  <2> QED BY <1>2, <1>5, <2>1, <2>2
<1>6. /\ \A o \in highlighted' : o[2] <= version'[Id(o)]
      /\ \A i \in 1..Len(filtered') :
             filtered'[i][2] <= version'[Id(filtered'[i])]
  <2>1. /\ highlighted \subseteq Objects /\ highlighted' = highlighted
        /\ filtered \in Seq(Objects) /\ filtered' = filtered
    BY <1>1 DEF TypeOK, Objects
  <2>2. \A o \in highlighted' : o[2] <= version'[Id(o)]
    BY <1>5, <2>1 DEF Highlights
  <2>3. ASSUME NEW i \in 1..Len(filtered)
        PROVE  filtered[i][2] <= version'[Id(filtered[i])]
    <3>1. filtered[i] \in Objects
      BY <2>1
    <3>2. filtered[i][2] <= version[Id(filtered[i])]
      BY <2>3 DEF Highlights
    <3> QED BY <1>5, <3>1, <3>2
  <2> QED BY <2>1, <2>2, <2>3
<1>7. ASSUME connected', NEW o \in highlighted', o \in Current'
      PROVE  Id(o) = selectedID'
  <2>1. o \in highlighted /\ o \in Objects /\ o[2] <= version[Id(o)]
    BY <1>1 DEF Highlights, TypeOK, Objects
  <2>2. CASE \E c \in Containers : Appear(c)
    <3>1. PICK c \in Containers : Appear(c)
      BY <2>2
    <3>2. PICK d \in present' : o = <<d, version'[d]>>
      BY <1>7 DEF Current, Obj
    <3>3. d # c
      <4>1. version'[c] = version[c] + 1 /\ version[c] \in Nat
        BY <3>1 DEF Appear, TypeOK
      <4> QED BY <2>1, <3>2, <4>1 DEF Id
    <3>4. d \in present /\ version'[d] = version[d] /\ connected
      BY <3>1, <3>2, <3>3 DEF Appear, TypeOK
    <3>5. o \in Current
      BY <3>2, <3>4 DEF Current, Obj
    <3> QED BY <1>1, <2>1, <3>4, <3>5 DEF Highlights
  <2>3. CASE \E c \in Containers : Vanish(c)
    <3>1. o \in Current /\ connected
      BY <1>7, <2>3 DEF Vanish, Current, Obj
    <3> QED BY <1>1, <2>1, <3>1 DEF Highlights
  <2>4. CASE Reconnect \/ Lose
    BY <1>7, <2>4 DEF Reconnect, Lose, Current
  <2> QED BY <2>2, <2>3, <2>4 DEF Source
<1>8. Highlights'
  BY <1>1, <1>2, <1>6, <1>7 DEF Highlights
<1> QED BY <1>1, <1>3, <1>4, <1>8

\* Unhighlighting rows, or laying the grid out again, disturbs nothing.
LEMMA LessHighlighted ==
    ASSUME TableInv, highlighted' \subseteq highlighted,
           UNCHANGED <<sourceVars, filtered, selectedID>>,
           OffsetInRange', Rows' \in 0..Cardinality(Containers),
           Offset' \in Nat, maxRows' \in Heights
    PROVE  TableInv'
<1> USE DEF TableInv, TableOK
<1>1. UNCHANGED <<connected, present, version, filtered, selectedID>>
  BY DEF sourceVars
<1>2. TypeOK'
  BY <1>1 DEF TypeOK
<1>3. SelectionListed' /\ OneHighlight'
  BY <1>1 DEF SelectionListed, OneHighlight, Listed
<1>4. Highlights'
  BY <1>1 DEF Highlights, Current, Obj
<1> QED BY <1>1, <1>2, <1>3, <1>4

LEMMA IdxCounts == TypeOK /\ SelectionListed => Idx \in Nat /\ Len(filtered) \in Nat
<1> SUFFICES ASSUME TypeOK, SelectionListed
             PROVE  Idx \in Nat /\ Len(filtered) \in Nat
  OBVIOUS
<1>1. filtered \in Seq(Objects)
  BY DEF TypeOK, Objects
<1>2. CASE filtered = <<>>
  <2> DEFINE k == IndexOf(filtered, selectedID)
  <2>1. k = 0 \/ k \in 1..Len(filtered)
    BY <1>1, IndexOfIs
  <2> HIDE DEF k
  <2>2. k = 0 /\ Len(filtered) = 0
    BY <1>2, <2>1
  <2> QED BY <2>2 DEF Idx, k
<1>3. CASE filtered # <<>>
  BY <1>1, <1>3, IdxIs
<1> QED BY <1>2, <1>3

\* Asking for the index highlights nothing.
LEMMA IdxHighlightsNothing == HighlightedAfterIdx \subseteq highlighted
BY DEF HighlightedAfterIdx, Reset

\* So do the keys that have nowhere to go, a resize, the header and new rows.
LEMMA LayoutTable ==
    /\ TableInv /\ KeyInEmpty => TableInv'
    /\ TableInv /\ RecreateWidgets => TableInv'
    /\ \A m \in Heights :
           TableInv /\ (Resize(m) \/ ToggleHeader(m)) => TableInv'
<1>1. ASSUME TableInv, UNCHANGED gridVars
      PROVE  /\ OffsetInRange' /\ Rows' \in 0..Cardinality(Containers)
             /\ Offset' \in Nat /\ maxRows' \in Heights
  BY <1>1 DEF TableInv, TableOK, TypeOK, OffsetInRange, gridVars
<1>2. ASSUME TableInv, KeyInEmpty PROVE TableInv'
  <2>1. /\ highlighted' \subseteq highlighted /\ UNCHANGED gridVars
        /\ UNCHANGED <<sourceVars, filtered, selectedID>>
    BY <1>2, IdxHighlightsNothing DEF KeyInEmpty
  <2> QED BY <1>1, <1>2, <2>1, LessHighlighted
<1>3. ASSUME TableInv, RecreateWidgets PROVE TableInv'
  <2>1. /\ highlighted' \subseteq highlighted /\ UNCHANGED gridVars
        /\ UNCHANGED <<sourceVars, filtered, selectedID>>
    BY <1>3 DEF RecreateWidgets
  <2> QED BY <1>1, <1>3, <2>1, LessHighlighted
<1>4. ASSUME NEW m \in Heights, TableInv, Resize(m) \/ ToggleHeader(m)
      PROVE  TableInv'
  <2>1. Idx \in Nat /\ Len(filtered) \in Nat /\ m \in Nat /\ Offset \in Nat
    BY <1>4, HeightAssumption, IdxCounts DEF TableInv, TableOK, TypeOK
  <2>2. ScrollPage(Idx, Offset, m) \in Int
    BY <2>1 DEF ScrollPage
  <2>3. Len(filtered) \in 0..Cardinality(Containers)
    <3>1. Cardinality(Containers) \in Nat
      BY ContainersAssumption, FS_CardinalityType
    <3> QED BY <1>4, <2>1, <3>1 DEF TableInv
  <2>4. /\ highlighted' \subseteq highlighted
        /\ UNCHANGED <<sourceVars, filtered, selectedID>>
        /\ maxRows' = m
        /\ \E o \in Int : Align(Len(filtered), o)
    BY <1>4, <2>1, <2>2, IdxHighlightsNothing DEF Resize, ToggleHeader
  <2>5. /\ OffsetInRange' /\ Rows' \in 0..Cardinality(Containers)
        /\ Offset' \in Nat
    BY <2>3, <2>4, AlignOK
  <2> QED BY <1>4, <2>4, <2>5, LessHighlighted
<1> QED BY <1>2, <1>3, <1>4

\* The cursor ends up where it was sent, with its highlight.
LEMMA MoveTable ==
    ASSUME TableInv, filtered # <<>>, NEW n \in 0..Len(filtered) - 1,
           NEW o \in Int, MoveTo(n, o)
    PROVE  TableInv' /\ Idx' = n
<1> USE DEF TableInv, TableOK
<1>1. /\ UNCHANGED <<connected, present, version, filtered, maxRows>>
      /\ selectedID' = Id(filtered[n + 1])
      /\ highlighted' = (highlighted \ {filtered[Idx + 1]})
                            \cup {filtered[n + 1]}
  BY DEF MoveTo, sourceVars
<1>2. filtered \in Seq(Objects) /\ Len(filtered) \in Nat
  BY DEF TypeOK, Objects
<1>3. n + 1 \in 1..Len(filtered) /\ filtered[n + 1] \in Objects
  BY <1>2
<1>4. /\ Idx + 1 \in 1..Len(filtered) /\ Id(filtered[Idx + 1]) = selectedID
      /\ filtered[Idx + 1] \in Objects
  BY <1>2, IdxIs
<1>5. /\ OffsetInRange' /\ Rows' \in 0..Cardinality(Containers)
      /\ Offset' \in Nat
  <2>1. Len(filtered) \in 0..Cardinality(Containers)
    <3>1. Cardinality(Containers) \in Nat
      BY ContainersAssumption, FS_CardinalityType
    <3> QED BY <1>2, <3>1
  <2> QED BY <2>1, AlignOK DEF MoveTo
<1>6. TypeOK'
  BY <1>1, <1>3, <1>5, ObjectsAre DEF TypeOK, Objects
<1>7. SelectionListed'
  <2>1. selectedID' \in Listed'
    BY <1>1, <1>3 DEF Listed
  <2> QED BY <1>1, <2>1 DEF SelectionListed
<1>8. OneHighlight'
  <2> SUFFICES ASSUME NEW i \in 1..Len(filtered), filtered[i] \in highlighted',
                      i # n + 1
               PROVE  FALSE
    BY <1>1 DEF OneHighlight
  <2>1. filtered[i] \in highlighted \/ filtered[i] = filtered[n + 1]
    BY <1>1
  <2>2. filtered[i] # filtered[n + 1]
    BY <1>3, OnceEach
  <2>3. Id(filtered[i]) = selectedID /\ filtered[i] # filtered[Idx + 1]
    BY <1>1, <2>1, <2>2 DEF OneHighlight
  <2> QED BY <1>4, <2>3, OnceEach
<1>9. Highlights'
  <2>1. \A p \in highlighted' : p[2] <= version'[Id(p)]
    BY <1>1, <1>3 DEF Highlights
  <2>2. ASSUME NEW p \in highlighted', NEW i \in 1..Len(filtered),
               Id(p) = Id(filtered[i])
        PROVE  p[2] <= filtered[i][2]
    <3>1. CASE p \in highlighted
      BY <2>2, <3>1 DEF Highlights
    <3>2. CASE p = filtered[n + 1]
      <4>1. i = n + 1
        BY <1>3, <2>2, <3>2, OnceEach
      <4>2. p[2] \in Int
        BY <1>3, <3>2, ObjectsAre
      <4> QED BY <3>2, <4>1, <4>2
    <3> QED BY <1>1, <3>1, <3>2
  <2>3. ASSUME connected, NEW p \in highlighted', p \in Current
        PROVE  Id(p) = selectedID'
    <3> SUFFICES ASSUME p \in highlighted, p # filtered[Idx + 1] PROVE FALSE
      BY <1>1
    <3>1. Id(p) = Id(filtered[Idx + 1])
      BY <1>4, <2>3 DEF Highlights
    <3>2. /\ p \in Objects /\ filtered[Idx + 1] \in Objects
          /\ p[2] = version[Id(p)]
      BY <1>4, <2>3 DEF Current, Obj, Id, TypeOK, Objects
    <3>3. /\ p[2] <= filtered[Idx + 1][2]
          /\ filtered[Idx + 1][2] <= version[Id(filtered[Idx + 1])]
      BY <1>4, <3>1 DEF Highlights
    <3>4. p[2] = filtered[Idx + 1][2]
      <4>1. p[2] \in Int /\ filtered[Idx + 1][2] \in Int
        BY <3>2, ObjectsAre
      <4> QED BY <3>1, <3>2, <3>3, <4>1
    <3>5. p = filtered[Idx + 1]
      BY <3>1, <3>2, <3>4, ObjectsAre
    <3> QED BY <3>5
  <2>4. /\ \A c \in present' : version'[c] > 0
        /\ \A i \in 1..Len(filtered') :
               filtered'[i][2] <= version'[Id(filtered'[i])]
    BY <1>1 DEF Highlights
  <2>5. Current' = Current
    BY <1>1 DEF Current, Obj
  <2> QED BY <1>1, <2>1, <2>2, <2>3, <2>4, <2>5 DEF Highlights
<1>10. TableInv'
  BY <1>1, <1>5, <1>6, <1>7, <1>8, <1>9
<1>11. Idx' = n
  <2> DEFINE k == IndexOf(filtered', selectedID')
  <2>1. \/ k = 0 /\ \A i \in 1..Len(filtered') : Id(filtered'[i]) # selectedID'
        \/ k \in 1..Len(filtered') /\ Id(filtered'[k]) = selectedID'
    BY <1>1, <1>2, IndexOfIs
  <2> HIDE DEF k
  <2>2. k = n + 1
    BY <1>1, <1>2, <1>3, <2>1, OnceEach
  <2> QED BY <1>2, <1>3, <2>2 DEF Idx, k
<1> QED BY <1>10, <1>11

\* A refresh: the list is new, and the selected container keeps the cursor if it
\* is still listed; otherwise the first one gets it.
LEMMA RefreshTable ==
    ASSUME TableInv, RefreshContainers
    PROVE  /\ present' = present /\ version' = version
           /\ connected' \in BOOLEAN
           /\ filtered' \in Seq(Objects)
           /\ Len(filtered') <= Cardinality(Containers)
           /\ highlighted' \subseteq Objects
           /\ selectedID' \in Containers \cup {None}
           /\ SelectionListed' /\ OneHighlight' /\ Highlights'
           /\ selectedID' # selectedID => selectedID \notin Listed'
<1> USE DEF TableInv, TableOK
<1>1. PICK shown \in SUBSET present, lost \in BOOLEAN :
          \E list \in SetToSeqs({Obj(c) : c \in shown}) :
              LET r == Reset(list, highlighted, ~lost)
              IN  /\ filtered' = list
                  /\ IF selectedID \in shown
                     THEN ~lost /\ UNCHANGED <<selectedID, highlighted>>
                     ELSE selectedID' = r.sel /\ highlighted' = r.hl
                  /\ connected' = ~lost
  BY DEF RefreshContainers
<1>2. PICK list \in SetToSeqs({Obj(c) : c \in shown}) :
          /\ filtered' = list /\ connected' = ~lost
          /\ selectedID \in shown =>
                 ~lost /\ UNCHANGED <<selectedID, highlighted>>
          /\ selectedID \notin shown =>
                 /\ selectedID' = Reset(list, highlighted, ~lost).sel
                 /\ highlighted' = Reset(list, highlighted, ~lost).hl
  BY <1>1
<1>3. connected /\ present' = present /\ version' = version
  BY DEF RefreshContainers
<1>4. \A c \in present : version[c] > 0
  BY DEF Highlights
<1>5. /\ list \in Seq(Objects)
      /\ Len(list) <= Cardinality(Containers)
      /\ \A i \in 1..Len(list) :
             Id(list[i]) \in shown /\ list[i] = Obj(Id(list[i]))
      /\ \A i, j \in 1..Len(list) : Id(list[i]) = Id(list[j]) => i = j
      /\ \A c \in shown : \E i \in 1..Len(list) : Id(list[i]) = c
  BY <1>4, ListIs
<1>6. \A i \in 1..Len(list) : list[i] \in Objects /\ list[i] \in Current
  BY <1>5 DEF Current
<1>7. list # <<>> => 1 \in 1..Len(list)
  BY <1>5
<1>8. \/ /\ selectedID \in shown /\ selectedID' = selectedID
         /\ highlighted' = highlighted /\ connected'
      \/ /\ selectedID \notin shown /\ list = <<>>
         /\ selectedID' = selectedID
         /\ highlighted' \subseteq highlighted
         /\ connected' => highlighted' \cap Current = {}
      \/ /\ selectedID \notin shown /\ list # <<>>
         /\ selectedID' = Id(list[1])
         /\ list[1] \in highlighted'
         /\ highlighted' \subseteq highlighted \cup {list[1]}
         /\ connected' => highlighted' \cap Current \subseteq {list[1]}
  BY <1>2, <1>6, <1>7 DEF Reset
<1>9. /\ highlighted' \subseteq highlighted \cup {list[1]}
      /\ list = <<>> => highlighted' \subseteq highlighted
  BY <1>8
<1>10. /\ highlighted' \subseteq Objects
       /\ selectedID' \in Containers \cup {None}
  <2>1. highlighted \subseteq Objects /\ selectedID \in Containers \cup {None}
    BY DEF TypeOK, Objects
  <2>2. list # <<>> => list[1] \in Objects /\ Id(list[1]) \in Containers
    BY <1>6, <1>7, ObjectsAre
  <2> QED BY <1>8, <2>1, <2>2
<1>11. SelectionListed'
  <2>1. selectedID \in shown => \E i \in 1..Len(list) : Id(list[i]) = selectedID
    BY <1>5
  <2>2. list # <<>> => selectedID' \in Listed'
    BY <1>2, <1>7, <1>8, <2>1 DEF Listed
  <2> QED BY <1>2, <1>5, <2>2 DEF SelectionListed, IsInjective
<1>12. OneHighlight'
  <2> SUFFICES ASSUME NEW i \in 1..Len(list), list[i] \in highlighted'
               PROVE  Id(list[i]) = selectedID'
    BY <1>2 DEF OneHighlight
  <2>1. list[i] \in highlighted => Id(list[i]) = selectedID
    BY <1>3, <1>6 DEF Highlights
  <2>2. Id(list[i]) \in shown
    BY <1>5
  <2>3. list # <<>>
    BY <1>5
  <2> QED BY <1>8, <2>1, <2>2, <2>3
<1>13. Highlights'
  <2>1. \A i \in 1..Len(list) : list[i][2] = version[Id(list[i])]
    BY <1>5 DEF Obj
  <2>2. \A p \in highlighted' : p[2] <= version[Id(p)]
    <3>1. list # <<>> => list[1][2] <= version[Id(list[1])]
      <4>1. ASSUME list # <<>> PROVE list[1][2] \in Int
        BY <1>6, <1>7, <4>1, ObjectsAre
      <4> QED BY <1>7, <2>1, <4>1
    <3> QED BY <1>8, <3>1 DEF Highlights
  <2>3. \A i \in 1..Len(list) : list[i][2] <= version[Id(list[i])]
    <3>1. \A i \in 1..Len(list) : list[i][2] \in Int
      BY <1>6, ObjectsAre
    <3> QED BY <2>1, <3>1
  <2>4. ASSUME NEW p \in highlighted', NEW i \in 1..Len(list),
               Id(p) = Id(list[i])
        PROVE  p[2] <= list[i][2]
    BY <2>1, <2>2, <2>4
  <2>5. ASSUME connected', NEW p \in highlighted', p \in Current
        PROVE  Id(p) = selectedID'
    BY <1>3, <1>8, <2>5 DEF Highlights
  <2>6. Current' = Current
    BY <1>3 DEF Current, Obj
  <2> QED BY <1>2, <1>3, <1>4, <2>2, <2>3, <2>4, <2>5, <2>6 DEF Highlights
<1>14. selectedID' # selectedID => selectedID \notin Listed'
  <2>1. Listed' \subseteq shown
    BY <1>2, <1>5 DEF Listed
  <2> QED BY <1>8, <2>1
<1> QED BY <1>2, <1>3, <1>5, <1>10, <1>11, <1>12, <1>13, <1>14

\* A refresh, or one that fails, leaves the table well formed, if what becomes of
\* the grid is in range.
LEMMA ListingTable ==
    ASSUME TableInv, RefreshContainers \/ RefreshFails, OffsetInRange',
           Rows' \in 0..Cardinality(Containers), Offset' \in Nat,
           maxRows' \in Heights
    PROVE  TableInv'
<1>0. Cardinality(Containers) \in Nat
  BY ContainersAssumption, FS_CardinalityType
<1>1. CASE RefreshContainers
  <2>1. /\ present' = present /\ version' = version
        /\ connected' \in BOOLEAN
        /\ filtered' \in Seq(Objects)
        /\ Len(filtered') <= Cardinality(Containers)
        /\ highlighted' \subseteq Objects
        /\ selectedID' \in Containers \cup {None}
        /\ SelectionListed' /\ OneHighlight' /\ Highlights'
    BY <1>1, RefreshTable
  <2>2. TypeOK'
    BY <2>1 DEF TableInv, TableOK, TypeOK, Objects
  <2> QED BY <2>1, <2>2 DEF TableInv, TableOK
<1>2. CASE RefreshFails
  <2>1. /\ UNCHANGED <<connected, present, version, highlighted, selectedID>>
        /\ filtered' = <<>>
    BY <1>2 DEF RefreshFails, sourceVars
  <2>2. filtered' \in Seq(Objects) /\ Len(filtered') = 0
    BY <2>1
  <2>3. TypeOK'
    BY <2>1, <2>2 DEF TableInv, TableOK, TypeOK, Objects
  <2>4. SelectionListed' /\ OneHighlight'
    BY <2>1, <2>2 DEF SelectionListed, IsInjective, OneHighlight
  <2>5. Highlights'
    BY <2>1, <2>2 DEF TableInv, TableOK, Highlights, Current, Obj
  <2> QED BY <1>0, <2>2, <2>3, <2>4, <2>5 DEF TableInv, TableOK
<1> QED BY <1>1, <1>2

\* The rows are drawn again after it.
LEMMA RedrawTable ==
    ASSUME TableInv, RefreshContainers \/ RefreshFails,
           Align(Len(filtered'), Offset), UNCHANGED maxRows
    PROVE  TableInv'
<1>1. Cardinality(Containers) \in Nat
  BY ContainersAssumption, FS_CardinalityType
<1>2. filtered' \in Seq(Objects) /\ Len(filtered') <= Cardinality(Containers)
  <2>1. CASE RefreshContainers
    BY <2>1, RefreshTable
  <2>2. CASE RefreshFails
    <3>1. filtered' = <<>>
      BY <2>2 DEF RefreshFails
    <3> QED BY <1>1, <3>1
  <2> QED BY <2>1, <2>2
<1>3. Len(filtered') \in 0..Cardinality(Containers) /\ Offset \in Int
      /\ maxRows' \in Heights
  BY <1>1, <1>2 DEF TableInv, TableOK, TypeOK
<1>4. /\ Rows' \in 0..Cardinality(Containers) /\ Offset' \in Nat
      /\ OffsetInRange'
  BY <1>3, AlignOK
<1> QED BY <1>3, <1>4, ListingTable

LEMMA SameGrid ==
    ASSUME TableInv, UNCHANGED <<Rows, Offset, maxRows>>
    PROVE  /\ OffsetInRange' /\ Rows' \in 0..Cardinality(Containers)
           /\ Offset' \in Nat /\ maxRows' \in Heights
BY DEF TableInv, TableOK, TypeOK, OffsetInRange

LEMMA DisplayTable == TableInv /\ RefreshDisplay => TableInv'
BY RedrawTable, SameGrid, ListingTable DEF RefreshDisplay, gridVars

-----------------------------------------------------------------------------
(* The keys. *)

\* Where a key takes the cursor and the grid: to a row there is, and to an
\* offset that shows it if the row before was shown.
LEMMA KeyMoves ==
    ASSUME TableInv, Keys
    PROVE  \E n \in 0..Len(filtered) - 1, o \in Int :
               /\ filtered # <<>> /\ MoveTo(n, o)
               /\ InView /\ maxRows > 0 =>
                      LET a == IF o >= Len(filtered) \/ o < 0 THEN 0 ELSE o
                      IN  a <= n /\ n < a + maxRows
<1> DEFINE L == Len(filtered)
<1>1. Idx \in Nat /\ L \in Nat /\ maxRows \in Nat /\ Offset \in Nat
  BY HeightAssumption, IdxCounts DEF TableInv, TableOK, TypeOK
<1>2. filtered # <<>> => Idx < L
  BY <1>1, IdxIs DEF TableInv, TableOK
<1>3. filtered = <<>> => Idx = 0 /\ L = 0
  <2> SUFFICES ASSUME filtered = <<>> PROVE Idx = 0 /\ L = 0
    OBVIOUS
  <2> DEFINE k == IndexOf(filtered, selectedID)
  <2>1. filtered \in Seq(Objects) /\ L = 0
    BY DEF TableInv, TableOK, TypeOK, Objects
  <2>2. \/ k = 0
        \/ k \in 1..Len(filtered)
    BY <2>1, IndexOfIs
  <2> HIDE DEF k
  <2>3. k = 0
    BY <2>1, <2>2
  <2> QED BY <2>1, <2>3 DEF Idx, k
<1>4. CASE Up
  <2> DEFINE n == Idx - 1
             o == ScrollPage(n, Offset, maxRows)
  <2>1. filtered # <<>> /\ MoveTo(n, o) /\ Idx > 0
    BY <1>3, <1>4 DEF Up
  <2>2. n \in 0..L - 1
    BY <1>1, <1>2, <2>1
  <2>3. o \in Int
    BY <1>1 DEF ScrollPage
  <2>4. InView /\ maxRows > 0 =>
            LET a == IF o >= L \/ o < 0 THEN 0 ELSE o
            IN  a <= n /\ n < a + maxRows
    BY <1>1, <1>2, <2>1 DEF ScrollPage, InView
  <2> HIDE DEF n, o
  <2> QED BY <2>1, <2>2, <2>3, <2>4
<1>5. CASE Down
  <2> DEFINE n == Idx + 1
             o == ScrollPage(n, Offset, maxRows)
  <2>1. filtered # <<>> /\ MoveTo(n, o) /\ Idx < L - 1
    BY <1>1, <1>3, <1>5 DEF Down
  <2>2. n \in 0..L - 1
    BY <1>1, <1>2, <2>1
  <2>3. o \in Int
    BY <1>1 DEF ScrollPage
  <2>4. InView /\ maxRows > 0 =>
            LET a == IF o >= L \/ o < 0 THEN 0 ELSE o
            IN  a <= n /\ n < a + maxRows
    BY <1>1, <1>2, <2>1 DEF ScrollPage, InView
  <2> HIDE DEF n, o
  <2> QED BY <2>1, <2>2, <2>3, <2>4
<1>6. CASE PgUp
  <2> DEFINE n == IF Idx > maxRows THEN Idx - maxRows ELSE 0
             o == IF Offset > maxRows THEN Offset - maxRows ELSE 0
  <2>1. filtered # <<>> /\ MoveTo(n, o) /\ Idx > 0
    BY <1>3, <1>6 DEF PgUp
  <2>2. n \in 0..L - 1
    BY <1>1, <1>2, <2>1
  <2>3. o \in Int
    BY <1>1
  <2>4. InView /\ maxRows > 0 =>
            LET a == IF o >= L \/ o < 0 THEN 0 ELSE o
            IN  a <= n /\ n < a + maxRows
    BY <1>1, <1>2, <2>1 DEF InView
  <2> HIDE DEF n, o
  <2> QED BY <2>1, <2>2, <2>3, <2>4
<1>7. CASE PgDown
  <2> DEFINE n == IF Idx + maxRows < L - 1 THEN Idx + maxRows ELSE L - 1
             o == IF Offset + maxRows < L - maxRows
                  THEN Offset + maxRows ELSE L - maxRows
  <2>1. filtered # <<>> /\ MoveTo(n, o) /\ Idx < L - 1
    BY <1>1, <1>3, <1>7 DEF PgDown
  <2>2. n \in 0..L - 1
    BY <1>1, <1>2, <2>1
  <2>3. o \in Int
    BY <1>1
  <2>4. InView /\ maxRows > 0 =>
            LET a == IF o >= L \/ o < 0 THEN 0 ELSE o
            IN  a <= n /\ n < a + maxRows
    BY <1>1, <1>2, <2>1 DEF InView
  <2> HIDE DEF n, o
  <2> QED BY <2>1, <2>2, <2>3, <2>4
<1> QED BY <1>4, <1>5, <1>6, <1>7 DEF Keys

LEMMA NextTable == TableInv /\ [Next]_vars => TableInv'
<1> SUFFICES ASSUME TableInv, [Next]_vars PROVE TableInv'
  OBVIOUS
<1>1. CASE Source
  BY <1>1, SourceTable
<1>2. CASE Keys
  <2>1. PICK n \in 0..Len(filtered) - 1, o \in Int :
            filtered # <<>> /\ MoveTo(n, o)
    BY <1>2, KeyMoves
  <2> QED BY <2>1, MoveTable
<1>3. CASE RefreshDisplay
  BY <1>3, DisplayTable
<1>4. CASE \/ KeyInEmpty \/ RecreateWidgets
           \/ \E m \in Heights : Resize(m) \/ ToggleHeader(m)
  BY <1>4, LayoutTable
<1>5. CASE UNCHANGED vars
  <2>1. /\ highlighted' \subseteq highlighted
        /\ UNCHANGED <<sourceVars, filtered, selectedID, gridVars>>
    BY <1>5 DEF vars
  <2>2. /\ OffsetInRange' /\ Rows' \in 0..Cardinality(Containers)
        /\ Offset' \in Nat /\ maxRows' \in Heights
    BY <2>1 DEF TableInv, TableOK, TypeOK, OffsetInRange, gridVars
  <2> QED BY <2>1, <2>2, LessHighlighted
<1> QED BY <1>1, <1>2, <1>3, <1>4, <1>5 DEF Next

\* The table is well formed in every reachable state: its window, its selection
\* and its highlight fit its rows, whatever comes, goes, is filtered out or
\* sorted, in a terminal of any height.
THEOREM TableCorrect == Spec => []TableOK
<1>1. TableInv => TableOK
  BY DEF TableInv
<1> QED BY InitTable, NextTable, <1>1, PTL DEF Spec

\* Only keys, or the container no longer being listed, change the selection.
THEOREM SelectionStays == Spec => SelectionKept
<1>1. TableInv /\ [Next]_vars =>
          [selectedID' # selectedID => Keys \/ selectedID \notin Listed']_vars
  <2> SUFFICES ASSUME TableInv, Next, selectedID' # selectedID, ~Keys
               PROVE  selectedID \notin Listed'
    BY DEF vars
  <2>1. RefreshContainers
    BY DEF Next, Source, Reconnect, Lose, Appear, Vanish, RefreshDisplay,
       RefreshFails, KeyInEmpty, RecreateWidgets, Resize, ToggleHeader
  <2> QED BY <2>1, RefreshTable
<1>2. Spec => []TableInv
  BY InitTable, NextTable, PTL DEF Spec
<1> QED BY <1>1, <1>2, PTL DEF Spec, SelectionKept

\* A key never moves the cursor off the screen.
THEOREM CursorStaysInView == Spec => KeysKeepInView
<1>1. TableInv /\ [Next]_vars =>
          [Keys /\ InView /\ maxRows > 0 => InView']_vars
  <2> SUFFICES ASSUME TableInv, Keys, InView, maxRows > 0 PROVE InView'
    OBVIOUS
  <2>1. PICK n \in 0..Len(filtered) - 1, o \in Int :
            /\ filtered # <<>> /\ MoveTo(n, o)
            /\ LET a == IF o >= Len(filtered) \/ o < 0 THEN 0 ELSE o
               IN  a <= n /\ n < a + maxRows
    BY KeyMoves
  <2>2. Idx' = n
    BY <2>1, MoveTable
  <2>3. /\ Offset' = IF o >= Len(filtered) \/ o < 0 THEN 0 ELSE o
        /\ maxRows' = maxRows
    BY <2>1 DEF MoveTo, Align
  <2> QED BY <2>1, <2>2, <2>3 DEF InView
<1>2. Spec => []TableInv
  BY InitTable, NextTable, PTL DEF Spec
<1> QED BY <1>1, <1>2, PTL DEF Spec, KeysKeepInView


-----------------------------------------------------------------------------
(* The table under the event loop.  Its menus touch it in ways of their own. *)

LEMMA InitTuiTable == TuiInit => TableInv
BY InitTable DEF TuiInit

\* Nothing happens to the table but that a menu asked for the selection.
LEMMA SelectedIsCalledTable ==
    ASSUME TableInv, UNCHANGED sourceVars, SelectedIsCalled
    PROVE  TableInv'
<1>1. highlighted' \subseteq highlighted
  BY IdxHighlightsNothing DEF SelectedIsCalled
<1>2. UNCHANGED <<filtered, selectedID, Rows, Offset, maxRows>>
  BY DEF SelectedIsCalled
<1> QED BY <1>1, <1>2, SameGrid, LessHighlighted

LEMMA UntouchedTable ==
    ASSUME TableInv, UNCHANGED <<sourceVars, tableVars>>
    PROVE  TableInv'
<1>1. UNCHANGED vars
  BY DEF vars, tableVars, gridVars
<1> QED BY <1>1, NextTable

\* The program starts again.
LEMMA StartTable ==
    ASSUME TableInv, NEW hosts \in {1, 2}, Start(hosts)
    PROVE  TableInv'
<1>1. /\ connected' = FALSE /\ present' = {} /\ highlighted' = {}
      /\ filtered' = <<>> /\ selectedID' = None /\ Rows' = 0 /\ Offset' = 0
      /\ version' = [c \in Containers |-> 0] /\ maxRows' \in Heights
  BY DEF Start, TableInv, TableOK, TypeOK
<1>2. Init'
  BY <1>1 DEF Init
<1>3. Init' => TableInv'
  BY InitTable, PTL
<1> QED BY <1>2, <1>3

\* What the loop, the daemon and the keys of the table do to it.
LEMMA LoopTable ==
    ASSUME TableInv,
           \/ Daemon \/ Redisplay \/ Tick \/ GridKey \/ ErrorTick \/ ExitKey
           \/ Save \/ FilterMenu \/ ColumnsClose
    PROVE  TableInv'
<1>1. CASE Daemon
  <2>1. CASE \E c \in Containers : ContainerAppears(c)
    BY <2>1, SourceTable DEF ContainerAppears, Source
  <2>2. CASE \E c \in Containers, s \in States : Transition(c, s)
    BY <2>2, UntouchedTable DEF Transition, sourceVars
  <2>3. CASE Reconnect \/ Lose \/ \E c \in Containers : Vanish(c)
    BY <2>3, SourceTable DEF Source
  <2> QED BY <1>1, <2>1, <2>2, <2>3 DEF Daemon
<1>2. CASE Redisplay
  BY <1>2, RedrawTable DEF Redisplay
<1>3. CASE Tick \/ Save
  BY <1>3, DisplayTable DEF Tick, Save
<1>4. CASE GridKey
  <2>1. Next
    BY <1>4 DEF GridKey, Next
  <2> QED BY <2>1, NextTable
<1>5. CASE ErrorTick
  BY <1>5, SameGrid, ListingTable DEF ErrorTick
<1>6. CASE ExitKey
  BY <1>6, UntouchedTable DEF ExitKey, daemonVars, sourceVars
<1>7. CASE FilterMenu
  BY <1>7, DisplayTable, UntouchedTable DEF FilterMenu, sourceVars
<1>8. CASE ColumnsClose
  BY <1>8, LayoutTable, UntouchedTable DEF ColumnsClose, sourceVars
<1> QED BY <1>1, <1>2, <1>3, <1>4, <1>5, <1>6, <1>7, <1>8

\* A menu leaves the table alone, or asks for the selection.
MenusOnly ==
    \/ MenuMove \/ Leave \/ HelpMenu \/ SortMenu \/ Pick
    \/ ExportDir \/ Confirmed \/ SignalMenu \/ ResourceMenu
    \/ UpdateResources \/ GridMenuKey \/ ContainerMenu
    \/ ColumnsMenu \/ ColumnMove \/ ColumnSwitch \/ ColumnsDir

LEMMA MenusTouch ==
    ASSUME MenusOnly
    PROVE  /\ UNCHANGED <<connected, present, version>>
           /\ UNCHANGED tableVars \/ SelectedIsCalled
<1>1. CASE \/ MenuMove \/ Leave \/ HelpMenu \/ SortMenu \/ Pick
           \/ ExportDir \/ ResourceMenu
           \/ ColumnsMenu \/ ColumnMove \/ ColumnSwitch \/ ColumnsDir
  BY <1>1 DEF MenuMove, Leave, HelpMenu, SortMenu, Pick, ExportDir,
     ResourceMenu, ColumnsMenu, ColumnMove, ColumnSwitch, ColumnsDir, daemonVars
<1>2. CASE Confirmed \/ SignalMenu \/ UpdateResources
  BY <1>2 DEF Confirmed, SignalMenu, UpdateResources, Ask, daemonVars
<1>3. ASSUME ExecShell
      PROVE  SelectedIsCalled /\ UNCHANGED <<connected, present, version>>
  BY <1>3 DEF ExecShell, Ask, daemonVars
<1>4. ASSUME NEW v, OpenMenu(v)
      PROVE  SelectedIsCalled /\ UNCHANGED <<connected, present, version>>
  BY <1>4 DEF OpenMenu, OpenForSelected, daemonVars
<1>5. CASE GridMenuKey
  BY <1>3, <1>4, <1>5 DEF GridMenuKey
<1>6. CASE ContainerMenu
  BY <1>3, <1>4, <1>6 DEF ContainerMenu, daemonVars
<1> QED BY <1>1, <1>2, <1>5, <1>6 DEF MenusOnly

LEMMA TuiTable == TableInv /\ [TuiNext]_tuiVars => TableInv'
<1> SUFFICES ASSUME TableInv, [TuiNext]_tuiVars PROVE TableInv'
  OBVIOUS
<1>1. CASE MenusOnly
  BY <1>1, MenusTouch, UntouchedTable, SelectedIsCalledTable DEF sourceVars
<1>2. CASE UNCHANGED tuiVars
  BY <1>2, UntouchedTable DEF tuiVars, daemonVars, sourceVars
<1> QED BY <1>1, <1>2, LoopTable, StartTable DEF TuiNext, Menus, MenusOnly

-----------------------------------------------------------------------------
(* Lists with separators: the cursor stays on what can be chosen.           *)

LEMMA GreatestOne ==
    ASSUME NEW n \in Nat, NEW T \in SUBSET (0..n), T # {}
    PROVE  \E k \in T : \A m \in T : k >= m
<1> DEFINE U == {n - k : k \in T}
<1>1. U \in SUBSET Nat /\ U # {}
  <2>1. \A k \in T : k \in 0..n /\ n - k \in Nat
    OBVIOUS
  <2> QED BY <2>1
<1>2. PICK u \in U : \A v \in U : u <= v
  BY <1>1, LeastOne
<1>3. PICK k \in T : u = n - k
  BY <1>2
<1>4. ASSUME NEW m \in T PROVE k >= m
  <2>1. n - m \in U
    BY <1>4
  <2>2. n - k <= n - m
    BY <1>2, <1>3, <2>1
  <2>3. k \in Int /\ m \in Int
    BY <1>3, <1>4
  <2> QED BY <2>2, <2>3
<1> QED BY <1>4

\* The first and the last item of a list, and the one the cursor is on, can be
\* chosen.
GoodList(list, i) ==
    /\ Len(list) \in Nat /\ i \in 1..Len(list)
    /\ \A j \in {1, i, Len(list)} : M!Selectable(list, j)

LEMMA AboveIs ==
    ASSUME NEW list, NEW i, GoodList(list, i)
    PROVE  /\ M!Above(list, i) \in 1..Len(list)
           /\ M!Selectable(list, M!Above(list, i))
           /\ i > 1 /\ M!Selectable(list, i - 1) => M!Above(list, i) = i - 1
<1>1. i \in Nat /\ Len(list) \in Nat /\ i >= 1 /\ i <= Len(list)
  BY DEF GoodList
<1>2. CASE i = 1
  BY <1>1, <1>2 DEF GoodList, M!Above
<1>3. CASE i # 1
  <2> DEFINE S == {j \in 1..(i - 1) : j = 1 \/ M!Selectable(list, j)}
  <2>1. S \in SUBSET (0..i) /\ 1 \in S
    BY <1>1, <1>3
  <2>2. \E k \in S : \A m \in S : k >= m
    BY <1>1, <2>1, GreatestOne
  <2>3. M!Above(list, i) = M!Max(S)
    BY <1>3 DEF M!Above
  <2>4. M!Max(S) \in S /\ \A m \in S : M!Max(S) >= m
    <3> HIDE DEF S
    <3> QED BY <2>2 DEF M!Max
  <2>5. M!Above(list, i) \in S /\ \A m \in S : M!Above(list, i) >= m
    BY <2>3, <2>4
  <2>6. M!Selectable(list, i - 1) => M!Above(list, i) = i - 1
    <3>1. ASSUME M!Selectable(list, i - 1) PROVE i - 1 \in S
      BY <1>1, <1>3, <3>1
    <3> QED BY <1>1, <2>5, <3>1
  <2> QED BY <1>1, <2>5, <2>6 DEF GoodList
<1> QED BY <1>2, <1>3

LEMMA BelowIs ==
    ASSUME NEW list, NEW i, GoodList(list, i)
    PROVE  /\ M!Below(list, i) \in 1..Len(list)
           /\ M!Selectable(list, M!Below(list, i))
           /\ i < Len(list) /\ M!Selectable(list, i + 1) =>
                  M!Below(list, i) = i + 1
<1>1. i \in Nat /\ Len(list) \in Nat /\ i >= 1 /\ i <= Len(list)
  BY DEF GoodList
<1>2. CASE i = Len(list)
  BY <1>1, <1>2 DEF GoodList, M!Below
<1>3. CASE i # Len(list)
  <2> DEFINE S == {j \in (i + 1)..Len(list) :
                      j = Len(list) \/ M!Selectable(list, j)}
  <2>1. S \in SUBSET Nat /\ Len(list) \in S
    BY <1>1, <1>3
  <2>2. \E k \in S : \A m \in S : k <= m
    BY <2>1, LeastOne
  <2>3. M!Below(list, i) = M!Min(S)
    BY <1>3 DEF M!Below
  <2>4. M!Min(S) \in S /\ \A m \in S : M!Min(S) <= m
    <3> HIDE DEF S
    <3> QED BY <2>2 DEF M!Min
  <2>5. M!Below(list, i) \in S /\ \A m \in S : M!Below(list, i) <= m
    BY <2>3, <2>4
  <2>6. M!Selectable(list, i + 1) => M!Below(list, i) = i + 1
    <3>1. ASSUME M!Selectable(list, i + 1) PROVE i + 1 \in S
      BY <1>1, <1>3, <3>1
    <3> QED BY <1>1, <2>5, <3>1
  <2> QED BY <1>1, <2>5, <2>6 DEF GoodList
<1> QED BY <1>2, <1>3

LEMMA CursorToIs ==
    ASSUME NEW list, NEW i, NEW val, GoodList(list, i), val # M!Separator
    PROVE  GoodList(list, M!CursorTo(list, i, val))
<1> DEFINE S == {j \in 1..Len(list) : list[j] = val}
<1>1. CASE S = {}
  BY <1>1 DEF M!CursorTo
<1>2. CASE S # {}
  <2>1. S \in SUBSET Nat
    BY DEF GoodList
  <2>2. \E k \in S : \A m \in S : k <= m
    BY <1>2, <2>1, LeastOne
  <2>3. M!CursorTo(list, i, val) = M!Min(S)
    BY <1>2 DEF M!CursorTo
  <2>4. M!Min(S) \in S
    <3> HIDE DEF S
    <3> QED BY <2>2 DEF M!Min
  <2> QED BY <2>3, <2>4 DEF GoodList, M!Selectable
<1> QED BY <1>1, <1>2

\* The items of a container in state s.
ListFor(ro, s) ==
    <<"single", "files", "export_report", M!Separator>>
        \o Options(ro, s) \o <<"cancel", "quit">>

IsList(s) == Len(s) \in Nat /\ s = [j \in 1..Len(s) |-> s[j]]

LEMMA JoinTwo ==
    ASSUME NEW a, NEW b, IsList(a), IsList(b)
    PROVE  /\ IsList(a \o b) /\ Len(a \o b) = Len(a) + Len(b)
           /\ \A j \in 1..Len(a) + Len(b) :
                  (a \o b)[j] = IF j <= Len(a) THEN a[j] ELSE b[j - Len(a)]
<1> DEFINE T == {a[j] : j \in 1..Len(a)} \cup {b[j] : j \in 1..Len(b)}
<1>1. a \in Seq(T) /\ b \in Seq(T)
  <2>1. ASSUME NEW s, IsList(s), \A j \in 1..Len(s) : s[j] \in T
        PROVE  s \in Seq(T)
    BY <2>1 DEF IsList
  <2>2. /\ \A j \in 1..Len(a) : a[j] \in T
        /\ \A j \in 1..Len(b) : b[j] \in T
    OBVIOUS
  <2> HIDE DEF T
  <2> QED BY <2>1, <2>2
<1> HIDE DEF T
<1>2. /\ a \o b \in Seq(T) /\ Len(a \o b) = Len(a) + Len(b)
      /\ \A j \in 1..Len(a) + Len(b) :
             (a \o b)[j] = IF j <= Len(a) THEN a[j] ELSE b[j - Len(a)]
  BY <1>1, ConcatProperties
<1>3. IsList(a \o b)
  <2> DEFINE d == a \o b
  <2>1. d \in Seq(T)
    BY <1>2
  <2> HIDE DEF d
  <2>2. IsList(d)
    BY <2>1 DEF IsList
  <2> QED BY <2>2 DEF d
<1> QED BY <1>2, <1>3

LEMMA Joined ==
    ASSUME NEW a, NEW b, NEW c, NEW d, IsList(a), IsList(b), IsList(c),
           d = a \o b \o c
    PROVE  /\ IsList(d) /\ Len(d) = Len(a) + Len(b) + Len(c)
           /\ \A j \in 1..Len(d) :
                  d[j] = IF j <= Len(a) THEN a[j]
                         ELSE IF j <= Len(a) + Len(b) THEN b[j - Len(a)]
                         ELSE c[j - Len(a) - Len(b)]
<1>1. PICK e : e = a \o b
  OBVIOUS
<1>2. /\ IsList(e) /\ Len(e) = Len(a) + Len(b)
      /\ \A j \in 1..Len(a) + Len(b) :
             e[j] = IF j <= Len(a) THEN a[j] ELSE b[j - Len(a)]
  BY <1>1, JoinTwo
<1>3. d = e \o c
  BY <1>1
<1>4. /\ IsList(d) /\ Len(d) = Len(e) + Len(c)
      /\ \A j \in 1..Len(e) + Len(c) :
             d[j] = IF j <= Len(e) THEN e[j] ELSE c[j - Len(e)]
  BY <1>2, <1>3, JoinTwo
<1>5. Len(a) \in Nat /\ Len(b) \in Nat /\ Len(c) \in Nat
  BY DEF IsList
<1>6. ASSUME NEW j \in 1..Len(d)
      PROVE  d[j] = IF j <= Len(a) THEN a[j]
                    ELSE IF j <= Len(a) + Len(b) THEN b[j - Len(a)]
                    ELSE c[j - Len(a) - Len(b)]
  BY <1>2, <1>4, <1>5
<1> QED BY <1>2, <1>4, <1>6

LEMMA OptionsAre ==
    ASSUME NEW ro \in BOOLEAN, NEW s \in States
    PROVE  IsList(Options(ro, s)) /\ (ro => Options(ro, s) = <<>>)
<1>1. CASE ro
  <2>1. Options(ro, s) = <<>>
    BY <1>1 DEF Options
  <2> QED BY <2>1 DEF IsList
<1>2. CASE ~ro /\ s = "running"
  <2>1. Options(ro, s) = <<"stop", "pause", "restart", "signal", M!Separator,
                           "exec", "tune_resources", M!Separator>>
    BY <1>2 DEF Options
  <2> QED BY <1>2, <2>1 DEF IsList
<1>3. CASE ~ro /\ s = "exited"
  <2>1. Options(ro, s) = <<"start", "remove", M!Separator>>
    BY <1>3 DEF Options
  <2> QED BY <1>3, <2>1 DEF IsList
<1>4. CASE ~ro /\ s = "paused"
  <2>1. Options(ro, s) = <<"unpause", M!Separator>>
    BY <1>4 DEF Options
  <2> QED BY <1>4, <2>1 DEF IsList
<1> QED BY <1>1, <1>2, <1>3, <1>4 DEF States

LEMMA ContainerItemsAre ==
    ASSUME NEW ro \in BOOLEAN, NEW s \in States
    PROVE  /\ GoodList(ListFor(ro, s), 1)
           /\ ro => \A j \in 1..Len(ListFor(ro, s)) :
                        ListFor(ro, s)[j] \in
                            {"single", "files", "export_report", M!Separator,
                             "cancel", "quit"}
<1> DEFINE a == <<"single", "files", "export_report", M!Separator>>
           b == Options(ro, s)
           c == <<"cancel", "quit">>
           d == ListFor(ro, s)
<1>1. /\ IsList(a) /\ Len(a) = 4 /\ a[1] = "single"
      /\ IsList(c) /\ Len(c) = 2 /\ c[2] = "quit"
      /\ IsList(b) /\ (ro => b = <<>>)
  <2>1. IsList(a) /\ Len(a) = 4 /\ a[1] = "single"
    BY DEF IsList
  <2>2. IsList(c) /\ Len(c) = 2 /\ c[2] = "quit"
    BY DEF IsList
  <2> QED BY <2>1, <2>2, OptionsAre
<1>2. /\ \A j \in 1..4 : a[j] \in {"single", "files", "export_report", M!Separator}
      /\ \A j \in 1..2 : c[j] \in {"cancel", "quit"}
  OBVIOUS
<1>3. d = a \o b \o c
  BY DEF ListFor
<1> HIDE DEF a, b, c, d
<1>4. /\ Len(d) = Len(a) + Len(b) + Len(c)
      /\ \A j \in 1..Len(d) :
             d[j] = IF j <= Len(a) THEN a[j]
                    ELSE IF j <= Len(a) + Len(b) THEN b[j - Len(a)]
                    ELSE c[j - Len(a) - Len(b)]
  <2>1. IsList(a) /\ IsList(b) /\ IsList(c)
    BY <1>1
  <2> QED BY <1>3, <2>1, Joined
<1>5. Len(b) \in Nat /\ (ro => Len(b) = 0)
  BY <1>1 DEF IsList
<1>6. d[1] = "single" /\ d[Len(d)] = "quit" /\ Len(d) \in Nat /\ Len(d) >= 6
  BY <1>1, <1>4, <1>5
<1>7. GoodList(d, 1)
  BY <1>6 DEF GoodList, M!Selectable, M!Separator
<1>8. ASSUME ro, NEW j \in 1..Len(d)
      PROVE  d[j] \in {"single", "files", "export_report", M!Separator,
                       "cancel", "quit"}
  <2>1. CASE j <= 4
    BY <1>1, <1>2, <1>4, <2>1
  <2>2. CASE j > 4
    <3>1. j - 4 \in 1..2 /\ d[j] = c[j - 4]
      BY <1>1, <1>4, <1>5, <1>8, <2>2
    <3> QED BY <1>2, <3>1
  <2> QED BY <2>1, <2>2
<1> QED BY <1>7, <1>8 DEF d

LEMMA ListsAreGood ==
    /\ \A i \in 1..Len(SortItems) : GoodList(SortItems, i)
    /\ GoodList(ResourceItems, 1) /\ GoodList(PolicyItems, 1)
    /\ GoodList(SignalItems, 1) /\ GoodList(ExportItems, 1)
    /\ GoodList(ConfirmItems, 1)
BY DEF GoodList, M!Selectable, M!Separator, SortItems, ResourceItems,
   PolicyItems, SignalItems, ExportItems, ConfirmItems

-----------------------------------------------------------------------------
(* The menus. *)

\* Views that are about the selected container.
ForSelected ==
    {"container", "confirm", "signal", "resource", "policy", "amount",
     "export", "exportDir", "single", "files"}

Lists == Listing \cup {"columnsDir", "exportDir"}

\* The cursor of an open list is on an item, the list is the one of the view,
\* and the object of a menu is the one that the cursor of the table is on.  In
\* read-only mode there is nothing to confirm and no signal to send.
MenuInv ==
    /\ view \in Views /\ readOnly \in BOOLEAN
    /\ state \in [Objects -> States]
    /\ target \in Objects \cup {NoObject}
    /\ pending \in Operations \cup {None}
    /\ view \in Lists => GoodList(items, at)
    /\ view = "container" => \E s \in States : items = ListFor(readOnly, s)
    /\ view = "confirm" => pending \in Operations
    /\ view \in {"columns", "columnsDir"} => items = ColumnItems(columns)
    /\ readOnly => view \notin {"confirm", "signal"}
    /\ view \in ForSelected => filtered # <<>> /\ target = Selected

LEMMA SelectedIs ==
    ASSUME TableInv, filtered # <<>> PROVE Selected \in Objects
<1>1. Idx \in 0..Len(filtered) - 1 /\ filtered \in Seq(Objects)
  BY IdxIs DEF TableInv, TableOK, TypeOK, Objects
<1>2. Idx + 1 \in 1..Len(filtered)
  BY <1>1
<1> QED BY <1>1, <1>2 DEF Selected

LEMMA SelectedStays ==
    ASSUME UNCHANGED <<filtered, selectedID>> PROVE Selected' = Selected
BY DEF Selected, Idx

LEMMA InitMenu == TuiInit => MenuInv
BY DEF TuiInit, MenuInv, Views, Listing, Lists, States, ForSelected

\* No menu is open.
LEMMA NoMenuKeeps ==
    ASSUME state' \in [Objects -> States], readOnly' \in BOOLEAN,
           view' \in {"main", "grid", "error", "quit"}, NoMenu
    PROVE  MenuInv'
BY DEF NoMenu, MenuInv, Views, Listing, Lists, ForSelected

\* A menu is opened, with the cursor on an item of it.
LEMMA ShowKeeps ==
    ASSUME MenuInv, UNCHANGED <<state, readOnly, columns>>,
           UNCHANGED <<filtered, selectedID>>,
           NEW v \in Views, NEW vals, NEW i, NEW o \in Objects \cup {NoObject},
           ShowAt(v, vals, i, o), v # "confirm",
           v \in Lists => GoodList(vals, i),
           v = "container" => \E s \in States : vals = ListFor(readOnly, s),
           v \in {"columns", "columnsDir"} => vals = ColumnItems(columns),
           readOnly => v # "signal",
           v \in ForSelected => filtered # <<>> /\ o = Selected
    PROVE  MenuInv'
<1>1. /\ view' = v /\ items' = vals /\ at' = i /\ target' = o
      /\ pending' = None
  BY DEF ShowAt
<1>2. Selected' = Selected
  BY SelectedStays
<1>3. /\ view' \in Views /\ readOnly' \in BOOLEAN
      /\ state' \in [Objects -> States]
      /\ target' \in Objects \cup {NoObject}
      /\ pending' \in Operations \cup {None}
  BY <1>1 DEF MenuInv
<1>4. view' \in Lists => GoodList(items, at)'
  BY <1>1 DEF GoodList
<1>5. view' = "container" => \E s \in States : items' = ListFor(readOnly, s)'
  BY <1>1 DEF ListFor, Options
<1>6. view' \in {"columns", "columnsDir"} => items' = ColumnItems(columns)'
  BY <1>1 DEF ColumnItems
<1> QED BY <1>1, <1>2, <1>3, <1>4, <1>5, <1>6 DEF MenuInv, Lists, ForSelected

\* Nothing that the menus are about changes, but the state of containers.
LEMMA SameMenu ==
    ASSUME MenuInv, UNCHANGED <<view, menuVars, readOnly, columns>>,
           state' \in [Objects -> States],
           view \in ForSelected => UNCHANGED <<filtered, selectedID>>
    PROVE  MenuInv'
<1>1. UNCHANGED <<view, items, at, target, pending, readOnly, columns>>
  BY DEF menuVars
<1>2. view \in ForSelected => Selected' = Selected
  BY SelectedStays
<1>3. view \in Lists => GoodList(items, at)'
  BY <1>1 DEF GoodList, MenuInv
<1>4. view = "container" => \E s \in States : items' = ListFor(readOnly, s)'
  BY <1>1 DEF MenuInv
<1>5. view \in {"columns", "columnsDir"} => items' = ColumnItems(columns)'
  BY <1>1 DEF ColumnItems, MenuInv
<1> QED BY <1>1, <1>2, <1>3, <1>4, <1>5 DEF MenuInv, ForSelected

\* The view is one without a menu.
LEMMA PlainKeeps ==
    ASSUME MenuInv, UNCHANGED <<state, readOnly>>,
           UNCHANGED menuVars \/ NoMenu,
           view' \in {"main", "grid", "error", "quit", "help", "filter"}
    PROVE  MenuInv'
<1>1. /\ target' \in Objects \cup {NoObject}
      /\ pending' \in Operations \cup {None}
  BY DEF MenuInv, menuVars, NoMenu
<1> QED BY <1>1 DEF MenuInv, Views, Listing, Lists, ForSelected

LEMMA DaemonMenu == MenuInv /\ Daemon => MenuInv'
<1> SUFFICES ASSUME MenuInv, Daemon PROVE MenuInv'
  OBVIOUS
<1>1. UNCHANGED <<view, menuVars, readOnly, columns, filtered, selectedID>>
  BY DEF Daemon, ContainerAppears, Transition, Appear, Vanish, Reconnect, Lose,
     configVars, tableVars
<1>2. state' \in [Objects -> States]
  <2>1. CASE UNCHANGED state
    BY <2>1 DEF MenuInv
  <2>2. CASE \E o : \E s \in States : state' = [state EXCEPT ![o] = s]
    BY <2>2 DEF MenuInv
  <2>3. UNCHANGED state \/ \E o : \E s \in States : state' = [state EXCEPT ![o] = s]
    <3>1. ASSUME NEW c \in Containers, ContainerAppears(c)
          PROVE  \E o : \E s \in States : state' = [state EXCEPT ![o] = s]
      BY <3>1 DEF ContainerAppears
    <3>2. ASSUME NEW c \in Containers, NEW s \in States, Transition(c, s)
          PROVE  \E o : \E z \in States : state' = [state EXCEPT ![o] = z]
      BY <3>2 DEF Transition
    <3> QED BY <3>1, <3>2 DEF Daemon
  <2> QED BY <2>1, <2>2, <2>3
<1> QED BY <1>1, <1>2, SameMenu

LEMMA LoopMenu ==
    ASSUME MenuInv,
           \/ Redisplay \/ Tick \/ GridKey \/ ErrorTick \/ ExitKey \/ Save
           \/ FilterMenu \/ HelpMenu \/ Leave \/ Pick \/ ColumnsClose
    PROVE  MenuInv'
<1>1. UNCHANGED <<state, readOnly>>
  BY DEF Redisplay, Tick, GridKey, ErrorTick, ExitKey, Save, FilterMenu,
     HelpMenu, Leave, Pick, ColumnsClose, quietVars, daemonVars
<1>2. CASE Redisplay \/ Tick \/ GridKey \/ ErrorTick \/ Save
  <2>1. UNCHANGED menuVars /\ view' \in {"main", "grid", "error"}
    BY <1>2 DEF Redisplay, Tick, GridKey, ErrorTick, Save, quietVars
  <2> QED BY <1>1, <2>1, PlainKeeps
<1>3. CASE ExitKey \/ Leave \/ Pick \/ ColumnsClose
  <2>1. NoMenu /\ view' \in {"main", "quit"}
    BY <1>3 DEF ExitKey, Leave, Pick, ColumnsClose, Quit, Close
  <2> QED BY <1>1, <2>1, PlainKeeps
<1>4. CASE FilterMenu
  <2>1. CASE Show("filter", <<>>, NoObject)
    BY <1>1, <2>1 DEF Show, ShowAt, MenuInv, Views, Listing, Lists, ForSelected
  <2>2. CASE Close \/ UNCHANGED <<view, menuVars, request>>
    <3>1. CASE Close
      BY <1>1, <3>1, PlainKeeps DEF Close
    <3>2. CASE UNCHANGED <<view, menuVars, request>> /\ view = "filter"
      BY <1>1, <3>2, PlainKeeps
    <3> QED BY <1>4, <2>2, <3>1, <3>2, <2>1 DEF FilterMenu
  <2> QED BY <1>4, <2>1, <2>2 DEF FilterMenu
<1>5. CASE HelpMenu
  BY <1>1, <1>5 DEF HelpMenu, Show, ShowAt, MenuInv, Views, Listing, Lists,
     ForSelected
<1> QED BY <1>2, <1>3, <1>4, <1>5

LEMMA MoveMenu == MenuInv /\ MenuMove => MenuInv'
<1> SUFFICES ASSUME MenuInv, MenuMove PROVE MenuInv'
  OBVIOUS
<1>1. /\ UNCHANGED <<state, readOnly, view, items, target, pending, columns,
                     filtered, selectedID>>
      /\ at' \in {M!Above(items, at), M!Below(items, at)}
      /\ view \in Lists
  BY DEF MenuMove, daemonVars, tableVars, configVars, Lists
<1>2. GoodList(items, at)
  BY <1>1 DEF MenuInv
<1>3. GoodList(items', at')
  BY <1>1, <1>2, AboveIs, BelowIs DEF GoodList
<1>4. Selected' = Selected
  BY <1>1, SelectedStays
<1>5. view = "container" => \E s \in States : items' = ListFor(readOnly, s)'
  BY <1>1 DEF MenuInv
<1>6. view \in {"columns", "columnsDir"} => items' = ColumnItems(columns)'
  BY <1>1 DEF ColumnItems, MenuInv
<1> QED BY <1>1, <1>3, <1>4, <1>5, <1>6 DEF MenuInv

\* Asking the daemon closes the menu.
LEMMA AskMenu ==
    ASSUME MenuInv, NEW op, NEW o, Ask(op, o) PROVE MenuInv'
<1>1. view' = "main" /\ NoMenu /\ UNCHANGED readOnly
  BY DEF Ask
<1>2. state' \in [Objects -> States]
  <2>1. CASE UNCHANGED state
    BY <2>1 DEF MenuInv
  <2>2. CASE state' = [state EXCEPT ![o] = StateAfter(op, @)]
    <3>1. \A z \in States : StateAfter(op, z) \in States
      BY DEF StateAfter, States
    <3> QED BY <2>2, <3>1 DEF MenuInv
  <2> QED BY <2>1, <2>2 DEF Ask
<1>3. readOnly' \in BOOLEAN
  BY <1>1 DEF MenuInv
<1> QED BY <1>1, <1>2, <1>3, NoMenuKeeps

\* Opening a menu for the selected container.
LEMMA OpenMenuKeeps ==
    ASSUME TableInv, MenuInv, NEW v, OpenMenu(v), readOnly => v # "signal"
    PROVE  MenuInv'
<1>1. ASSUME NEW w \in ForSelected \ {"confirm"}, NEW vals,
             OpenForSelected(w, vals),
             filtered # <<>> /\ w \in Lists => GoodList(vals, 1),
             filtered # <<>> /\ w = "container" =>
                 \E s \in States : vals = ListFor(readOnly, s),
             readOnly => w # "signal"
      PROVE  MenuInv'
  <2>1. UNCHANGED <<state, readOnly, columns, filtered, selectedID>>
    BY <1>1 DEF OpenForSelected, SelectedIsCalled, daemonVars, configVars
  <2>2. CASE filtered = <<>>
    <3>1. Close
      BY <1>1, <2>2 DEF OpenForSelected
    <3> QED BY <2>1, <3>1, PlainKeeps DEF Close
  <2>3. CASE filtered # <<>>
    <3>1. ShowAt(w, vals, 1, Selected)
      BY <1>1, <2>3 DEF OpenForSelected, Show
    <3>2. Selected \in Objects \cup {NoObject}
      BY <2>3, SelectedIs
    <3>3. w \in Views /\ w # "confirm" /\ w \notin {"columns", "columnsDir"}
      BY DEF Views, Listing, ForSelected
    <3>4. (w \in Lists => GoodList(vals, 1))
          /\ (w = "container" => \E s \in States : vals = ListFor(readOnly, s))
      BY <1>1, <2>3
    <3> QED BY <1>1, <2>1, <2>3, <3>1, <3>2, <3>3, <3>4, ShowKeeps
  <2> QED BY <2>2, <2>3
<1>2. CASE v = "container"
  <2>1. filtered # <<>> =>
            /\ state[Selected] \in States
            /\ ContainerItems(Selected) = ListFor(readOnly, state[Selected])
            /\ readOnly \in BOOLEAN
    BY SelectedIs DEF MenuInv, ContainerItems, ListFor
  <2>2. filtered # <<>> => GoodList(ContainerItems(Selected), 1)
    BY <2>1, ContainerItemsAre
  <2>3. OpenForSelected("container", ContainerItems(Selected))
    BY <1>2 DEF OpenMenu
  <2>4. "container" \in ForSelected \ {"confirm"}
    BY DEF ForSelected
  <2> HIDE DEF ForSelected
  <2> QED BY <1>1, <2>1, <2>2, <2>3, <2>4
<1>3. CASE v = "signal"
  <2>1. OpenForSelected("signal", SignalItems)
    BY <1>3 DEF OpenMenu
  <2>2. "signal" \in ForSelected \ {"confirm"}
    BY DEF ForSelected
  <2> QED BY <1>1, <1>3, <2>1, <2>2, ListsAreGood
<1>4. CASE v = "resource"
  <2>1. OpenForSelected("resource", ResourceItems)
    BY <1>4 DEF OpenMenu
  <2>2. "resource" \in ForSelected \ {"confirm"}
    BY DEF ForSelected
  <2> QED BY <1>1, <2>1, <2>2, ListsAreGood
<1>5. CASE v = "export"
  <2>1. OpenForSelected("export", ExportItems)
    BY <1>5 DEF OpenMenu
  <2>2. "export" \in ForSelected \ {"confirm"}
    BY DEF ForSelected
  <2> QED BY <1>1, <2>1, <2>2, ListsAreGood
<1>6. CASE v \in {"single", "files"}
  <2>1. OpenForSelected(v, <<>>)
    BY <1>6 DEF OpenMenu
  <2>2. v \in ForSelected \ {"confirm"} /\ v \notin Lists
    BY <1>6 DEF ForSelected, Lists, Listing
  <2> QED BY <1>1, <1>6, <2>1, <2>2
<1> QED BY <1>2, <1>3, <1>4, <1>5, <1>6 DEF OpenMenu

LEMMA ExecMenu == MenuInv /\ ExecShell => MenuInv'
<1> SUFFICES ASSUME MenuInv, ExecShell PROVE MenuInv'
  OBVIOUS
<1>1. CASE filtered = <<>>
  <2>1. Close /\ UNCHANGED <<state, readOnly>>
    BY <1>1 DEF ExecShell, daemonVars
  <2> QED BY <2>1, PlainKeeps DEF Close
<1>2. CASE filtered # <<>>
  BY <1>2, AskMenu DEF ExecShell
<1> QED BY <1>1, <1>2

LEMMA ContainerMenuKeeps ==
    ASSUME TableInv, MenuInv, ContainerMenu PROVE MenuInv'
<1>1. PICK val \in HotKeys(state[target]) \cup {items[at]} :
         \/ val \in {"single", "files", "signal"} /\ OpenMenu(val)
         \/ val = "tune_resources" /\ OpenMenu("resource")
         \/ val = "exec" /\ ExecShell
         \/ /\ \/ /\ val \in Operations
                  /\ view' = "confirm" /\ items' = ConfirmItems /\ at' = 1
                  /\ pending' = val /\ UNCHANGED target
                  /\ request' = NoRequest
               \/ val = "export_report" /\ Show("export", ExportItems, target)
               \/ val = "cancel" /\ Close
               \/ val = "quit" /\ Quit
            /\ UNCHANGED <<daemonVars, tableVars, readOnly, configVars>>
  BY DEF ContainerMenu
<1>2. readOnly => val \notin Operations \cup {"signal"}
  <2> SUFFICES ASSUME readOnly PROVE val \notin Operations \cup {"signal"}
    OBVIOUS
  <2>1. PICK s \in States : items = ListFor(readOnly, s)
    BY DEF ContainerMenu, MenuInv
  <2>2. at \in 1..Len(items)
    BY DEF ContainerMenu, MenuInv, Lists, Listing, GoodList
  <2>3. items[at] \in {"single", "files", "export_report", M!Separator,
                       "cancel", "quit"}
    BY <2>1, <2>2, ContainerItemsAre DEF MenuInv
  <2>4. HotKeys(state[target]) = {"single", "files", "export_report", "quit"}
    BY DEF HotKeys
  <2> QED BY <2>3, <2>4 DEF Operations, M!Separator
<1>3. /\ view = "container" /\ filtered # <<>> /\ target = Selected
      /\ target \in Objects \cup {NoObject}
  BY DEF ContainerMenu, MenuInv, ForSelected
<1>4. CASE \/ val \in {"single", "files", "signal"} /\ OpenMenu(val)
           \/ val = "tune_resources" /\ OpenMenu("resource")
  BY <1>2, <1>4, OpenMenuKeeps
<1>5. CASE val = "exec" /\ ExecShell
  BY <1>5, ExecMenu
<1>6. ASSUME UNCHANGED <<daemonVars, tableVars, readOnly, configVars>>
      PROVE  UNCHANGED <<state, readOnly, columns, filtered, selectedID>>
  BY <1>6 DEF daemonVars, tableVars, configVars
<1>7. CASE /\ val \in Operations
           /\ view' = "confirm" /\ items' = ConfirmItems /\ at' = 1
           /\ pending' = val /\ UNCHANGED target
           /\ UNCHANGED <<daemonVars, tableVars, readOnly, configVars>>
  <2>1. UNCHANGED <<state, readOnly, columns, filtered, selectedID>>
    BY <1>6, <1>7
  <2>2. Selected' = Selected
    BY <2>1, SelectedStays
  <2>3. GoodList(items, at)'
    BY <1>7, ListsAreGood DEF GoodList
  <2>4. view' \in Views
    BY <1>7 DEF Views, Listing
  <2> QED BY <1>2, <1>3, <1>7, <2>1, <2>2, <2>3, <2>4 DEF MenuInv
<1>8. CASE /\ Show("export", ExportItems, target)
           /\ UNCHANGED <<daemonVars, tableVars, readOnly, configVars>>
  <2>1. UNCHANGED <<state, readOnly, columns, filtered, selectedID>>
    BY <1>6, <1>8
  <2>2. ShowAt("export", ExportItems, 1, target)
    BY <1>8 DEF Show
  <2>3. "export" \in Views
    BY DEF Views, Listing
  <2> QED BY <1>3, <2>1, <2>2, <2>3, ListsAreGood, ShowKeeps
<1>9. CASE /\ Close \/ Quit
           /\ UNCHANGED <<daemonVars, tableVars, readOnly, configVars>>
  <2>1. UNCHANGED <<state, readOnly>>
    BY <1>6, <1>9
  <2> QED BY <1>9, <2>1, PlainKeeps DEF Close, Quit
<1> QED BY <1>1, <1>4, <1>5, <1>7, <1>8, <1>9

LEMMA OtherMenus ==
    ASSUME TableInv, MenuInv,
           \/ SortMenu \/ ExportDir \/ Confirmed \/ SignalMenu \/ ResourceMenu
           \/ UpdateResources \/ GridMenuKey
    PROVE  MenuInv'
<1>1. ASSUME UNCHANGED <<daemonVars, tableVars, readOnly, configVars>>
      PROVE  UNCHANGED <<state, readOnly, columns, filtered, selectedID>>
  BY <1>1 DEF daemonVars, tableVars, configVars
<1>2. CASE SortMenu
  <2>1. PICK i \in 1..Len(SortItems) : ShowAt("sort", SortItems, i, NoObject)
    BY <1>2 DEF SortMenu
  <2>2. UNCHANGED <<state, readOnly, columns, filtered, selectedID>>
    BY <1>1, <1>2 DEF SortMenu
  <2>3. "sort" \in Views /\ "sort" \notin ForSelected
    BY DEF Views, Listing, ForSelected
  <2> QED BY <2>1, <2>2, <2>3, ListsAreGood, ShowKeeps
<1>3. CASE ExportDir
  <2>1. UNCHANGED <<state, readOnly, columns, filtered, selectedID>>
    BY <1>1, <1>3 DEF ExportDir
  <2>2. /\ view \in {"export", "exportDir"} /\ GoodList(items, at)
        /\ filtered # <<>> /\ target = Selected
        /\ target \in Objects \cup {NoObject}
    BY <1>3 DEF ExportDir, MenuInv, Lists, Listing, ForSelected
  <2>3. {"export", "exportDir"} \subseteq Views
    BY DEF Views, Listing
  <2>4. GoodList(items, M!CursorTo(items, at, "dir"))
    <3>1. "dir" # M!Separator
      BY DEF M!Separator
    <3> QED BY <2>2, <3>1, CursorToIs
  <2>5. CASE ShowAt("exportDir", items, at, target)
    BY <2>1, <2>2, <2>3, <2>5, ShowKeeps
  <2>6. CASE /\ view = "exportDir"
             /\ ShowAt("export", items, M!CursorTo(items, at, "dir"), target)
    BY <2>1, <2>2, <2>3, <2>4, <2>6, ShowKeeps
  <2> QED BY <1>3, <2>5, <2>6 DEF ExportDir
<1>4. CASE Confirmed
  <2>1. CASE Allows(pending, target)
    BY <1>4, <2>1, AskMenu DEF Confirmed
  <2>2. CASE ~Allows(pending, target)
    <3>1. Close /\ UNCHANGED <<state, readOnly>>
      BY <1>4, <2>2 DEF Confirmed, daemonVars
    <3> QED BY <3>1, PlainKeeps DEF Close
  <2> QED BY <2>1, <2>2
<1>5. CASE SignalMenu \/ UpdateResources
  BY <1>5, AskMenu DEF SignalMenu, UpdateResources
<1>6. CASE ResourceMenu
  <2>1. UNCHANGED <<state, readOnly, columns, filtered, selectedID>>
    BY <1>1, <1>6 DEF ResourceMenu
  <2>2. /\ filtered # <<>> /\ target = Selected
        /\ target \in Objects \cup {NoObject}
    BY <1>6 DEF ResourceMenu, MenuInv, ForSelected
  <2>3. {"amount", "policy"} \subseteq Views /\ "amount" \notin Lists
    BY DEF Views, Listing, Lists
  <2>4. CASE ShowAt("amount", <<>>, 1, target)
    BY <2>1, <2>2, <2>3, <2>4, ShowKeeps
  <2>5. CASE ShowAt("policy", PolicyItems, 1, target)
    BY <2>1, <2>2, <2>3, <2>5, ListsAreGood, ShowKeeps
  <2> QED BY <1>6, <2>4, <2>5 DEF ResourceMenu, Show
<1>7. CASE GridMenuKey
  BY <1>7, OpenMenuKeeps, ExecMenu DEF GridMenuKey
<1> QED BY <1>2, <1>3, <1>4, <1>5, <1>6, <1>7

LEMMA StartMenu ==
    ASSUME NEW hosts \in {1, 2}, Start(hosts) PROVE MenuInv'
<1>1. /\ state' = [o \in Objects |-> "exited"] /\ readOnly' \in BOOLEAN
      /\ view' = "main" /\ NoMenu
  BY DEF Start
<1>2. state' \in [Objects -> States]
  BY <1>1 DEF States
<1> QED BY <1>1, <1>2, NoMenuKeeps

-----------------------------------------------------------------------------
(* The columns. *)

ColumnNames == {"name", "host", "cpu"}
Column == [name : ColumnNames, on : BOOLEAN]

\* Each column is there once.
Ordered(cols) ==
    /\ cols \in Seq(Column)
    /\ \A n \in ColumnNames : \E i \in 1..Len(cols) : cols[i].name = n
    /\ \A i, j \in 1..Len(cols) : cols[i].name = cols[j].name => i = j

\* A list of columns, as a file has it.
NameLists == {l \in Seq(ColumnNames) : IsInjective(l)}

ConfigInv ==
    /\ Ordered(columns)
    /\ file \in {NoFile, Broken} \cup NameLists
    /\ saved \in NameLists
    /\ saved # <<>> => file = saved

LEMMA PlaceIs ==
    ASSUME NEW cols, Ordered(cols), NEW n
    PROVE  LET p == Place(cols, n)
           IN  /\ p \in 0..Len(cols)
               /\ p # 0 => cols[p].name = n
               /\ \A i \in 1..Len(cols) : cols[i].name = n => p = i
<1> DEFINE I == {i \in 1..Len(cols) : cols[i].name = n}
           p == Place(cols, n)
<1>1. p = IF I # {} THEN Min(I) ELSE 0
  BY DEF Place, SelectInSeq
<1>2. Len(cols) \in Nat
  BY DEF Ordered
<1>3. CASE I = {}
  BY <1>1, <1>2, <1>3
<1>4. CASE I # {}
  <2>1. I \in SUBSET Nat
    OBVIOUS
  <2>2. \E i \in I : \A j \in I : i <= j
    BY <1>4, <2>1, LeastOne
  <2>3. Min(I) \in I
    <3> HIDE DEF I
    <3> QED BY <2>2 DEF Min
  <2>4. p \in I
    BY <1>1, <1>4, <2>3
  <2> QED BY <1>2, <2>4 DEF Ordered
<1> QED BY <1>3, <1>4

LEMMA SwapOrdered ==
    ASSUME NEW cols, Ordered(cols), NEW i \in 1..Len(cols),
           NEW j \in 1..Len(cols)
    PROVE  /\ Ordered(Swap(cols, i, j)) /\ Len(Swap(cols, i, j)) = Len(cols)
           /\ Swap(cols, i, j)[i] = cols[j] /\ Swap(cols, i, j)[j] = cols[i]
<1> DEFINE d == Swap(cols, i, j)
           at_(k) == IF k = i THEN j ELSE IF k = j THEN i ELSE k
<1>1. cols \in Seq(Column) /\ Len(cols) \in Nat
  BY DEF Ordered
<1>2. /\ d \in Seq(Column) /\ Len(d) = Len(cols)
      /\ \A k \in 1..Len(cols) :
             d[k] = IF k = j THEN cols[i] ELSE IF k = i THEN cols[j] ELSE cols[k]
  <2>1. cols[i] \in Column /\ cols[j] \in Column
    BY <1>1
  <2>2. d = [[cols EXCEPT ![i] = cols[j]] EXCEPT ![j] = cols[i]]
    BY DEF Swap
  <2> HIDE DEF d
  <2>3. PICK u : u = [cols EXCEPT ![i] = cols[j]]
    OBVIOUS
  <2>4. /\ u \in Seq(Column) /\ Len(u) = Len(cols)
        /\ \A k \in 1..Len(cols) : u[k] = IF k = i THEN cols[j] ELSE cols[k]
    BY <1>1, <2>1, <2>3
  <2>5. d = [u EXCEPT ![j] = cols[i]]
    BY <2>2, <2>3
  <2>6. /\ d \in Seq(Column) /\ Len(d) = Len(u)
        /\ \A k \in 1..Len(u) : d[k] = IF k = j THEN cols[i] ELSE u[k]
    BY <2>1, <2>4, <2>5
  <2> QED BY <2>4, <2>6
<1>3. \A k \in 1..Len(cols) : at_(k) \in 1..Len(cols) /\ d[k] = cols[at_(k)]
                              /\ d[at_(k)] = cols[k]
  BY <1>2
<1>4. \A k, l \in 1..Len(cols) : at_(k) = at_(l) => k = l
  OBVIOUS
<1> HIDE DEF d, at_
<1>5. \A n \in ColumnNames : \E k \in 1..Len(d) : d[k].name = n
  <2> SUFFICES ASSUME NEW n \in ColumnNames
               PROVE  \E k \in 1..Len(d) : d[k].name = n
    OBVIOUS
  <2>1. PICK k \in 1..Len(cols) : cols[k].name = n
    BY DEF Ordered
  <2> QED BY <1>2, <1>3, <2>1
<1>6. \A k, l \in 1..Len(d) : d[k].name = d[l].name => k = l
  <2> SUFFICES ASSUME NEW k \in 1..Len(cols), NEW l \in 1..Len(cols),
                      d[k].name = d[l].name
               PROVE  k = l
    BY <1>2
  <2>1. cols[at_(k)].name = cols[at_(l)].name
    BY <1>3
  <2>2. at_(k) = at_(l)
    BY <1>3, <2>1 DEF Ordered
  <2> QED BY <1>4, <2>2
<1>7. Ordered(d)
  BY <1>2, <1>5, <1>6 DEF Ordered
<1> QED BY <1>2, <1>7 DEF d

LEMMA ToggleOrdered ==
    ASSUME NEW cols, Ordered(cols), NEW n
    PROVE  /\ Ordered(ColumnToggle(cols, n))
           /\ Len(ColumnToggle(cols, n)) = Len(cols)
           /\ \A i \in 1..Len(cols) :
                  ColumnToggle(cols, n)[i].name = cols[i].name
<1> DEFINE d == ColumnToggle(cols, n)
<1>1. cols \in Seq(Column) /\ Len(cols) \in Nat
  BY DEF Ordered
<1>2. \A i \in 1..Len(cols) :
          /\ [cols[i] EXCEPT !.on = ~@] \in Column
          /\ [cols[i] EXCEPT !.on = ~@].name = cols[i].name
  <2> SUFFICES ASSUME NEW c \in Column
               PROVE  /\ [c EXCEPT !.on = ~@] \in Column
                      /\ [c EXCEPT !.on = ~@].name = c.name
    BY <1>1
  <2>1. PICK m \in ColumnNames, o \in BOOLEAN : c = [name |-> m, on |-> o]
    BY DEF Column
  <2>2. [c EXCEPT !.on = ~@] = [name |-> m, on |-> ~o]
    BY <2>1
  <2>3. (~o) \in BOOLEAN
    OBVIOUS
  <2> QED BY <2>1, <2>2, <2>3 DEF Column
<1>3. /\ d \in Seq(Column) /\ Len(d) = Len(cols)
      /\ \A i \in 1..Len(cols) : d[i].name = cols[i].name
  <2> DEFINE e == [i \in 1..Len(cols) |->
                      IF cols[i].name = n THEN [cols[i] EXCEPT !.on = ~@]
                                          ELSE cols[i]]
  <2>1. d = e
    BY DEF ColumnToggle
  <2>2. \A i \in 1..Len(cols) : e[i] \in Column /\ e[i].name = cols[i].name
    <3> SUFFICES ASSUME NEW i \in 1..Len(cols)
                 PROVE  e[i] \in Column /\ e[i].name = cols[i].name
      OBVIOUS
    <3>1. cols[i] \in Column
      BY <1>1
    <3>2. e[i] \in {cols[i], [cols[i] EXCEPT !.on = ~@]}
      OBVIOUS
    <3> HIDE DEF e
    <3> QED BY <1>2, <3>1, <3>2
  <2>3. DOMAIN e = 1..Len(cols) /\ e = [i \in 1..Len(cols) |-> e[i]]
    OBVIOUS
  <2> HIDE DEF e, d
  <2>4. e \in [1..Len(cols) -> Column]
    BY <2>2, <2>3
  <2> QED BY <1>1, <2>1, <2>2, <2>4
<1> HIDE DEF d
<1>4. Ordered(d)
  BY <1>3 DEF Ordered
<1> QED BY <1>3, <1>4 DEF d

LEMMA DefaultOrdered == Ordered(DefaultColumns)
<1> DEFINE a == [name |-> "name", on |-> TRUE]
           b == [name |-> "host", on |-> FALSE]
           c == [name |-> "cpu", on |-> TRUE]
<1>1. a \in Column /\ b \in Column /\ c \in Column
  BY DEF Column, ColumnNames
<1>2. a.name = "name" /\ b.name = "host" /\ c.name = "cpu"
  OBVIOUS
<1>3. DefaultColumns = <<a, b, c>>
  BY DEF DefaultColumns
<1> HIDE DEF a, b, c
<1>4. /\ DefaultColumns \in Seq(Column) /\ Len(DefaultColumns) = 3
      /\ DefaultColumns[1] = a /\ DefaultColumns[2] = b /\ DefaultColumns[3] = c
  BY <1>1, <1>3
<1> QED BY <1>2, <1>4 DEF Ordered, ColumnNames

\* The menu has an item for every column, in their order.
LEMMA ColumnItemsAre ==
    ASSUME NEW cols, Ordered(cols)
    PROVE  LET l == ColumnItems(cols)
           IN  /\ GoodList(l, 1) /\ Len(l) = Len(cols) + 2
               /\ \A i \in 1..Len(cols) :
                      l[i] = cols[i].name /\ M!Selectable(l, i)
               /\ l[Len(cols) + 1] = M!Separator
               /\ l[Len(cols) + 2] = "downloadDir"
<1> DEFINE a == [i \in 1..Len(cols) |-> cols[i].name]
           b == <<M!Separator, "downloadDir">>
           l == ColumnItems(cols)
<1>1. cols \in Seq(Column) /\ Len(cols) \in Nat
  BY DEF Ordered
<1>2. IsList(a) /\ Len(a) = Len(cols) /\ \A i \in 1..Len(cols) : a[i] = cols[i].name
  BY <1>1 DEF IsList
<1>3. IsList(b) /\ Len(b) = 2 /\ b[1] = M!Separator /\ b[2] = "downloadDir"
  BY DEF IsList
<1>4. l = a \o b
  BY DEF ColumnItems
<1> HIDE DEF a, b, l
<1>5. /\ Len(l) = Len(a) + Len(b)
      /\ \A j \in 1..Len(a) + Len(b) :
             l[j] = IF j <= Len(a) THEN a[j] ELSE b[j - Len(a)]
  <2>1. IsList(a) /\ IsList(b)
    BY <1>2, <1>3
  <2> QED BY <1>4, <2>1, JoinTwo
<1>6. \A i \in 1..Len(cols) : l[i] = cols[i].name
  BY <1>1, <1>2, <1>3, <1>5
<1>7. /\ l[Len(cols) + 1] = M!Separator
      /\ l[Len(cols) + 2] = "downloadDir" /\ Len(l) = Len(cols) + 2
  BY <1>1, <1>2, <1>3, <1>5
<1>8. \A i \in 1..Len(cols) : M!Selectable(l, i)
  <2> SUFFICES ASSUME NEW i \in 1..Len(cols) PROVE M!Selectable(l, i)
    OBVIOUS
  <2>1. cols[i] \in Column
    BY <1>1
  <2>2. cols[i].name \in ColumnNames
    BY <2>1 DEF Column
  <2>3. l[i] \in ColumnNames
    BY <1>6, <2>2
  <2> QED BY <2>3 DEF M!Selectable, M!Separator, ColumnNames
<1>9. Len(cols) >= 1
  <2>1. "name" \in ColumnNames
    BY DEF ColumnNames
  <2>2. PICK i \in 1..Len(cols) : cols[i].name = "name"
    BY <2>1 DEF Ordered
  <2> QED BY <1>1, <2>2
<1>10. GoodList(l, 1)
  <2>1. M!Selectable(l, Len(l)) /\ M!Selectable(l, 1)
    BY <1>1, <1>7, <1>8, <1>9 DEF M!Selectable, M!Separator
  <2> QED BY <1>1, <1>7, <1>9, <2>1 DEF GoodList
<1> QED BY <1>6, <1>7, <1>8, <1>10 DEF l

\* If S holds the first m elements and no other, those are what is left.
LEMMA OnlyInPrefix ==
    ASSUME NEW T, NEW s \in Seq(T), NEW S, NEW m \in 0..Len(s),
           \A k \in 1..Len(s) : s[k] \in S <=> k <= m
    PROVE  /\ Len(OnlyIn(s, S)) = m
           /\ \A i \in 1..m : OnlyIn(s, S)[i] = s[i]
<1> DEFINE n == Len(s)
<1>1. n \in Nat
  OBVIOUS
<1>2. PICK f : Filters(s, S, n, f) /\ OnlyIn(s, S) = f[n]
  BY <1>1, OnlyInFilters
<1>3. f[0] = <<>>
  <2>1. 0 \in 0..n
    BY <1>1
  <2> QED BY <1>2, <2>1 DEF Filters
<1>4. ASSUME NEW i \in 1..n
      PROVE  f[i] = IF s[i] \in S THEN Append(f[i - 1], s[i]) ELSE f[i - 1]
  <2>1. i \in 0..n /\ i # 0
    BY <1>1
  <2> QED BY <1>2, <2>1 DEF Filters
<1> DEFINE kept(i) == IF i <= m THEN i ELSE m
           good == {i \in 0..n : /\ f[i] \in Seq(T) /\ Len(f[i]) = kept(i)
                                 /\ \A j \in 1..kept(i) : f[i][j] = s[j]}
<1>5. 0 \in good
  <2>1. kept(0) = 0 /\ 0 \in 0..n
    BY <1>1
  <2>2. f[0] \in Seq(T) /\ Len(f[0]) = 0
    BY <1>3
  <2>3. \A j \in 1..0 : f[0][j] = s[j]
    OBVIOUS
  <2> QED BY <2>1, <2>2, <2>3
<1>6. ASSUME NEW i \in 1..n, i - 1 \in good PROVE i \in good
  <2>1. i - 1 \in 0..n /\ i \in 0..n
    BY <1>1
  <2>2. PICK g : g = f[i - 1]
    OBVIOUS
  <2>3. /\ g \in Seq(T) /\ Len(g) = kept(i - 1)
        /\ \A j \in 1..kept(i - 1) : g[j] = s[j]
    BY <1>6, <2>2
  <2>4. CASE i <= m
    <3>1. kept(i - 1) = i - 1 /\ kept(i) = i
      BY <1>1, <2>4
    <3>2. s[i] \in S /\ s[i] \in T
      BY <2>4
    <3>3. f[i] = Append(g, s[i])
      BY <1>4, <2>2, <3>2
    <3>4. f[i] \in Seq(T) /\ Len(f[i]) = i
      BY <2>3, <3>1, <3>2, <3>3
    <3>5. ASSUME NEW j \in 1..i PROVE f[i][j] = s[j]
      BY <2>3, <3>1, <3>3
    <3> QED BY <2>1, <3>1, <3>4, <3>5
  <2>5. CASE ~(i <= m)
    <3>1. f[i] = g /\ kept(i - 1) = m /\ kept(i) = m
      BY <1>1, <1>4, <2>2, <2>5
    <3> QED BY <2>1, <2>3, <3>1
  <2> QED BY <2>4, <2>5
<1> HIDE DEF good
<1>7. \A i \in 0..n : i \in good
  BY <1>1, <1>5, <1>6, CountUp
<1>8. n \in good /\ kept(n) = m
  BY <1>1, <1>7
<1> QED BY <1>2, <1>8 DEF good

\* What is shown is a list of columns.
LEMMA EnabledIs ==
    ASSUME NEW cols, Ordered(cols) PROVE Enabled(cols) \in NameLists
<1> DEFINE S == {col \in ToSet(cols) : col.on}
           t == OnlyIn(cols, S)
           l == [i \in 1..Len(t) |-> t[i].name]
<1>1. Enabled(cols) = l
  BY DEF Enabled
<1>2. cols \in Seq(Column) /\ IsInjective(cols)
  BY DEF Ordered, IsInjective
<1>3. /\ t \in Seq(Column) /\ IsInjective(t) /\ Len(t) \in Nat
      /\ ToSet(t) = ToSet(cols) \cap S
  <2>1. t \in Seq(Column) /\ IsInjective(t) /\ ToSet(t) = ToSet(cols) \cap S
    BY <1>2, OnlyInKeeps, OnlyInInjective, OnlyInRange
  <2> QED BY <2>1
<1> HIDE DEF t, S
<1>4. ASSUME NEW i \in 1..Len(t)
      PROVE  t[i].name \in ColumnNames /\ \E k \in 1..Len(cols) : t[i] = cols[k]
  <2>1. t[i] \in Column /\ t[i] \in ToSet(t)
    BY <1>3 DEF ToSet
  <2>2. t[i] \in ToSet(cols)
    BY <1>3, <2>1
  <2>3. \E k \in 1..Len(cols) : t[i] = cols[k]
    BY <1>2, <2>2 DEF ToSet
  <2> QED BY <2>1, <2>3 DEF Column
<1>5. l \in Seq(ColumnNames) /\ Len(l) = Len(t)
  BY <1>3, <1>4
<1>6. ASSUME NEW i \in 1..Len(t), NEW j \in 1..Len(t), l[i] = l[j]
      PROVE  i = j
  <2>1. PICK k \in 1..Len(cols) : t[i] = cols[k]
    BY <1>4
  <2>2. PICK k2 \in 1..Len(cols) : t[j] = cols[k2]
    BY <1>4
  <2>3. cols[k].name = cols[k2].name
    BY <1>6, <2>1, <2>2
  <2>4. t[i] = t[j]
    BY <2>1, <2>2, <2>3 DEF Ordered
  <2>5. DOMAIN t = 1..Len(t)
    BY <1>3
  <2> QED BY <1>3, <2>4, <2>5 DEF IsInjective
<1>7. IsInjective(l)
  <2>1. DOMAIN l = 1..Len(t)
    OBVIOUS
  <2> QED BY <1>6, <2>1 DEF IsInjective
<1> QED BY <1>1, <1>5, <1>7 DEF NameLists

LEMMA InToSet ==
    ASSUME NEW T, NEW s \in Seq(T)
    PROVE  \A x : x \in ToSet(s) <=> \E k \in 1..Len(s) : s[k] = x
BY DEF ToSet

LEMMA JoinedIs ==
    ASSUME NEW T, NEW s \in Seq(T), NEW t \in Seq(T), NEW n, n = Len(s)
    PROVE  /\ s \o t \in Seq(T) /\ Len(s \o t) = n + Len(t)
           /\ \A k \in 1..n + Len(t) :
                  (s \o t)[k] = IF k <= n THEN s[k] ELSE t[k - n]
OBVIOUS

\* The named columns come first, shown, and all others after them, hidden.
LEMMA SetOrdered ==
    ASSUME NEW cols, Ordered(cols), NEW names \in NameLists
    PROVE  /\ Ordered(SetColumns(cols, names))
           /\ Enabled(SetColumns(cols, names)) = names
<1> DEFINE others == {col \in ToSet(cols) : col.name \notin Range(names)}
           rest == OnlyIn(cols, others)
           a == [i \in 1..Len(names) |-> [name |-> names[i], on |-> TRUE]]
           b == [i \in 1..Len(rest) |-> [name |-> rest[i].name, on |-> FALSE]]
           d == SetColumns(cols, names)
           m == Len(names)
<1>1. d = a \o b
  BY DEF SetColumns
<1>2. /\ names \in Seq(ColumnNames) /\ m \in Nat /\ DOMAIN names = 1..m
      /\ \A i, j \in 1..m : names[i] = names[j] => i = j
  <2>1. names \in Seq(ColumnNames) /\ IsInjective(names)
    BY DEF NameLists
  <2> QED BY <2>1 DEF IsInjective
<1>3. \A n : n \in Range(names) <=> \E i \in 1..m : names[i] = n
  BY <1>2 DEF Range
<1>4. cols \in Seq(Column) /\ IsInjective(cols)
  BY DEF Ordered, IsInjective
<1>5. /\ rest \in Seq(Column) /\ IsInjective(rest) /\ Len(rest) \in Nat
      /\ ToSet(rest) = ToSet(cols) \cap others
  <2>1. /\ rest \in Seq(Column) /\ IsInjective(rest)
        /\ ToSet(rest) = ToSet(cols) \cap others
    BY <1>4, OnlyInKeeps, OnlyInInjective, OnlyInRange
  <2> QED BY <2>1
<1>6. \A col : col \in ToSet(cols) <=> \E k \in 1..Len(cols) : cols[k] = col
  BY <1>4, InToSet
<1>7. \A col : col \in ToSet(rest) <=> \E k \in 1..Len(rest) : rest[k] = col
  BY <1>5, InToSet
<1>8. \A col : col \in ToSet(rest) <=>
                   col \in ToSet(cols) /\ col.name \notin Range(names)
  BY <1>5
<1>9. DOMAIN rest = 1..Len(rest)
  BY <1>5
<1> HIDE DEF rest, others
<1>10. \A i \in 1..Len(rest) : /\ rest[i].name \in ColumnNames
                               /\ rest[i].name \notin Range(names)
                               /\ \E k \in 1..Len(cols) : cols[k] = rest[i]
  <2> SUFFICES ASSUME NEW i \in 1..Len(rest)
               PROVE  /\ rest[i].name \in ColumnNames
                      /\ rest[i].name \notin Range(names)
                      /\ \E k \in 1..Len(cols) : cols[k] = rest[i]
    OBVIOUS
  <2>1. rest[i] \in Column /\ rest[i] \in ToSet(rest)
    BY <1>5, <1>7
  <2> QED BY <1>6, <1>8, <2>1 DEF Column
<1>11. \A i, j \in 1..Len(rest) : rest[i].name = rest[j].name => i = j
  <2> SUFFICES ASSUME NEW i \in 1..Len(rest), NEW j \in 1..Len(rest),
                      rest[i].name = rest[j].name
               PROVE  i = j
    OBVIOUS
  <2>1. PICK k \in 1..Len(cols) : cols[k] = rest[i]
    BY <1>10
  <2>2. PICK l \in 1..Len(cols) : cols[l] = rest[j]
    BY <1>10
  <2>3. k = l
    BY <2>1, <2>2 DEF Ordered
  <2> QED BY <1>5, <1>9, <2>1, <2>2, <2>3 DEF IsInjective
<1>12. /\ a \in Seq(Column) /\ Len(a) = m
       /\ \A i \in 1..m : a[i].name = names[i] /\ a[i].on = TRUE
  <2>1. \A i \in 1..m : [name |-> names[i], on |-> TRUE] \in Column
    BY <1>2 DEF Column
  <2> QED BY <1>2, <2>1
<1>13. /\ b \in Seq(Column) /\ Len(b) = Len(rest)
       /\ \A i \in 1..Len(rest) : b[i].name = rest[i].name /\ b[i].on = FALSE
  <2>1. \A i \in 1..Len(rest) : [name |-> rest[i].name, on |-> FALSE] \in Column
    BY <1>10 DEF Column
  <2> QED BY <1>5, <2>1
<1> HIDE DEF a, b, d
<1>14. /\ d \in Seq(Column) /\ Len(d) = m + Len(rest)
       /\ \A k \in 1..m + Len(rest) : d[k] = IF k <= m THEN a[k] ELSE b[k - m]
  <2>1. m = Len(a) /\ Len(rest) = Len(b)
    BY <1>12, <1>13
  <2> HIDE DEF m
  <2>2. /\ a \o b \in Seq(Column) /\ Len(a \o b) = m + Len(b)
        /\ \A k \in 1..m + Len(b) :
               (a \o b)[k] = IF k <= m THEN a[k] ELSE b[k - m]
    BY <1>12, <1>13, <2>1, JoinedIs
  <2> QED BY <1>1, <2>1, <2>2
<1>15. /\ \A k \in 1..m : d[k].name = names[k] /\ d[k].on = TRUE
       /\ \A k \in 1..Len(rest) :
              d[m + k].name = rest[k].name /\ d[m + k].on = FALSE
  <2>1. \A k \in 1..m : d[k] = a[k]
    BY <1>2, <1>5, <1>14
  <2>2. \A k \in 1..Len(rest) : d[m + k] = b[k]
    BY <1>2, <1>5, <1>14
  <2> QED BY <1>12, <1>13, <2>1, <2>2
<1> HIDE DEF m
<1>16. \A k \in 1..Len(d) : \/ k \in 1..m
                            \/ \E j \in 1..Len(rest) : k = m + j
  <2> SUFFICES ASSUME NEW k \in 1..Len(d), k \notin 1..m
               PROVE  \E j \in 1..Len(rest) : k = m + j
    OBVIOUS
  <2>1. k - m \in 1..Len(rest) /\ k = m + (k - m)
    BY <1>2, <1>5, <1>14
  <2> QED BY <2>1
<1>17. ASSUME NEW n \in ColumnNames PROVE \E k \in 1..Len(d) : d[k].name = n
  <2>1. CASE n \in Range(names)
    <3>1. PICK i \in 1..m : names[i] = n
      BY <1>3, <2>1
    <3>2. i \in 1..Len(d)
      BY <1>2, <1>5, <1>14
    <3> QED BY <1>15, <3>1, <3>2
  <2>2. CASE n \notin Range(names)
    <3>1. PICK k \in 1..Len(cols) : cols[k].name = n
      BY DEF Ordered
    <3>2. PICK j \in 1..Len(rest) : rest[j] = cols[k]
      BY <1>6, <1>7, <1>8, <2>2, <3>1
    <3>3. m + j \in 1..Len(d)
      BY <1>2, <1>5, <1>14
    <3> QED BY <1>15, <3>1, <3>2, <3>3
  <2> QED BY <2>1, <2>2
<1>18. ASSUME NEW k \in 1..Len(d), NEW l \in 1..Len(d), d[k].name = d[l].name
       PROVE  k = l
  <2>1. CASE k \in 1..m /\ l \in 1..m
    BY <1>2, <1>15, <1>18, <2>1
  <2>2. ASSUME NEW i \in 1..m, NEW j \in 1..Len(rest)
        PROVE  d[i].name # d[m + j].name
    <3>1. names[i] \in Range(names)
      BY <1>3
    <3> QED BY <1>10, <1>15, <3>1
  <2>3. CASE k \notin 1..m /\ l \notin 1..m
    <3>1. PICK i \in 1..Len(rest) : k = m + i
      BY <1>16, <2>3
    <3>2. PICK j \in 1..Len(rest) : l = m + j
      BY <1>16, <2>3
    <3> QED BY <1>11, <1>15, <1>18, <3>1, <3>2
  <2> QED BY <1>16, <1>18, <2>1, <2>2, <2>3
<1>19. Ordered(d)
  BY <1>14, <1>17, <1>18 DEF Ordered
<1>20. Enabled(d) = names
  <2> DEFINE S == {col \in ToSet(d) : col.on}
             shown == OnlyIn(d, S)
  <2>1. Enabled(d) = [i \in 1..Len(shown) |-> shown[i].name]
    BY DEF Enabled
  <2>2. \A k \in 1..Len(d) : d[k] \in ToSet(d)
    BY <1>14 DEF ToSet
  <2>3. \A k \in 1..Len(d) : d[k].on <=> k <= m
    <3> SUFFICES ASSUME NEW k \in 1..Len(d) PROVE d[k].on <=> k <= m
      OBVIOUS
    <3>1. CASE k \in 1..m
      BY <1>2, <1>15, <3>1
    <3>2. CASE k \notin 1..m
      <4>1. PICK j \in 1..Len(rest) : k = m + j
        BY <1>16, <3>2
      <4>2. ~(k <= m)
        BY <1>2, <1>5, <4>1
      <4> QED BY <1>15, <4>1, <4>2
    <3> QED BY <3>1, <3>2
  <2>4. \A k \in 1..Len(d) : d[k] \in S <=> k <= m
    BY <2>2, <2>3
  <2>5. m \in 0..Len(d)
    BY <1>2, <1>5, <1>14
  <2> HIDE DEF S
  <2>6. /\ Len(shown) = m /\ \A i \in 1..m : shown[i] = d[i]
    BY <1>14, <2>4, <2>5, OnlyInPrefix
  <2> HIDE DEF shown
  <2>7. Enabled(d) = [i \in 1..m |-> names[i]]
    BY <1>15, <2>1, <2>6
  <2>8. names = [i \in 1..m |-> names[i]]
    BY <1>2
  <2> QED BY <2>7, <2>8
<1> QED BY <1>19, <1>20 DEF d

\* Moving a column takes it one place on, with what is in the menu.
LEMMA LeftIs ==
    ASSUME NEW cols, Ordered(cols), NEW n
    PROVE  /\ Ordered(ColumnLeft(cols, n))
           /\ Len(ColumnLeft(cols, n)) = Len(cols)
           /\ ColumnLeft(cols, n) # cols =>
                  LET p == Place(cols, n)
                  IN  /\ p \in 2..Len(cols) /\ cols[p].name = n
                      /\ ColumnLeft(cols, n)[p - 1] = cols[p]
<1> DEFINE p == Place(cols, n)
<1>1. Len(cols) \in Nat /\ p \in 0..Len(cols) /\ (p # 0 => cols[p].name = n)
  BY PlaceIs DEF Ordered
<1>2. ColumnLeft(cols, n) = IF p > 1 THEN Swap(cols, p, p - 1) ELSE cols
  BY DEF ColumnLeft
<1> HIDE DEF p
<1>3. CASE p > 1
  <2>1. p \in 1..Len(cols) /\ p - 1 \in 1..Len(cols)
    BY <1>1, <1>3
  <2> QED BY <1>1, <1>2, <1>3, <2>1, SwapOrdered DEF p
<1>4. CASE ~(p > 1)
  BY <1>2, <1>4
<1> QED BY <1>3, <1>4

LEMMA RightIs ==
    ASSUME NEW cols, Ordered(cols), NEW n
    PROVE  /\ Ordered(ColumnRight(cols, n))
           /\ Len(ColumnRight(cols, n)) = Len(cols)
           /\ ColumnRight(cols, n) # cols =>
                  LET p == Place(cols, n)
                  IN  /\ p \in 1..(Len(cols) - 1) /\ cols[p].name = n
                      /\ ColumnRight(cols, n)[p + 1] = cols[p]
<1> DEFINE p == Place(cols, n)
<1>1. Len(cols) \in Nat /\ p \in 0..Len(cols) /\ (p # 0 => cols[p].name = n)
  BY PlaceIs DEF Ordered
<1>2. ColumnRight(cols, n) =
          IF p \in 1..(Len(cols) - 1) THEN Swap(cols, p, p + 1) ELSE cols
  BY DEF ColumnRight
<1> HIDE DEF p
<1>3. CASE p \in 1..(Len(cols) - 1)
  <2>1. p \in 1..Len(cols) /\ p + 1 \in 1..Len(cols)
    BY <1>1, <1>3
  <2> QED BY <1>1, <1>2, <1>3, <2>1, SwapOrdered DEF p
<1>4. CASE ~(p \in 1..(Len(cols) - 1))
  BY <1>2, <1>4
<1> QED BY <1>3, <1>4

\* The cursor is on the column that its item names.
LEMMA PlaceUnderCursor ==
    ASSUME NEW cols, Ordered(cols), NEW i \in 1..Len(ColumnItems(cols)),
           ColumnItems(cols)[i] \in ColumnNames
    PROVE  i \in 1..Len(cols) /\ Place(cols, ColumnItems(cols)[i]) = i
<1> DEFINE l == ColumnItems(cols)
<1>1. /\ Len(l) = Len(cols) + 2 /\ Len(cols) \in Nat
      /\ \A k \in 1..Len(cols) : l[k] = cols[k].name
      /\ l[Len(cols) + 1] = M!Separator /\ l[Len(cols) + 2] = "downloadDir"
  BY ColumnItemsAre DEF Ordered
<1> HIDE DEF l
<1>2. l[i] \in ColumnNames /\ i \in 1..Len(l)
  BY DEF l
<1>3. i # Len(cols) + 1 /\ i # Len(cols) + 2
  BY <1>1, <1>2 DEF ColumnNames, M!Separator
<1>4. i \in 1..Len(cols)
  BY <1>1, <1>2, <1>3
<1>5. cols[i].name = l[i]
  BY <1>1, <1>4
<1>6. Place(cols, l[i]) = i
  BY <1>4, <1>5, PlaceIs
<1> QED BY <1>4, <1>6 DEF l

\* Where the menu of the columns stays a good one.
LEMMA SameShape ==
    ASSUME NEW cols, NEW d, Ordered(cols), Ordered(d), Len(d) = Len(cols),
           NEW i, GoodList(ColumnItems(cols), i)
    PROVE  GoodList(ColumnItems(d), i)
<1> DEFINE l == ColumnItems(cols)
           m == ColumnItems(d)
<1>1. /\ Len(l) = Len(cols) + 2 /\ Len(cols) \in Nat
      /\ l[Len(cols) + 1] = M!Separator
      /\ GoodList(l, i)
  BY ColumnItemsAre DEF Ordered
<1>2. /\ Len(m) = Len(cols) + 2 /\ GoodList(m, 1)
      /\ \A k \in 1..Len(cols) : M!Selectable(m, k)
  BY ColumnItemsAre
<1> HIDE DEF l, m
<1>3. i # Len(cols) + 1 /\ i \in 1..Len(m)
  BY <1>1, <1>2 DEF GoodList, M!Selectable
<1>4. M!Selectable(m, i)
  <2>1. CASE i \in 1..Len(cols)
    BY <1>2, <2>1
  <2>2. CASE i = Len(m)
    BY <1>2, <2>2 DEF GoodList
  <2> QED BY <1>1, <1>2, <1>3, <2>1, <2>2
<1>5. GoodList(m, i)
  BY <1>2, <1>3, <1>4 DEF GoodList
<1> QED BY <1>5 DEF m

-----------------------------------------------------------------------------
(* The columns and the file. *)

LEMMA NoSuchList == NoFile \notin NameLists /\ Broken \notin NameLists
<1>1. NoFile[1] = "no file" /\ Broken[1] = "broken"
  BY DEF NoFile, Broken
<1>2. Len(NoFile) = 1 /\ Len(Broken) = 1
  BY DEF NoFile, Broken
<1>3. ASSUME NEW l \in NameLists, Len(l) = 1 PROVE l[1] \in ColumnNames
  BY <1>3 DEF NameLists
<1> QED BY <1>1, <1>2, <1>3 DEF ColumnNames

LEMMA InitConfig == TuiInit => ConfigInv
<1> SUFFICES ASSUME TuiInit PROVE ConfigInv
  OBVIOUS
<1>1. columns = DefaultColumns /\ file = NoFile /\ saved = <<>>
  BY DEF TuiInit
<1>2. saved \in NameLists
  <2>1. saved \in Seq(ColumnNames) /\ DOMAIN saved = {}
    BY <1>1
  <2> QED BY <2>1 DEF NameLists, IsInjective
<1> QED BY <1>1, <1>2, DefaultOrdered DEF ConfigInv

LEMMA SameConfig == ConfigInv /\ UNCHANGED configVars => ConfigInv'
<1> SUFFICES ASSUME ConfigInv, UNCHANGED configVars PROVE ConfigInv'
  OBVIOUS
<1>1. UNCHANGED <<columns, file, saved>>
  BY DEF configVars
<1> QED BY <1>1 DEF ConfigInv, Ordered

LEMMA ColumnsConfig ==
    ASSUME ConfigInv, ColumnMove \/ ColumnSwitch
    PROVE  ConfigInv' /\ Len(columns') = Len(columns)
<1>1. UNCHANGED <<file, saved>>
  BY DEF ColumnMove, ColumnSwitch
<1>2. \/ columns' = ColumnLeft(columns, items[at])
      \/ columns' = ColumnRight(columns, items[at])
      \/ columns' = ColumnToggle(columns, items[at])
  BY DEF ColumnMove, ColumnSwitch
<1>3. PICK d : d = columns'
  OBVIOUS
<1>4. Ordered(d) /\ Len(d) = Len(columns)
  BY <1>2, <1>3, LeftIs, RightIs, ToggleOrdered DEF ConfigInv
<1>5. Ordered(columns')
  BY <1>3, <1>4
<1> QED BY <1>1, <1>3, <1>4, <1>5 DEF ConfigInv, Ordered

LEMMA SaveConfig == ConfigInv /\ Save => ConfigInv'
<1> SUFFICES ASSUME ConfigInv, Save PROVE ConfigInv'
  OBVIOUS
<1>1. /\ columns' = columns
      /\ \/ file' = file /\ saved' = saved
         \/ file' \in {NoFile, Broken} /\ saved' = <<>>
         \/ file' = Enabled(columns) /\ saved' = Enabled(columns)
  BY DEF Save
<1>2. Enabled(columns) \in NameLists
  BY EnabledIs DEF ConfigInv
<1>3. <<>> \in NameLists
  <2>1. <<>> \in Seq(ColumnNames) /\ DOMAIN <<>> = {}
    OBVIOUS
  <2> QED BY <2>1 DEF NameLists, IsInjective
<1>4. /\ file' \in {NoFile, Broken} \cup NameLists
      /\ saved' \in NameLists
      /\ saved' # <<>> => file' = saved'
  BY <1>1, <1>2, <1>3 DEF ConfigInv
<1>5. Ordered(columns)'
  BY <1>1 DEF ConfigInv, Ordered
<1> QED BY <1>4, <1>5 DEF ConfigInv, NameLists, NoFile, Broken, ColumnNames

\* Whatever the file holds, every column is there once after a start.
LEMMA LoadedAre ==
    ASSUME ConfigInv, NEW cols \in Loaded PROVE Ordered(cols)
<1>1. file \in {NoFile, Broken} \/ file \in NameLists
  BY DEF ConfigInv
<1>2. Enabled(DefaultColumns) \in NameLists
  BY DefaultOrdered, EnabledIs
<1>3. \/ cols = DefaultColumns
      \/ cols = SetColumns(DefaultColumns, Enabled(DefaultColumns))
      \/ file \in NameLists /\ cols = SetColumns(DefaultColumns, file)
  BY <1>1 DEF Loaded
<1> QED BY <1>2, <1>3, DefaultOrdered, SetOrdered

LEMMA StartConfig ==
    ASSUME ConfigInv, NEW hosts \in {1, 2}, Start(hosts) PROVE ConfigInv'
<1>1. /\ UNCHANGED <<file, saved>>
      /\ \E cols \in Loaded :
             columns' = IF hosts = 1 THEN cols ELSE ColumnToggle(cols, "host")
  BY DEF Start
<1>2. PICK cols \in Loaded :
          columns' = IF hosts = 1 THEN cols ELSE ColumnToggle(cols, "host")
  BY <1>1
<1>3. PICK d : d = columns'
  OBVIOUS
<1>4. Ordered(d)
  BY <1>2, <1>3, LoadedAre, ToggleOrdered
<1>5. Ordered(columns)'
  BY <1>3, <1>4 DEF Ordered
<1> QED BY <1>1, <1>5 DEF ConfigInv

LEMMA ConfigStep == ConfigInv /\ [TuiNext]_tuiVars => ConfigInv'
<1> SUFFICES ASSUME ConfigInv, [TuiNext]_tuiVars PROVE ConfigInv'
  OBVIOUS
<1>1. CASE Daemon \/ Redisplay \/ Tick \/ GridKey \/ ErrorTick \/ ExitKey
  <2>1. UNCHANGED configVars
    BY <1>1 DEF Daemon, ContainerAppears, Transition, Redisplay, Tick, GridKey,
       ErrorTick, ExitKey, quietVars
  <2> QED BY <2>1, SameConfig
<1>2. CASE \/ MenuMove \/ Leave \/ HelpMenu \/ FilterMenu \/ SortMenu \/ Pick
           \/ ExportDir \/ ResourceMenu
           \/ ColumnsMenu \/ ColumnsDir \/ ColumnsClose
  <2>1. UNCHANGED configVars
    BY <1>2 DEF MenuMove, Leave, HelpMenu, FilterMenu, SortMenu, Pick,
       ExportDir, ResourceMenu, ColumnsMenu, ColumnsDir, ColumnsClose
  <2> QED BY <2>1, SameConfig
<1>3. CASE Confirmed \/ SignalMenu \/ UpdateResources \/ GridMenuKey \/ ContainerMenu
  <2>1. ASSUME ExecShell PROVE UNCHANGED configVars
    BY <2>1 DEF ExecShell, Ask
  <2>2. ASSUME NEW v, OpenMenu(v) PROVE UNCHANGED configVars
    BY <2>2 DEF OpenMenu, OpenForSelected
  <2>3. CASE Confirmed \/ SignalMenu \/ UpdateResources
    <3>1. UNCHANGED configVars
      BY <2>3 DEF Confirmed, SignalMenu, UpdateResources, Ask
    <3> QED BY <3>1, SameConfig
  <2>4. CASE GridMenuKey \/ ContainerMenu
    <3>1. UNCHANGED configVars
      BY <2>1, <2>2, <2>4 DEF GridMenuKey, ContainerMenu
    <3> QED BY <3>1, SameConfig
  <2> QED BY <1>3, <2>3, <2>4
<1>4. CASE UNCHANGED tuiVars
  BY <1>4, SameConfig DEF tuiVars
<1> QED BY <1>1, <1>2, <1>3, <1>4, ColumnsConfig, SaveConfig, StartConfig
        DEF TuiNext, Menus

-----------------------------------------------------------------------------
(* The menu of the columns. *)

LEMMA ColumnsMenus ==
    ASSUME ConfigInv, MenuInv,
           ColumnsMenu \/ ColumnMove \/ ColumnSwitch \/ ColumnsDir
    PROVE  MenuInv'
<1>1. CASE ColumnsMenu
  <2>1. UNCHANGED <<state, readOnly, columns, filtered, selectedID>>
    BY <1>1 DEF ColumnsMenu, daemonVars, tableVars, configVars
  <2>2. ShowAt("columns", ColumnItems(columns), 1, NoObject)
    BY <1>1 DEF ColumnsMenu, Show
  <2>3. GoodList(ColumnItems(columns), 1)
    BY ColumnItemsAre DEF ConfigInv
  <2>4. "columns" \in Views /\ "columns" \notin ForSelected
    BY DEF Views, Listing, ForSelected
  <2> QED BY <2>1, <2>2, <2>3, <2>4, ShowKeeps
<1>2. CASE ColumnMove \/ ColumnSwitch
  <2>1. /\ view = "columns" /\ view' = "columns"
        /\ UNCHANGED <<state, readOnly, target, pending>>
    BY <1>2 DEF ColumnMove, ColumnSwitch, daemonVars, menuVars
  <2>2. items = ColumnItems(columns) /\ GoodList(items, at)
    BY <2>1 DEF MenuInv, Lists, Listing
  <2>3. PICK d : d = columns'
    OBVIOUS
  <2>4. Ordered(columns) /\ Ordered(columns') /\ Len(columns') = Len(columns)
    BY <1>2, ColumnsConfig DEF ConfigInv, Ordered
  <2>5. items' = ColumnItems(d)
    <3>1. CASE ColumnMove
      BY <2>3, <3>1 DEF ColumnMove
    <3>2. CASE ColumnSwitch
      <4>1. items' = items /\ d = ColumnToggle(columns, items[at])
        BY <2>3, <3>2 DEF ColumnSwitch, menuVars
      <4>2. /\ Len(d) = Len(columns) /\ Len(columns) \in Nat
            /\ \A i \in 1..Len(columns) : d[i].name = columns[i].name
        BY <2>4, <4>1, ToggleOrdered DEF Ordered
      <4>3. [i \in 1..Len(d) |-> d[i].name] =
                [i \in 1..Len(columns) |-> columns[i].name]
        BY <4>2
      <4> QED BY <2>2, <4>1, <4>3 DEF ColumnItems
    <3> QED BY <1>2, <3>1, <3>2
  <2>6. at' \in {at, M!Above(items, at), M!Below(items, at)}
    BY <1>2 DEF ColumnMove, ColumnSwitch, menuVars
  <2>7. GoodList(items, at')
    BY <2>2, <2>6, AboveIs, BelowIs DEF GoodList
  <2>8. GoodList(ColumnItems(d), at')
    <3>1. Ordered(d) /\ Len(d) = Len(columns)
      BY <2>3, <2>4
    <3> QED BY <2>2, <2>4, <2>7, <3>1, SameShape
  <2>9. GoodList(items, at)'
    BY <2>5, <2>8 DEF GoodList
  <2>10. items' = ColumnItems(columns)'
    BY <2>3, <2>5 DEF ColumnItems
  <2>11. view' \in Views /\ view' \notin ForSelected
    BY <2>1 DEF Views, Listing, ForSelected
  <2> QED BY <2>1, <2>9, <2>10, <2>11 DEF MenuInv, ForSelected
<1>3. CASE ColumnsDir
  <2>1. /\ UNCHANGED <<state, readOnly, items, at, target, pending, columns>>
        /\ view \in {"columns", "columnsDir"}
        /\ view' \in {"columns", "columnsDir"}
    BY <1>3 DEF ColumnsDir, daemonVars, menuVars, configVars
  <2>2. items = ColumnItems(columns) /\ GoodList(items, at)
    BY <2>1 DEF MenuInv, Lists, Listing
  <2>3. GoodList(items, at)' /\ items' = ColumnItems(columns)'
    BY <2>1, <2>2 DEF GoodList, ColumnItems
  <2>4. view' \in Views /\ view' \notin ForSelected
    BY <2>1 DEF Views, Listing, ForSelected
  <2> QED BY <2>1, <2>3, <2>4 DEF MenuInv, ForSelected
<1> QED BY <1>1, <1>2, <1>3

-----------------------------------------------------------------------------
(* The event loop. *)

TuiInv == TableInv /\ MenuInv /\ ConfigInv

LEMMA TuiStep == TuiInv /\ [TuiNext]_tuiVars => TuiInv'
<1> SUFFICES ASSUME TableInv, MenuInv, ConfigInv, [TuiNext]_tuiVars
             PROVE  TableInv' /\ MenuInv' /\ ConfigInv'
  BY DEF TuiInv
<1>1. TableInv' /\ ConfigInv'
  BY TuiTable, ConfigStep
<1>2. MenuInv'
  <2>1. CASE Daemon
    BY <2>1, DaemonMenu
  <2>2. CASE \/ Redisplay \/ Tick \/ GridKey \/ ErrorTick \/ ExitKey \/ Save
             \/ FilterMenu \/ HelpMenu \/ Leave \/ Pick \/ ColumnsClose
    BY <2>2, LoopMenu
  <2>3. CASE MenuMove \/ ContainerMenu
    BY <2>3, MoveMenu, ContainerMenuKeeps
  <2>4. CASE \/ SortMenu \/ ExportDir \/ Confirmed \/ SignalMenu \/ ResourceMenu
             \/ UpdateResources \/ GridMenuKey
    BY <2>4, OtherMenus
  <2>5. CASE ColumnsMenu \/ ColumnMove \/ ColumnSwitch \/ ColumnsDir
    BY <2>5, ColumnsMenus
  <2>6. CASE \E hosts \in {1, 2} : Start(hosts)
    BY <2>6, StartMenu
  <2>7. CASE UNCHANGED tuiVars
    <3>1. /\ UNCHANGED <<view, menuVars, readOnly, columns, filtered, selectedID>>
          /\ state' = state
      BY <2>7 DEF tuiVars, tableVars, configVars, daemonVars
    <3>2. state' \in [Objects -> States]
      BY <3>1 DEF MenuInv
    <3> QED BY <3>1, <3>2, SameMenu
  <2> QED BY <2>1, <2>2, <2>3, <2>4, <2>5, <2>6, <2>7 DEF TuiNext, Menus
<1> QED BY <1>1, <1>2

LEMMA TuiInvariant == TuiSpec => []TuiInv
<1>1. TuiInit => TuiInv
  BY InitTuiTable, InitMenu, InitConfig DEF TuiInv
<1> QED BY <1>1, TuiStep, PTL DEF TuiSpec

\* What the invariant says of the variables.
LEMMA TuiTypes == TuiInv => TuiOK
<1> SUFFICES ASSUME TableInv, MenuInv, ConfigInv PROVE TuiOK
  BY DEF TuiInv
<1>1. TypeOK
  BY DEF TableInv, TableOK
<1>2. view \in Listing => at \in 1..Len(items) /\ M!Selectable(items, at)
  BY DEF MenuInv, GoodList, Lists
<1>3. {columns[i].name : i \in 1..Len(columns)} = ColumnNames
  <2>1. columns \in Seq(Column)
    BY DEF ConfigInv, Ordered
  <2>2. \A i \in 1..Len(columns) : columns[i].name \in ColumnNames
    <3> SUFFICES ASSUME NEW i \in 1..Len(columns)
                 PROVE  columns[i].name \in ColumnNames
      OBVIOUS
    <3>1. columns[i] \in Column
      BY <2>1
    <3> QED BY <3>1 DEF Column
  <2>3. \A n \in ColumnNames : \E i \in 1..Len(columns) : columns[i].name = n
    BY DEF ConfigInv, Ordered
  <2> QED BY <2>2, <2>3
<1>4. {columns[i].name : i \in 1..Len(columns)} = {"name", "host", "cpu"}
  BY <1>3 DEF ColumnNames
<1> QED BY <1>1, <1>2, <1>4 DEF TuiOK, MenuInv

\* In every state of the event loop the variables have their types, the cursor
\* of an open menu is on an item that can be chosen (menu.Model.Up, Down and
\* SetCursor pass the separators), and every column is there once, however often
\* columns are moved, hidden, saved and read again.
THEOREM TuiCorrect == TuiSpec => []TuiOK
<1>1. TuiInv => TuiOK
  BY TuiTypes
<1> QED BY <1>1, TuiInvariant, PTL

\* The table keeps its own invariant under the menus, which block its refreshes.
THEOREM TableUnderMenus == TuiSpec => []TableOK
<1>1. TuiInv => TableOK
  BY DEF TuiInv, TableInv
<1> QED BY <1>1, TuiInvariant, PTL

-----------------------------------------------------------------------------
(* What is asked of the daemon. *)

\* Where a request comes from.
LEMMA AskedWhere ==
    ASSUME MenuInv, TuiNext, Asked
    PROVE  \/ /\ view = "confirm" /\ Allows(pending, target)
              /\ request' = [op |-> pending, of |-> target]
           \/ /\ filtered # <<>>
              /\ request' = [op |-> "exec", of |-> Selected]
           \/ view = "signal" /\ request' = [op |-> "signal", of |-> target]
           \/ /\ view \in {"amount", "policy"}
              /\ request' = [op |-> "update", of |-> target]
<1>1. request' # request /\ request' # NoRequest
  BY DEF Asked
<1>2. CASE Daemon
  BY <1>1, <1>2 DEF Daemon, ContainerAppears, Transition
<1>3. CASE \/ Redisplay \/ Tick \/ GridKey \/ ErrorTick \/ ExitKey \/ Save
           \/ \E hosts \in {1, 2} : Start(hosts)
  BY <1>1, <1>3 DEF Redisplay, Tick, GridKey, ErrorTick, ExitKey, Quit, Save, Start
<1>4. CASE \/ MenuMove \/ Leave \/ HelpMenu \/ FilterMenu \/ SortMenu \/ Pick
           \/ ExportDir \/ ResourceMenu
           \/ ColumnsMenu \/ ColumnMove \/ ColumnSwitch \/ ColumnsDir
           \/ ColumnsClose
  BY <1>1, <1>4 DEF MenuMove, Leave, HelpMenu, FilterMenu, SortMenu, Pick,
     ExportDir, ResourceMenu, ColumnsMenu, ColumnMove, ColumnSwitch, ColumnsDir,
     ColumnsClose, Close, Show, ShowAt
<1>5. ASSUME ExecShell
      PROVE  filtered # <<>> /\ request' = [op |-> "exec", of |-> Selected]
  BY <1>1, <1>5 DEF ExecShell, Close, Ask
<1>6. ASSUME NEW v, OpenMenu(v) PROVE request' = NoRequest
  BY <1>6 DEF OpenMenu, OpenForSelected, Close, Show, ShowAt
<1>7. CASE GridMenuKey \/ ContainerMenu
  BY <1>1, <1>5, <1>6, <1>7 DEF GridMenuKey, ContainerMenu, Show, ShowAt, Close, Quit
<1>8. CASE Confirmed
  BY <1>1, <1>8 DEF Confirmed, Ask, Close
<1>9. CASE SignalMenu \/ UpdateResources
  BY <1>9 DEF SignalMenu, UpdateResources, Ask
<1> QED BY <1>2, <1>3, <1>4, <1>7, <1>8, <1>9 DEF TuiNext, Menus

\* Whatever chain of menus led to it, the daemon is asked about the container
\* that the cursor of the table is on, and only for what the state of it allows
\* at that moment and read-only mode permits: grid.go's menus hold a container
\* or look the selection up again, and the two never differ, because the table
\* is not refreshed under a menu.
THEOREM MenusAskRightly == TuiSpec => AsksRightly
<1>1. TuiInv /\ [TuiNext]_tuiVars =>
          (Asked => filtered # <<>> /\ request'.of = Selected)
  <2> SUFFICES ASSUME MenuInv, TuiNext, Asked
               PROVE  filtered # <<>> /\ request'.of = Selected
    BY DEF TuiInv, Asked, tuiVars
  <2>1. view \in {"confirm", "signal", "amount", "policy"} =>
            filtered # <<>> /\ target = Selected
    BY DEF MenuInv, ForSelected
  <2> QED BY <2>1, AskedWhere
<1>2. TuiInv /\ [TuiNext]_tuiVars =>
          (Asked => /\ AllowedIn(request'.op, state[request'.of])
                    /\ readOnly => request'.op \in {"exec", "update"})
  <2> SUFFICES ASSUME MenuInv, TuiNext, Asked
               PROVE  /\ AllowedIn(request'.op, state[request'.of])
                      /\ readOnly => request'.op \in {"exec", "update"}
    BY DEF TuiInv, Asked, tuiVars
  <2>1. readOnly => view \notin {"confirm", "signal"}
    BY DEF MenuInv
  <2>2. CASE /\ view = "confirm" /\ Allows(pending, target)
             /\ request' = [op |-> pending, of |-> target]
    BY <2>1, <2>2 DEF Allows
  <2>3. CASE /\ request'.op \in {"exec", "signal", "update"}
             /\ request'.op = "signal" => view = "signal"
    BY <2>1, <2>3 DEF AllowedIn
  <2> QED BY <2>2, <2>3, AskedWhere
<1>3. TuiSpec => ActsOnSelected
  BY <1>1, TuiInvariant, PTL DEF TuiSpec, ActsOnSelected
<1>4. TuiSpec => OpsAllowed
  BY <1>2, TuiInvariant, PTL DEF TuiSpec, OpsAllowed
<1> QED BY <1>3, <1>4 DEF AsksRightly

-----------------------------------------------------------------------------
(* The columns are kept. *)

LEMMA MovedColumn ==
    ASSUME TuiInv, ColumnMove, columns' # columns
    PROVE  /\ items'[at'] = items[at]
           /\ columns'[Place(columns', items[at])] =
                  columns[Place(columns, items[at])]
<1> DEFINE n == items[at]
           p == Place(columns, n)
<1>1. /\ Ordered(columns) /\ items = ColumnItems(columns)
      /\ GoodList(items, at) /\ Len(columns) \in Nat
  BY DEF TuiInv, MenuInv, ConfigInv, Ordered, ColumnMove, Lists, Listing
<1>2. PICK d : d = columns'
  OBVIOUS
<1>3. /\ d # columns /\ items' = ColumnItems(d)
      /\ \/ d = ColumnLeft(columns, n) /\ at' = M!Above(items, at)
         \/ d = ColumnRight(columns, n) /\ at' = M!Below(items, at)
  BY <1>2 DEF ColumnMove
<1>4. Ordered(d) /\ Len(d) = Len(columns)
  BY <1>1, <1>3, LeftIs, RightIs
<1>5. \A i \in 1..Len(columns) : M!Selectable(items, i)
  BY <1>1, ColumnItemsAre
<1>6. Len(items) = Len(columns) + 2
  BY <1>1, ColumnItemsAre
<1>7. p \in 1..Len(columns) /\ columns[p].name = n
  BY <1>1, <1>3, LeftIs, RightIs
<1>8. at = p
  <2>1. columns[p] \in Column
    BY <1>1, <1>7 DEF Ordered
  <2>2. n \in ColumnNames
    BY <1>7, <2>1 DEF Column
  <2> QED BY <1>1, <2>2, PlaceUnderCursor DEF GoodList
<1>9. at' \in 1..Len(columns) /\ d[at'] = columns[p]
  <2>1. CASE d = ColumnLeft(columns, n) /\ at' = M!Above(items, at)
    <3>1. p \in 2..Len(columns) /\ d[p - 1] = columns[p]
      BY <1>1, <1>3, <2>1, LeftIs
    <3>2. p - 1 \in 1..Len(columns) /\ at > 1
      BY <1>1, <1>8, <3>1
    <3>3. at' = p - 1
      BY <1>1, <1>5, <1>8, <2>1, <3>2, AboveIs
    <3> QED BY <3>1, <3>2, <3>3
  <2>2. CASE d = ColumnRight(columns, n) /\ at' = M!Below(items, at)
    <3>1. p \in 1..(Len(columns) - 1) /\ d[p + 1] = columns[p]
      BY <1>1, <1>3, <2>2, RightIs
    <3>2. p + 1 \in 1..Len(columns) /\ at < Len(items)
      BY <1>1, <1>6, <1>8, <3>1
    <3>3. at' = p + 1
      BY <1>1, <1>5, <1>8, <2>2, <3>2, BelowIs
    <3> QED BY <3>1, <3>2, <3>3
  <2> QED BY <1>3, <2>1, <2>2
<1> HIDE DEF p, n
<1>10. d[at'].name = n
  BY <1>7, <1>9
<1>11. ColumnItems(d)[at'] = n
  BY <1>4, <1>9, <1>10, ColumnItemsAre
<1>12. Place(d, n) = at'
  BY <1>4, <1>9, <1>10, PlaceIs
<1>13. Place(columns', n) = Place(d, n)
  BY <1>2
<1> QED BY <1>2, <1>3, <1>9, <1>11, <1>12, <1>13 DEF p, n

\* A column that is moved stays under the cursor and stays shown or hidden
\* (menus.go's ColumnsMenu), and the columns that were shown when the file was
\* last written are shown again, in their order, when the program reads it
\* (config.SetColumns), unless a host toggles one of them.
THEOREM ColumnsAreKept == TuiSpec => ColumnsKept
<1>1. TuiInv /\ [TuiNext]_tuiVars =>
          (ColumnMove /\ columns' # columns =>
              /\ items'[at'] = items[at]
              /\ columns'[Place(columns', items[at])] =
                     columns[Place(columns, items[at])])
  BY MovedColumn
<1>2. TuiInv /\ [TuiNext]_tuiVars =>
          (Start(1) /\ saved # <<>> => Enabled(columns') = saved)
  <2> SUFFICES ASSUME ConfigInv, Start(1), saved # <<>>
               PROVE  Enabled(columns') = saved
    BY DEF TuiInv
  <2>1. file = saved /\ saved \in NameLists
    BY DEF ConfigInv
  <2>2. Loaded = {SetColumns(DefaultColumns, saved)}
    BY <2>1, NoSuchList DEF Loaded
  <2>3. columns' = SetColumns(DefaultColumns, saved)
    BY <2>2 DEF Start
  <2>4. Enabled(SetColumns(DefaultColumns, saved)) = saved
    BY <2>1, DefaultOrdered, SetOrdered
  <2> QED BY <2>3, <2>4
<1>3. TuiSpec => ColumnStaysSelected
  BY <1>1, TuiInvariant, PTL DEF TuiSpec, ColumnStaysSelected
<1>4. TuiSpec => SavedColumnsReturn
  BY <1>2, TuiInvariant, PTL DEF TuiSpec, SavedColumnsReturn
<1> QED BY <1>3, <1>4 DEF ColumnsKept
=============================================================================
