-------------------------- MODULE ConfigurationProofs --------------------------
(***************************************************************************)
(* Theorems about the readers of the configuration, for every sequence of  *)
(* edits, tool runs and mishaps.                                           *)
(***************************************************************************)
EXTENDS ConfigurationProperties, FiniteSetTheorems, SequenceTheorems, TLAPS

-----------------------------------------------------------------------------
(* A file without repeats has one entry for each key.                       *)

LEMMA MissionEntry ==
  ASSUME NEW doc, UniqueNames(doc.rows), NEW i \in 1 .. Len(doc.rows)
  PROVE  /\ NameOf(doc.rows[i]) \in DOMAIN CheckpointTable(doc)
         /\ CheckpointTable(doc)[NameOf(doc.rows[i])] = YamlPoint(doc.rows[i].pos)
<1>. DEFINE n == NameOf(doc.rows[i])
            j == CHOOSE j \in 1 .. Len(doc.rows) : NameOf(doc.rows[j]) = n
<1>1. j \in 1 .. Len(doc.rows) /\ NameOf(doc.rows[j]) = n
  OBVIOUS
<1>. HIDE DEF j
<1>2. j = i
  BY <1>1 DEF UniqueNames, IsInjective
<1>3. n \in {NameOf(doc.rows[k]) : k \in 1 .. Len(doc.rows)}
  OBVIOUS
<1>4. CheckpointTable(doc)[n] = YamlPoint(doc.rows[j].pos) /\ n \in DOMAIN CheckpointTable(doc)
  BY <1>3 DEF CheckpointTable, j
<1>. QED  BY <1>2, <1>4

LEMMA PerceptionEntry ==
  ASSUME NEW doc, UniqueTags(doc.rows), NEW i \in 1 .. Len(doc.rows)
  PROVE  /\ TagOf(doc.rows[i]) \in DOMAIN PerceptionMap(doc)
         /\ PerceptionMap(doc)[TagOf(doc.rows[i])] =
              [id |-> NameOf(doc.rows[i]), family |-> doc.rows[i].family,
               at |-> YamlPoint(doc.rows[i].pos)]
<1>. DEFINE t == TagOf(doc.rows[i])
            j == CHOOSE j \in 1 .. Len(doc.rows) : TagOf(doc.rows[j]) = t
<1>1. j \in 1 .. Len(doc.rows) /\ TagOf(doc.rows[j]) = t
  OBVIOUS
<1>. HIDE DEF j
<1>2. j = i
  BY <1>1 DEF UniqueTags, IsInjective
<1>3. t \in {TagOf(doc.rows[k]) : k \in 1 .. Len(doc.rows)}
  OBVIOUS
<1>4. /\ t \in DOMAIN PerceptionMap(doc)
      /\ PerceptionMap(doc)[t] =
           [id |-> NameOf(doc.rows[j]), family |-> doc.rows[j].family,
            at |-> YamlPoint(doc.rows[j].pos)]
  BY <1>3 DEF PerceptionMap, j
<1>. QED  BY <1>2, <1>4

LEMMA MarkerFacts ==
  ASSUME NEW doc, NEW tmpl
  PROVE  LET markers == RenderWorld(doc, tmpl).markers IN
         /\ DOMAIN markers = 1 .. Len(doc.rows)
         /\ \A i \in 1 .. Len(doc.rows) :
              /\ markers[i].name = NameOf(doc.rows[i])
              /\ markers[i].tag = MarkerTag(doc.rows[i])
              /\ markers[i].at = [k \in 1 .. 3 |-> Written(doc.rows[i].pos.at[k])]
BY DEF RenderWorld

-----------------------------------------------------------------------------
(* Types of the two documents the route is built from.  Every edit keeps    *)
(* them, so that a route that loads is computed from numbers and points.    *)

Point == Int \X Int \X Int
TokenType == [form : NumberForms, val : Int]
IdType == [form : IdForms, name : {"a", "b", "c", "d", "none"}]
PositionType == [style : Styles, form : NumberForms, at : Point]

RowType == [oddity : RowOddities, id : IdType, tag : TokenType, family : Families,
            pos : PositionType]

ItemKeySets == SUBSET (CheckpointKeys \cup InlineKeys \cup {"tolerance_m"})
ItemType == [shape : {"mapping", "scalar"}, keys : ItemKeySets, id : IdType,
             pos : PositionType, frame : {"enu", "ned", "body"}, dwell : TokenType]

SectionType == [SectionKeys -> {"mapping", "null", "scalar", "misspelled"}]
HomeType == [shape : {"mapping", "null"}, keys : SUBSET {"position", "frame"},
             pos : PositionType, frame : {"enu"}]

MissionType ==
  [shape : {"mapping", "other"}, keys : SUBSET (KnownKeys \cup {"aproach"}),
   sections : SectionType, numbers : [NumberFields -> TokenType], home : HomeType,
   waypoints : [shape : {"list", "null"}, items : Seq(ItemType)]]

DocumentsOK ==
  /\ checkpoints \in [shape : {"keyed", "bare", "other"}, rows : Seq(RowType)]
  /\ mission \in MissionType

\* A length is a whole number of units, and so are a point in metres and one
\* read in base eight.
LEMMA MetreIsPositive == Metre \in Nat /\ Metre > 0 /\ Precision \in Nat
BY MetreAssumption, PrecisionAssumption DEF Powers

LEMMA MetresType ==
  ASSUME NEW x \in Int, NEW y \in Int, NEW z \in Int
  PROVE  Metres(<<x, y, z>>) \in Point
BY MetreIsPositive DEF Metres, Point

LEMMA YamlPointType ==
  ASSUME NEW p \in PositionType
  PROVE  YamlPoint(p) \in Point
<1>1. p.at[1] \in Int /\ p.at[2] \in Int /\ p.at[3] \in Int
  BY DEF PositionType, Point
<1>2. ASSUME NEW v \in Int  PROVE Octal(v) \in Int
  <2>1. Magnitude(v) \in Nat
    BY DEF Magnitude
  <2>2. /\ Digit(v, 1) \in Int /\ Digit(v, 10) \in Int /\ Digit(v, 100) \in Int
        /\ Digit(v, 1000) \in Int /\ Digit(v, 10000) \in Int /\ Digit(v, 100000) \in Int
    BY <2>1 DEF Digit
  <2>. QED  BY <2>2 DEF Octal, Signed
<1>3. ASSUME NEW v \in Int  PROVE v \div Metre \in Int
  BY MetreIsPositive
<1>4. ASSUME NEW v \in Int  PROVE Metre * YamlValue("zeros", v \div Metre) \in Int
  BY <1>2, <1>3, MetreIsPositive DEF YamlValue
<1>. QED  BY <1>1, <1>4 DEF YamlPoint, Point

\* What an author may write for a number, an id, a position, a row or an item
\* is one.
LEMMA NumberEditsType ==
  ASSUME NEW t \in TokenType
  PROVE  NumberEdits(t) \subseteq TokenType
BY DEF NumberEdits, TokenType, NumberForms

LEMMA IdEditsType ==
  ASSUME NEW c \in IdType
  PROVE  IdEdits(c) \subseteq IdType
BY DEF IdEdits, IdType, IdForms

LEMMA PositionEditsType ==
  ASSUME NEW p \in PositionType
  PROVE  PositionEdits(p) \subseteq PositionType
<1>1. Points \subseteq Point
  <2>1. Plus(Metres(<<18, -6, 1>>), <<4, 0, 0>>) \in Point
    BY MetreIsPositive DEF Metres, Plus, Point
  <2>. QED  BY <2>1, MetresType, MetreIsPositive DEF Points
<1>2. /\ \A at \in Points : [p EXCEPT !.at = at, !.form = "plain"] \in PositionType
      /\ \A form \in NumberForms : [p EXCEPT !.form = form] \in PositionType
      /\ \A style \in Styles : [p EXCEPT !.style = style] \in PositionType
  BY <1>1 DEF PositionType, NumberForms
<1>. QED  BY <1>2 DEF PositionEdits

LEMMA RowEditsType ==
  ASSUME NEW r \in RowType
  PROVE  RowEdits(r) \subseteq RowType
<1>1. /\ IdEdits(r.id) \subseteq IdType /\ PositionEdits(r.pos) \subseteq PositionType
  BY IdEditsType, PositionEditsType DEF RowType
<1>2. {Plain(0), Plain(1), Plain(2), Plain(3), [form |-> "quoted", val |-> 0],
        [form |-> "zeros", val |-> 10]} \subseteq TokenType
  BY DEF Plain, TokenType, NumberForms
<1>3. /\ \A oddity \in RowOddities : [r EXCEPT !.oddity = oddity] \in RowType
      /\ \A c \in IdType : [r EXCEPT !.id = c] \in RowType
      /\ \A t \in TokenType : [r EXCEPT !.tag = t] \in RowType
      /\ \A family \in Families : [r EXCEPT !.family = family] \in RowType
      /\ \A p \in PositionType : [r EXCEPT !.pos = p] \in RowType
  BY DEF RowType
<1>. QED  BY <1>1, <1>2, <1>3 DEF RowEdits

LEMMA ItemEditsType ==
  ASSUME NEW w \in ItemType
  PROVE  ItemEdits(w) \subseteq ItemType
<1>1. /\ NumberEdits(w.dwell) \subseteq TokenType /\ PositionEdits(w.pos) \subseteq PositionType
  BY NumberEditsType, PositionEditsType DEF ItemType
<1>2. Name("d") \in IdType /\ [w.id EXCEPT !.form = "numeric"] \in IdType
  BY DEF Name, IdType, IdForms, ItemType
<1>3. /\ CheckpointKeys \cup InlineKeys \in ItemKeySets /\ {} \in ItemKeySets
      /\ w.keys \cup {"tolerance_m"} \in ItemKeySets
      /\ \A key : w.keys \ {key} \in ItemKeySets
  BY DEF ItemKeySets, ItemType
<1>4. /\ \A c \in IdType : [w EXCEPT !.id = c] \in ItemType
      /\ \A ks \in ItemKeySets : [w EXCEPT !.keys = ks] \in ItemType
      /\ [w EXCEPT !.shape = "scalar"] \in ItemType
      /\ \A f \in {"ned", "body"} : [w EXCEPT !.frame = f] \in ItemType
      /\ \A t \in TokenType : [w EXCEPT !.dwell = t] \in ItemType
      /\ \A p \in PositionType : [w EXCEPT !.pos = p] \in ItemType
  BY DEF ItemType
<1>5. [w EXCEPT !.id.form = "numeric"] = [w EXCEPT !.id = [w.id EXCEPT !.form = "numeric"]]
  BY DEF ItemType
<1>. QED  BY <1>1, <1>2, <1>3, <1>4, <1>5 DEF ItemEdits

\* The shipped files.
LEMMA DocumentsInitial == Init => DocumentsOK
<1>1. ASSUME NEW n \in {"a", "b", "c", "d", "none"} PROVE Name(n) \in IdType
  BY DEF Name, IdType, IdForms
<1>2. ASSUME NEW x \in Int, NEW y \in Int, NEW z \in Int
      PROVE  Position(<<x, y, z>>) \in PositionType
  BY MetresType DEF Position, PositionType, Styles, NumberForms
<1>3. ASSUME NEW v \in Int PROVE Plain(v) \in TokenType
  BY DEF Plain, TokenType, NumberForms
<1>4. ASSUME NEW n \in {"a", "b", "c", "d"}, NEW t \in Int, NEW x \in Int, NEW y \in Int,
             NEW z \in Int
      PROVE  Row(n, t, <<x, y, z>>) \in RowType
  BY <1>1, <1>2, <1>3, <1>4 DEF Row, RowType, RowOddities, Families
<1>5. ShippedRows \in Seq(RowType)
  <2>2. /\ Row("a", 0, <<12, 8, 1>>) \in RowType /\ Row("b", 1, <<18, -6, 1>>) \in RowType
        /\ Row("c", 2, <<-10, -12, 1>>) \in RowType
    BY <1>4
  <2>. QED  BY <2>2 DEF ShippedRows
<1>6. <<CheckpointItem("a"), CheckpointItem("b"), InlineItem>> \in Seq(ItemType)
  <2>1. Position(<<0, 0, 0>>) \in PositionType /\ Position(<<5, 4, 2>>) \in PositionType
    BY <1>2
  <2>2. CheckpointKeys \in ItemKeySets /\ InlineKeys \in ItemKeySets
    BY DEF ItemKeySets
  <2>3. CheckpointItem("a") \in ItemType /\ CheckpointItem("b") \in ItemType
    BY <1>1, <1>2, <1>3, <2>1, <2>2 DEF CheckpointItem, ItemType
  <2>4. InlineItem \in ItemType
    BY <1>1, <1>2, <1>3, <2>1, <2>2 DEF InlineItem, ItemType
  <2>. QED  BY <2>3, <2>4
<1>7. ShippedMission.numbers \in [NumberFields -> TokenType]
  <2>1. \A f \in NumberFields :
          (CASE f = "takeoff_alt_m" -> 5 [] f = "hover_time_s" -> 10 [] OTHER -> Defaults[f]) \in Int
    BY DEF NumberFields, TopNumbers, Defaults
  <2>. QED  BY <1>3, <2>1 DEF ShippedMission
<1>8. ShippedMission \in MissionType
  <2>1. ShippedMission.home \in HomeType
    <3>1. Position(<<0, 0, 2>>) \in PositionType
      BY <1>2
    <3>. QED  BY <3>1 DEF ShippedMission, HomeType
  <2>2. ShippedMission.sections \in SectionType
    BY DEF ShippedMission, SectionType
  <2>3. ShippedMission.waypoints \in [shape : {"list", "null"}, items : Seq(ItemType)]
    BY <1>6 DEF ShippedMission
  <2>. QED  BY <1>7, <2>1, <2>2, <2>3 DEF ShippedMission, MissionType
<1>. QED  BY <1>5, <1>8 DEF Init, DocumentsOK

\* Every edit of the checkpoints keeps them rows.
LEMMA CheckpointEdits == DocumentsOK /\ EditCheckpoints => DocumentsOK'
<1>1. SUFFICES ASSUME DocumentsOK, EditCheckpoints
               PROVE  checkpoints' \in [shape : {"keyed", "bare", "other"}, rows : Seq(RowType)]
  BY DEF EditCheckpoints, sourcesButCheckpoints, DocumentsOK
<1>. DEFINE rows == checkpoints.rows
<1>2. rows \in Seq(RowType)
  BY <1>1 DEF DocumentsOK
<1>3. \A s \in Seq(RowType) :
        [checkpoints EXCEPT !.rows = s] \in [shape : {"keyed", "bare", "other"}, rows : Seq(RowType)]
  BY <1>1 DEF DocumentsOK
<1>4. CASE \E shape \in {"keyed", "bare", "other"} :
             checkpoints' = [checkpoints EXCEPT !.shape = shape]
  BY <1>1, <1>4 DEF DocumentsOK
<1>5. ASSUME NEW i \in 1 .. Len(rows), NEW r \in RowEdits(rows[i]),
             checkpoints' = [checkpoints EXCEPT !.rows[i] = r]
      PROVE  checkpoints' \in [shape : {"keyed", "bare", "other"}, rows : Seq(RowType)]
  <2>1. rows[i] \in RowType
    BY <1>2, <1>5, ElementOfSeq
  <2>2. r \in RowType
    BY <1>5, <2>1, RowEditsType
  <2>3. [rows EXCEPT ![i] = r] \in Seq(RowType)
    BY <1>2, <1>5, <2>2, ExceptSeq
  <2>4. checkpoints' = [checkpoints EXCEPT !.rows = [rows EXCEPT ![i] = r]]
    BY <1>5
  <2>. QED  BY <1>3, <2>3, <2>4
<1>6. ASSUME NEW i \in 1 .. Len(rows),
             checkpoints' = [checkpoints EXCEPT !.rows =
                               SubSeq(@, 1, i - 1) \o SubSeq(@, i + 1, Len(@))]
      PROVE  checkpoints' \in [shape : {"keyed", "bare", "other"}, rows : Seq(RowType)]
  <2>1. Len(rows) \in Nat /\ i \in Int
    BY <1>2, LenProperties
  <2>2. \A k \in 1 .. Len(rows) : rows[k] \in RowType
    BY <1>2, ElementOfSeq
  <2>3. (\A k \in 1 .. i - 1 : rows[k] \in RowType) /\ (\A k \in i + 1 .. Len(rows) : rows[k] \in RowType)
    BY <2>1, <2>2
  <2>4. SubSeq(rows, 1, i - 1) \in Seq(RowType)
    BY <2>1, <2>3, SubSeqProperties
  <2>5. SubSeq(rows, i + 1, Len(rows)) \in Seq(RowType)
    BY <2>1, <2>3, SubSeqProperties
  <2>6. SubSeq(rows, 1, i - 1) \o SubSeq(rows, i + 1, Len(rows)) \in Seq(RowType)
    BY <2>4, <2>5, ConcatProperties
  <2>. QED  BY <1>3, <1>6, <2>6
<1>7. ASSUME checkpoints' = [checkpoints EXCEPT !.rows = Append(@, Row("d", 3, <<-12, 10, 1>>))]
      PROVE  checkpoints' \in [shape : {"keyed", "bare", "other"}, rows : Seq(RowType)]
  <2>1. Metres(<<-12, 10, 1>>) \in Point
    BY MetresType
  <2>2. Row("d", 3, <<-12, 10, 1>>) \in RowType
    BY <2>1 DEF Row, RowType, RowOddities, Families, Name, IdType, IdForms, Plain, TokenType,
       NumberForms, Position, PositionType, Styles
  <2>3. Append(rows, Row("d", 3, <<-12, 10, 1>>)) \in Seq(RowType)
    BY <1>2, <2>2
  <2>. QED  BY <1>3, <1>7, <2>3
<1>. QED  BY <1>1, <1>4, <1>5, <1>6, <1>7 DEF EditCheckpoints

\* Every edit of the mission keeps it a mission document.
LEMMA MissionEdits == DocumentsOK /\ EditMission => DocumentsOK'
<1>0. SUFFICES ASSUME DocumentsOK, EditMission  PROVE DocumentsOK'
  OBVIOUS
<1>1. SUFFICES mission' \in MissionType
  <2>1. UNCHANGED <<checkpoints, path, template, table, version, generated>>
    BY <1>0, Zenon DEF EditMission
  <2>. QED  BY <1>0, <2>1 DEF DocumentsOK
<1>. DEFINE WaypointsType == [shape : {"list", "null"}, items : Seq(ItemType)]
            m == mission
<1>2. m \in MissionType
  BY <1>0 DEF DocumentsOK
<1>3. /\ m.waypoints \in WaypointsType /\ m.home \in HomeType
      /\ Items(m) \in Seq(ItemType) /\ m.numbers \in [NumberFields -> TokenType]
      /\ m.sections \in SectionType /\ m.keys \in SUBSET (KnownKeys \cup {"aproach"})
  BY <1>2 DEF MissionType, Items
<1>4. /\ [m EXCEPT !.shape = "other"] \in MissionType
      /\ \A ks \in SUBSET (KnownKeys \cup {"aproach"}) : [m EXCEPT !.keys = ks] \in MissionType
      /\ \A ss \in SectionType : [m EXCEPT !.sections = ss] \in MissionType
      /\ \A ns \in [NumberFields -> TokenType] : [m EXCEPT !.numbers = ns] \in MissionType
      /\ \A h \in HomeType : [m EXCEPT !.home = h] \in MissionType
      /\ \A ws \in WaypointsType : [m EXCEPT !.waypoints = ws] \in MissionType
  BY <1>2 DEF MissionType
<1>5. CASE mission' \in
             {[m EXCEPT !.shape = "other"], [m EXCEPT !.keys = @ \cup {"aproach"}],
              [m EXCEPT !.waypoints.shape = "null"], [m EXCEPT !.home.shape = "null"],
              [m EXCEPT !.home.keys = {"frame"}], [m EXCEPT !.waypoints.items = <<InlineItem>>]}
  <2>1. m.keys \cup {"aproach"} \in SUBSET (KnownKeys \cup {"aproach"})
    BY <1>3
  <2>2. [m.waypoints EXCEPT !.shape = "null"] \in WaypointsType
    BY <1>3
  <2>3. [m.home EXCEPT !.shape = "null"] \in HomeType /\ [m.home EXCEPT !.keys = {"frame"}] \in HomeType
    BY <1>3 DEF HomeType
  <2>4. InlineItem \in ItemType
    <3>1. Metres(<<5, 4, 2>>) \in Point /\ InlineKeys \in ItemKeySets
      BY MetresType DEF ItemKeySets
    <3>. QED
      BY <3>1 DEF InlineItem, ItemType, Name, IdType, IdForms, Plain, TokenType, NumberForms,
         Position, PositionType, Styles
  <2>5. [m.waypoints EXCEPT !.items = <<InlineItem>>] \in WaypointsType
    <3>1. <<InlineItem>> \in Seq(ItemType)
      BY <2>4
    <3>. QED  BY <1>3, <3>1
  <2>6. /\ [m EXCEPT !.waypoints.shape = "null"]
             = [m EXCEPT !.waypoints = [m.waypoints EXCEPT !.shape = "null"]]
        /\ [m EXCEPT !.home.shape = "null"] = [m EXCEPT !.home = [m.home EXCEPT !.shape = "null"]]
        /\ [m EXCEPT !.home.keys = {"frame"}] = [m EXCEPT !.home = [m.home EXCEPT !.keys = {"frame"}]]
        /\ [m EXCEPT !.waypoints.items = <<InlineItem>>]
             = [m EXCEPT !.waypoints = [m.waypoints EXCEPT !.items = <<InlineItem>>]]
        /\ [m EXCEPT !.keys = @ \cup {"aproach"}] = [m EXCEPT !.keys = m.keys \cup {"aproach"}]
    OBVIOUS
  <2>. QED  BY <1>4, <1>5, <2>1, <2>2, <2>3, <2>5, <2>6
<1>6. ASSUME NEW key \in KnownKeys, mission' = [m EXCEPT !.keys = @ \ {key}]
      PROVE  mission' \in MissionType
  <2>1. m.keys \ {key} \in SUBSET (KnownKeys \cup {"aproach"})
    BY <1>3
  <2>. QED  BY <1>4, <1>6, <2>1
<1>7. ASSUME NEW s \in SectionKeys, NEW shape \in {"null", "scalar", "misspelled"},
             mission' = [m EXCEPT !.sections[s] = shape]
      PROVE  mission' \in MissionType
  <2>1. [m.sections EXCEPT ![s] = shape] \in SectionType
    BY <1>3 DEF SectionType
  <2>2. mission' = [m EXCEPT !.sections = [m.sections EXCEPT ![s] = shape]]
    BY <1>7
  <2>. QED  BY <1>4, <2>1, <2>2
<1>8. ASSUME NEW f \in NumberFields, NEW t \in NumberEdits(m.numbers[f]),
             mission' = [m EXCEPT !.numbers[f] = t]
      PROVE  mission' \in MissionType
  <2>1. t \in TokenType
    BY <1>3, NumberEditsType
  <2>2. [m.numbers EXCEPT ![f] = t] \in [NumberFields -> TokenType]
    BY <1>3, <2>1
  <2>3. mission' = [m EXCEPT !.numbers = [m.numbers EXCEPT ![f] = t]]
    BY <1>8
  <2>. QED  BY <1>4, <2>2, <2>3
<1>9. ASSUME NEW i \in 1 .. Len(Items(m)), NEW w \in ItemEdits(Items(m)[i]),
             mission' = [m EXCEPT !.waypoints.items[i] = w]
      PROVE  mission' \in MissionType
  <2>1. Items(m)[i] \in ItemType
    BY <1>3, ElementOfSeq
  <2>2. w \in ItemType
    BY <2>1, ItemEditsType
  <2>3. [Items(m) EXCEPT ![i] = w] \in Seq(ItemType)
    BY <1>3, <2>2, ExceptSeq
  <2>4. [m.waypoints EXCEPT !.items = [Items(m) EXCEPT ![i] = w]] \in WaypointsType
    BY <1>3, <2>3
  <2>5. mission' = [m EXCEPT !.waypoints = [m.waypoints EXCEPT !.items = [Items(m) EXCEPT ![i] = w]]]
    BY <1>9 DEF Items
  <2>. QED  BY <1>4, <2>4, <2>5
<1>. DEFINE
       Whole == {[m EXCEPT !.shape = "other"], [m EXCEPT !.keys = @ \cup {"aproach"}],
                 [m EXCEPT !.waypoints.shape = "null"], [m EXCEPT !.home.shape = "null"],
                 [m EXCEPT !.home.keys = {"frame"}],
                 [m EXCEPT !.waypoints.items = <<InlineItem>>]}
       Keys == {[m EXCEPT !.keys = @ \ {key}] : key \in KnownKeys}
       SectionsAt(s) == {[m EXCEPT !.sections[s] = shape] : shape \in {"null", "scalar", "misspelled"}}
       Sections == UNION {SectionsAt(s) : s \in SectionKeys}
       NumbersAt(f) == {[m EXCEPT !.numbers[f] = t] : t \in NumberEdits(m.numbers[f])}
       Numbers == UNION {NumbersAt(f) : f \in NumberFields}
       ItemsAt(i) == {[m EXCEPT !.waypoints.items[i] = w] : w \in ItemEdits(Items(m)[i])}
       Waypoints == UNION {ItemsAt(i) : i \in 1 .. Len(Items(m))}
<1>10. mission' \in Whole \cup Keys \cup Sections \cup Numbers \cup Waypoints
  BY <1>0, Zenon DEF EditMission
<1>11. mission' \in Keys => \E key \in KnownKeys : mission' = [m EXCEPT !.keys = @ \ {key}]
  OBVIOUS
<1>12. mission' \in Sections =>
         \E s \in SectionKeys : \E shape \in {"null", "scalar", "misspelled"} :
           mission' = [m EXCEPT !.sections[s] = shape]
  BY Zenon
<1>13. mission' \in Numbers =>
         \E f \in NumberFields : \E t \in NumberEdits(m.numbers[f]) :
           mission' = [m EXCEPT !.numbers[f] = t]
  BY Zenon
<1>14. mission' \in Waypoints =>
         \E i \in 1 .. Len(Items(m)) : \E w \in ItemEdits(Items(m)[i]) :
           mission' = [m EXCEPT !.waypoints.items[i] = w]
  BY Zenon
<1>. HIDE DEF Whole, Keys, Sections, Numbers, Waypoints
<1>15. CASE mission' \in Whole
  BY <1>5, <1>15 DEF Whole
<1>. QED  BY <1>6, <1>7, <1>8, <1>9, <1>10, <1>11, <1>12, <1>13, <1>14, <1>15

LEMMA DocumentsStep == DocumentsOK /\ [Next]_configVars => DocumentsOK'
<1>1. SUFFICES ASSUME DocumentsOK, [Next]_configVars  PROVE DocumentsOK'
  OBVIOUS
<1>2. CASE UNCHANGED <<checkpoints, mission>>
  BY <1>1, <1>2 DEF DocumentsOK
<1>3. CASE EditLaunch \/ EditTemplate \/ EditGenerator \/ TouchGenerated \/ Tools
  BY <1>2, <1>3 DEF EditLaunch, EditTemplate, EditGenerator, TouchGenerated, Tools, ComposeWorld,
     ComposeKilled, GenerateModels, GenerateKilled, RemoveOrphans, sources
<1>. QED
  BY <1>1, <1>2, <1>3, CheckpointEdits, MissionEdits DEF Next, Authors, configVars

LEMMA DocumentsTyped == Spec => []DocumentsOK
BY DocumentsInitial, DocumentsStep, PTL DEF Spec

-----------------------------------------------------------------------------
(* The composer's rounding.                                                 *)

\* A coordinate that %g writes without an exponent has a grain, and moves by no
\* more than half of it.
LEMMA WrittenNear ==
  ASSUME NEW v \in Int, FixedPoint(v)
  PROVE  2 * Magnitude(Written(v) - v) <= Grain(v)
<1>. DEFINE n == Magnitude(v)
            fine == {g \in Powers : n < g * Precision}
            g == Grain(v)
<1>1. n \in Nat /\ n < Precision * Metre /\ Metre \in Powers /\ Precision \in Nat
  BY MetreAssumption, PrecisionAssumption DEF Magnitude, FixedPoint
<1>2. Metre \in fine /\ fine \subseteq Powers
  BY <1>1, MetreIsPositive
<1>. HIDE DEF n
<1>3. \E p \in fine : \A h \in fine : p <= h
  <2>. HIDE DEF fine
  <2>. QED  BY <1>2 DEF Powers
<1>4. g \in fine
  BY <1>3 DEF Grain, n
<1>5. g \in Powers
  BY <1>4
<1>. HIDE DEF g, fine
<1>6. Written(v) = Signed(v, g * ((n + g \div 2) \div g))
  BY DEF Written, n, g
<1>. DEFINE w == g * ((n + g \div 2) \div g)
<1>7. w \in Int /\ 2 * (w - n) <= g /\ 2 * (n - w) <= g
  BY <1>1, <1>5 DEF Powers
<1>. HIDE DEF w
<1>8. g \in Int
  BY <1>5 DEF Powers
<1>9. 2 * Magnitude(Signed(v, w) - v) <= g
  BY <1>7, <1>8 DEF Signed, Magnitude, n
<1>. QED  BY <1>6, <1>9 DEF w, g

\* A marker stands near where its row says, if the row is typed in decimal.
LEMMA MarkerNear ==
  ASSUME DocumentsOK, CanRender(checkpoints, template, models), NEW i \in 1 .. Len(checkpoints.rows),
         checkpoints.rows[i].pos.form # "zeros"
  PROVE  Near(RenderWorld(checkpoints, template).markers[i].at, YamlPoint(checkpoints.rows[i].pos))
<1>. DEFINE at == checkpoints.rows[i].pos.at
<1>1. checkpoints.rows[i] \in RowType
  BY ElementOfSeq DEF DocumentsOK
<1>2. at \in Point
  BY <1>1 DEF RowType, PositionType
<1>3. \A k \in 1 .. 3 : at[k] \in Int
  BY <1>2 DEF Point
<1>4. \A k \in 1 .. 3 : FixedPoint(at[k])
  BY DEF CanRender, Formats
<1>5. YamlPoint(checkpoints.rows[i].pos) = <<at[1], at[2], at[3]>>
  BY DEF YamlPoint
<1>6. RenderWorld(checkpoints, template).markers[i].at = [k \in 1 .. 3 |-> Written(at[k])]
  BY MarkerFacts
<1>. HIDE DEF at
<1>7. \A k \in 1 .. 3 : 2 * Magnitude(Written(at[k]) - at[k]) <= Grain(at[k])
  BY <1>3, <1>4, WrittenNear
<1>. QED  BY <1>5, <1>6, <1>7 DEF Near

-----------------------------------------------------------------------------
LEMMA AgreementHolds == DocumentsOK => ReadersAgree
<1>. SUFFICES ASSUME DocumentsOK  PROVE ReadersAgree
  OBVIOUS
<1>1. ASSUME PerceptionLoads(checkpoints), CheckpointsLoad(checkpoints),
             NEW t \in DOMAIN PerceptionMap(checkpoints)
      PROVE  LET entry == PerceptionMap(checkpoints)[t] IN
               CheckpointTable(checkpoints)[entry.id] = entry.at
  <2>1. UniqueTags(checkpoints.rows) /\ UniqueNames(checkpoints.rows)
    BY <1>1 DEF PerceptionLoads, CheckpointsLoad
  <2>2. PICK i \in 1 .. Len(checkpoints.rows) : TagOf(checkpoints.rows[i]) = t
    BY <1>1 DEF PerceptionMap
  <2>3. /\ PerceptionMap(checkpoints)[t].id = NameOf(checkpoints.rows[i])
        /\ PerceptionMap(checkpoints)[t].at = YamlPoint(checkpoints.rows[i].pos)
    <3>1. PerceptionMap(checkpoints)[t] =
            [id |-> NameOf(checkpoints.rows[i]), family |-> checkpoints.rows[i].family,
             at |-> YamlPoint(checkpoints.rows[i].pos)]
      BY <2>1, <2>2, PerceptionEntry
    <3>. QED  BY <3>1
  <2>4. CheckpointTable(checkpoints)[NameOf(checkpoints.rows[i])] = YamlPoint(checkpoints.rows[i].pos)
    BY <2>1, MissionEntry
  <2>. QED  BY <2>3, <2>4
<1>2. ASSUME CanRender(checkpoints, template, models), CheckpointsLoad(checkpoints),
             NEW i \in 1 .. Len(checkpoints.rows), checkpoints.rows[i].pos.form # "zeros"
      PROVE  LET mk == RenderWorld(checkpoints, template).markers[i] IN
               Near(mk.at, CheckpointTable(checkpoints)[mk.name])
  <2>. DEFINE mk == RenderWorld(checkpoints, template).markers[i]
  <2>1. UniqueNames(checkpoints.rows)
    BY <1>2 DEF CheckpointsLoad
  <2>2. mk.name = NameOf(checkpoints.rows[i])
    BY MarkerFacts
  <2>3. Near(mk.at, YamlPoint(checkpoints.rows[i].pos))
    BY <1>2, MarkerNear
  <2>4. CheckpointTable(checkpoints)[NameOf(checkpoints.rows[i])] = YamlPoint(checkpoints.rows[i].pos)
    BY <2>1, MissionEntry
  <2>. QED  BY <2>2, <2>3, <2>4
<1>. QED  BY <1>1, <1>2 DEF ReadersAgree

(* Mission and perception take every file they both accept to mean the same  *)
(* points, leading zeros included, and the composer's markers stand within   *)
(* half a unit of the sixth digit of them where there are none, whatever was *)
(* edited: the agreement rests on the mission's check for repeated ids and   *)
(* on the composer's refusal of what %g cannot write.                        *)
THEOREM ReadersAlwaysAgree == Spec => []ReadersAgree
BY DocumentsTyped, AgreementHolds, PTL

-----------------------------------------------------------------------------
\* The generator's versions; the model's whole files carry one of them.
VersionInv == version \in {0, 1}

LEMMA VersionInductive == Spec => []VersionInv
<1>1. Init => VersionInv
  BY DEF Init, VersionInv
<1>2. VersionInv /\ [Next]_configVars => VersionInv'
  <2>. SUFFICES ASSUME VersionInv, [Next]_configVars  PROVE VersionInv'
    OBVIOUS
  <2>. USE DEF VersionInv
  <2>1. CASE EditGenerator
    BY <2>1 DEF EditGenerator
  <2>2. CASE ~EditGenerator
    BY <2>2 DEF Next, Authors, Tools, EditCheckpoints, EditMission, EditLaunch, EditTemplate,
       TouchGenerated, ComposeWorld, ComposeKilled, GenerateModels, GenerateKilled, RemoveOrphans,
       sourcesButCheckpoints, sources, configVars
  <2>. QED  BY <2>1, <2>2
<1>. QED  BY <1>1, <1>2, PTL DEF Spec

LEMMA CleanHolds == DocumentsOK /\ VersionInv => CleanMeansOnePatrol
<1>. SUFFICES ASSUME DocumentsOK, VersionInv, GateClean, checkpoints.shape = "keyed", PlainlyTyped
              PROVE  CleanMeansOnePatrol
  BY DEF CleanMeansOnePatrol
<1>. DEFINE rows == checkpoints.rows
            markers == {world.markers[i] : i \in 1 .. Len(world.markers)}
<1>1. /\ CanRender(checkpoints, template, models)
      /\ ComposerLoads(checkpoints) /\ UniqueMarkerTags(rows) /\ UniqueNames(rows)
      /\ \A i \in 1 .. Len(rows) : MarkerTag(rows[i]) \in DOMAIN models
      /\ world = RenderWorld(checkpoints, template)
  BY DEF GateClean, WorldInSync, CanRender
<1>2. \A i \in 1 .. Len(rows) :
        /\ rows[i].oddity = "none" /\ rows[i].family = "tag36h11" /\ rows[i].tag.form = "plain"
        /\ rows[i].id.form = "plain" /\ rows[i].pos.form = "plain" /\ rows[i].pos.style = "flow"
  BY <1>1 DEF ComposerLoads, ComposerRow, ComposerPosition, PlainlyTyped
<1>22. \A i \in 1 .. Len(rows) : TagOf(rows[i]) = MarkerTag(rows[i])
  BY <1>2 DEF TagOf, MarkerTag, YamlValue
<1>23. UniqueTags(rows)
  BY <1>1, <1>22 DEF UniqueTags, UniqueMarkerTags, IsInjective
<1>3. PerceptionLoads(checkpoints)
  BY <1>1, <1>2, <1>23 DEF PerceptionLoads, PerceptionTag, PerceptionRow, PerceptionId, PerceptionPosition,
     PerceptionNumber, ComposerLoads
<1>4. CheckpointsLoad(checkpoints)
  BY <1>1, <1>2 DEF CheckpointsLoad, MissionId, MissionPosition, MissionNumber
<1>5. \A t \in DOMAIN models : \A k \in 1 .. 3 : models[t][k] \in {0, 1}
  BY DEF GateClean, ModelsInSync, VersionInv
<1>6. Len(world.markers) = Len(rows)
  BY <1>1 DEF RenderWorld
<1>7. ASSUME NEW mk \in markers
      PROVE  /\ DetectedTag(mk) \in DOMAIN PerceptionMap(checkpoints)
             /\ PerceptionMap(checkpoints)[DetectedTag(mk)]
                  = [id |-> mk.name, family |-> "tag36h11",
                     at |-> CheckpointTable(checkpoints)[mk.name]]
             /\ Near(mk.at, CheckpointTable(checkpoints)[mk.name])
  <2>1. PICK i \in 1 .. Len(rows) : mk = world.markers[i]
    BY <1>6
  <2>2. mk.name = NameOf(rows[i]) /\ mk.tag = MarkerTag(rows[i])
    <3>. DEFINE made == RenderWorld(checkpoints, template).markers[i]
    <3>1. made.name = NameOf(rows[i]) /\ made.tag = MarkerTag(rows[i])
      BY MarkerFacts
    <3>2. mk = made
      BY <1>1, <2>1
    <3>. QED  BY <3>1, <3>2
  <2>3. DetectedTag(mk) = TagOf(rows[i])
    BY <1>1, <1>22, <1>5, <2>2 DEF DetectedTag
  <2>4. Near(mk.at, YamlPoint(rows[i].pos))
    BY <1>1, <1>2, <2>1, MarkerNear
  <2>. QED  BY <1>1, <1>2, <1>23, <2>2, <2>3, <2>4, PerceptionEntry, MissionEntry
<1>8. DOMAIN CheckpointTable(checkpoints) = {mk.name : mk \in markers}
  <2>1. DOMAIN CheckpointTable(checkpoints) = {NameOf(rows[i]) : i \in 1 .. Len(rows)}
    BY DEF CheckpointTable
  <2>2. \A i \in 1 .. Len(rows) : world.markers[i].name = NameOf(rows[i])
    BY <1>1, MarkerFacts
  <2>. QED  BY <1>6, <2>1, <2>2
<1>. QED  BY <1>3, <1>4, <1>7, <1>8 DEF CleanMeansOnePatrol

(* A clean gate means one patrol, whatever was edited, touched by hand or    *)
(* left half-written before the gate ran.                                    *)
THEOREM CleanGateMeansOnePatrol == Spec => []CleanMeansOnePatrol
BY DocumentsTyped, VersionInductive, CleanHolds, PTL

-----------------------------------------------------------------------------
(* Frames: what the conversions do to every point.                          *)

LEMMA SwapAxesInvolutive ==
  ASSUME NEW p \in Point
  PROVE  SwapAxes(p) \in Point /\ SwapAxes(SwapAxes(p)) = p
BY DEF SwapAxes, Point

\* To NED and back is the identity on ENU points for every origin of the EKF;
\* a NED waypoint is only shifted by it.
LEMMA RoundTrip ==
  ASSUME NEW p \in Point, NEW origin \in Point
  PROVE  /\ ToEnuFromNed(ToNedFromOrigin(p, "enu", origin), origin) = p
         /\ ToNedFromOrigin(p, "ned", origin) = Plus(p, origin)
BY DEF ToEnuFromNed, ToNedFromOrigin, Plus, Minus, SwapAxes, Point

LEMMA OriginNeutral == Origin \in Point /\ \A p \in Point : Plus(p, Origin) = p
BY DEF Origin, Plus, Point

\* A wrapped heading lies in (-pi, pi], and converting it and back is the
\* identity on those.
LEMMA YawRoundTrip ==
  /\ \A a \in Int : WrapToPi(a) \in 1 - HalfTurn .. HalfTurn
  /\ \A yaw \in 1 - HalfTurn .. HalfTurn : NedYawToEnu(EnuYawToNed(yaw)) = yaw
BY DEF WrapToPi, EnuYawToNed, NedYawToEnu, HalfTurn, QuarterTurn

\* The one yaw a checkpoint waypoint has: clockwise of East, south of North.
LEMMA SouthIsSouth ==
  /\ NedYawToEnu(EnuYawToNed(-QuarterTurn)) = -QuarterTurn
  /\ Forward(EnuYawToNed(-QuarterTurn)) = <<-1, 0, 0>>
<1>0. NedYawToEnu(EnuYawToNed(-QuarterTurn)) = -QuarterTurn
  BY YawRoundTrip DEF QuarterTurn, HalfTurn
<1>1. EnuYawToNed(-QuarterTurn) = HalfTurn
  BY DEF EnuYawToNed, WrapToPi, QuarterTurn, HalfTurn
<1>2. Forward(HalfTurn) = <<-1, 0, 0>>
  BY DEF Forward, QuarterTurn, HalfTurn
<1>. QED  BY <1>0, <1>1, <1>2

\* The approach pose is standoff in front of the tag and climb above it.
LEMMA ApproachFaces ==
  ASSUME NEW tag \in Point, NEW s \in Int, NEW c \in Int
  PROVE  LET setpoint == ToNedFromOrigin(Plus(tag, <<0, s, c>>), "enu", Origin)
             below == Plus(setpoint, <<0, 0, c>>)
         IN  /\ Plus(tag, <<0, s, c>>) \in Point
             /\ Plus(below, Times(s, <<-1, 0, 0>>)) = SwapAxes(tag)
<1>1. s * (-1) = -s /\ s * 0 = 0
  OBVIOUS
<1>2. Times(s, <<-1, 0, 0>>) = <<-s, 0, 0>>
  BY <1>1 DEF Times
<1>. QED  BY <1>2 DEF ToNedFromOrigin, Origin, Plus, SwapAxes, Point

\* In a mission that loads, the approach is an integer offset.
LEMMA ApproachTypes ==
  ASSUME DocumentsOK, Loads
  PROVE  Standoff(mission) \in Int /\ Climb(mission) \in Int
<1>1. {"standoff_m", "camera_pitch_rad"} \subseteq NumberFields /\ "standoff_m" \in DOMAIN Defaults
  BY DEF NumberFields, Defaults
<1>2. \A f \in {"standoff_m", "camera_pitch_rad"} : Value(mission, f) \in Int
  <2>1. \A f \in NumberFields : mission.numbers[f].val \in Int
    BY DEF DocumentsOK, MissionType, TokenType
  <2>. QED  BY <1>1, <2>1 DEF Value, Defaults
<1>3. Value(mission, "camera_pitch_rad") \in {0, 1}
  <2>1. InRange(mission, "camera_pitch_rad")
    BY <1>1 DEF Loads, MissionLoads
  <2>2. QuarterTurn - 1 = 1
    BY DEF QuarterTurn
  <2>. QED  BY <1>2, <2>1, <2>2 DEF InRange
<1>4. Climb(mission) \in {Standoff(mission) * 0, Standoff(mission) * 1}
  BY <1>3 DEF Climb, ClimbRate
<1>5. Standoff(mission) \in Int
  BY <1>2, MetreIsPositive DEF Standoff
<1>. QED  BY <1>4, <1>5

\* A checkpoint's position is a point.
LEMMA CheckpointPoint ==
  ASSUME DocumentsOK, NEW n \in DOMAIN CheckpointTable(checkpoints)
  PROVE  CheckpointTable(checkpoints)[n] \in Point
<1>. DEFINE j == CHOOSE j \in 1 .. Len(checkpoints.rows) : NameOf(checkpoints.rows[j]) = n
<1>1. n \in {NameOf(checkpoints.rows[i]) : i \in 1 .. Len(checkpoints.rows)}
  BY DEF CheckpointTable
<1>2. j \in 1 .. Len(checkpoints.rows)
  BY <1>1
<1>. HIDE DEF j
<1>3. checkpoints.rows[j] \in RowType
  BY <1>2, ElementOfSeq DEF DocumentsOK
<1>4. CheckpointTable(checkpoints)[n] = YamlPoint(checkpoints.rows[j].pos)
  BY <1>1 DEF CheckpointTable, j
<1>. QED  BY <1>3, <1>4, YamlPointType DEF RowType

LEMMA HoversHold == DocumentsOK => HoversFaceTags
<1>. SUFFICES ASSUME DocumentsOK, Loads, NEW i \in 1 .. Len(Items(mission))
              PROVE  LET w == Route(mission, checkpoints)[i]
                         setpoint == ToNedFromOrigin(w.at, w.frame, Origin)
                         recorded == ToEnuFromNed(setpoint, Origin)
                     IN  /\ w.frame = "enu" => recorded = w.at
                         /\ w.frame = "ned" => setpoint = w.at
                         /\ w.id # "none" =>
                              LET tag == CheckpointTable(checkpoints)[w.id]
                                  heading == EnuYawToNed(w.yaw)
                                  below == Plus(setpoint, <<0, 0, Climb(mission)>>)
                              IN  /\ Plus(below, Times(Standoff(mission), Forward(heading)))
                                       = SwapAxes(tag)
                                  /\ NedYawToEnu(heading) = w.yaw
  BY DEF HoversFaceTags
<1>. DEFINE w == Route(mission, checkpoints)[i]
            item == Items(mission)[i]
            s == Standoff(mission)
            c == Climb(mission)
            tag == CheckpointTable(checkpoints)[item.id.name]
<1>1. WaypointLoads(item, checkpoints) /\ item \in ItemType
  <2>1. Items(mission) \in Seq(ItemType)
    BY DEF DocumentsOK, MissionType, Items
  <2>. QED  BY <2>1, ElementOfSeq DEF Loads, MissionLoads
<1>2. CASE Refers(item)
  <2>1. w = [at |-> Plus(tag, <<0, s, c>>), frame |-> "enu", id |-> item.id.name,
             yaw |-> -QuarterTurn]
    BY <1>2 DEF Route, ApproachPose
  <2>2. item.id.name \in DOMAIN CheckpointTable(checkpoints)
    BY <1>1, <1>2 DEF WaypointLoads, Refers, InlineKeys
  <2>3. tag \in Point /\ s \in Int /\ c \in Int
    BY <2>2, CheckpointPoint, ApproachTypes
  <2>. HIDE DEF tag, s, c, w
  <2>4. /\ Plus(tag, <<0, s, c>>) \in Point
        /\ Plus(Plus(ToNedFromOrigin(Plus(tag, <<0, s, c>>), "enu", Origin), <<0, 0, c>>),
                Times(s, <<-1, 0, 0>>)) = SwapAxes(tag)
    BY <2>3, ApproachFaces
  <2>5. ToEnuFromNed(ToNedFromOrigin(w.at, "enu", Origin), Origin) = w.at
    BY <2>1, <2>4, RoundTrip, OriginNeutral
  <2>6. /\ w.frame = "enu" /\ w.at = Plus(tag, <<0, s, c>>) /\ w.yaw = -QuarterTurn
        /\ w.id = item.id.name
    BY <2>1
  <2>7. NedYawToEnu(EnuYawToNed(w.yaw)) = w.yaw /\ Forward(EnuYawToNed(w.yaw)) = <<-1, 0, 0>>
    BY <2>6, SouthIsSouth
  <2>8. Plus(Plus(ToNedFromOrigin(w.at, w.frame, Origin), <<0, 0, c>>),
             Times(s, Forward(EnuYawToNed(w.yaw)))) = SwapAxes(CheckpointTable(checkpoints)[w.id])
    BY <2>4, <2>6, <2>7 DEF tag
  <2>. QED  BY <2>5, <2>6, <2>7, <2>8 DEF s, c, w
<1>3. CASE ~Refers(item)
  <2>1. w = [at |-> item.pos.at, frame |-> item.frame, id |-> "none", yaw |-> NoYaw]
    BY <1>3 DEF Route
  <2>2. item.pos.at \in Point
    BY <1>1 DEF ItemType, PositionType
  <2>. HIDE DEF w, item
  <2>3. w.at \in Point /\ w.id = "none"
    BY <2>1, <2>2
  <2>4. /\ ToEnuFromNed(ToNedFromOrigin(w.at, "enu", Origin), Origin) = w.at
        /\ ToNedFromOrigin(w.at, "ned", Origin) = w.at
    BY <2>3, RoundTrip, OriginNeutral
  <2>. QED  BY <2>3, <2>4 DEF w
<1>. QED  BY <1>2, <1>3

(* Hovers face their tags: in every mission that loads after any edits, the  *)
(* setpoint of a checkpoint waypoint, in the frame PX4 flies in, is standoff *)
(* in front of the tag along the commanded heading and a climb above it, and *)
(* what perception records there is the point the mission file meant.        *)
THEOREM HoversAlwaysFaceTags == Spec => []HoversFaceTags
BY DocumentsTyped, HoversHold, PTL

-----------------------------------------------------------------------------
(* What the gate advises.  Each tool that runs to its end establishes one   *)
(* part of a clean gate and spoils none of the others.                      *)

\* The tags that have a grid, and the files beside them.
ToolsInv ==
  /\ DOMAIN table \subseteq 0 .. 3
  /\ models \in [DOMAIN models -> [1 .. 3 -> Int]]
  /\ version \in {0, 1}

LEMMA TableFinite ==
  ASSUME ToolsInv
  PROVE  /\ IsFiniteSet(DOMAIN table) /\ Cardinality(DOMAIN table) \in Nat
         /\ AllFiles(table) \in Nat
<1>1. IsFiniteSet(0 .. 3)
  <2>. 0 \in Int /\ 3 \in Int
    OBVIOUS
  <2>. QED  BY FS_Interval
<1>2. IsFiniteSet(DOMAIN table)
  BY <1>1, FS_Subset DEF ToolsInv
<1>3. Cardinality(DOMAIN table) \in Nat
  BY <1>2, FS_CardinalityType
<1>. QED  BY <1>2, <1>3 DEF AllFiles

LEMMA TurnBound ==
  ASSUME ToolsInv, NEW t \in DOMAIN table, NEW k \in 1 .. 3
  PROVE  Turn(table, t, k) \in 1 .. AllFiles(table)
<1>. DEFINE before == {u \in DOMAIN table : u < t}
<1>1. IsFiniteSet(DOMAIN table) /\ Cardinality(DOMAIN table) \in Nat
  BY TableFinite
<1>2. before \in SUBSET DOMAIN table /\ t \notin before
  BY DEF ToolsInv
<1>3. Cardinality(before) \in Nat /\ Cardinality(before) < Cardinality(DOMAIN table)
  <2>1. IsFiniteSet(before) /\ Cardinality(before) <= Cardinality(DOMAIN table)
        /\ (Cardinality(before) = Cardinality(DOMAIN table) => before = DOMAIN table)
    BY <1>1, <1>2, FS_Subset
  <2>2. Cardinality(before) \in Nat
    BY <2>1, FS_CardinalityType
  <2>. QED  BY <1>1, <1>2, <2>1, <2>2
<1>. QED  BY <1>1, <1>3 DEF Turn, AllFiles

\* What a generator that was killed leaves is still three files to a tag.
LEMMA WrittenType ==
  ASSUME ToolsInv, NEW count, NEW damaged
  PROVE  WriteModels(table, models, version, count, damaged)
           \in [DOMAIN WriteModels(table, models, version, count, damaged) -> [1 .. 3 -> Int]]
BY DEF WriteModels, ToolsInv, EmptyModel, Missing, Damaged

\* A run that is not killed leaves every grid's model as a whole and up to date.
LEMMA WrittenWhole ==
  ASSUME ToolsInv, Square(table), GenerateModels
  PROVE  /\ DOMAIN models' = DOMAIN models \cup DOMAIN table
         /\ \A t \in DOMAIN table : models'[t] = [k \in 1 .. 3 |-> version]
         /\ \A t \in DOMAIN models : t \notin DOMAIN table => models'[t] = models[t]
<1>. DEFINE all == AllFiles(table)
            reached == {t \in DOMAIN table : Writable(table, t) /\ Turn(table, t, 1) <= all + 0}
            old(t) == IF t \in DOMAIN models THEN models[t] ELSE EmptyModel
            new(t) == [k \in 1 .. 3 |-> IF Turn(table, t, k) <= all THEN version
                                       ELSE IF Turn(table, t, k) = all + 0 THEN Damaged
                                       ELSE old(t)[k]]
<1>1. models' = [t \in DOMAIN models \cup reached |-> IF t \notin reached THEN old(t) ELSE new(t)]
  BY DEF GenerateModels, WriteModels
<1>2. all \in Nat /\ \A t \in DOMAIN table, k \in 1 .. 3 : Turn(table, t, k) \in 1 .. all
  BY TableFinite, TurnBound
<1>3. reached = DOMAIN table
  <2>1. \A t \in DOMAIN table : Writable(table, t)
    BY DEF Writable, Square
  <2>2. \A t \in DOMAIN table : Turn(table, t, 1) <= all + 0
    <3>. HIDE DEF all
    <3>. QED  BY <1>2
  <2>. QED  BY <2>1, <2>2
<1>4. \A t \in DOMAIN table : new(t) = [k \in 1 .. 3 |-> version]
  <2>. HIDE DEF all, old
  <2>. QED  BY <1>2
<1>. HIDE DEF all, reached, new
<1>. QED  BY <1>1, <1>3, <1>4

LEMMA ToolsInitial == Init => ToolsInv
<1>1. SUFFICES ASSUME Init  PROVE ToolsInv
  OBVIOUS
<1>2. DOMAIN table = 0 .. 2 /\ version = 0
  BY <1>1 DEF Init
<1>3. models = [t \in 0 .. 2 |-> [k \in 1 .. 3 |-> 0]]
  BY <1>1 DEF Init
<1>. QED  BY <1>2, <1>3 DEF ToolsInv

LEMMA ToolsStep == ToolsInv /\ [Next]_configVars => ToolsInv'
<1>1. SUFFICES ASSUME ToolsInv, [Next]_configVars  PROVE ToolsInv'
  OBVIOUS
<1>2. CASE UNCHANGED <<table, version, models>>
  BY <1>1, <1>2 DEF ToolsInv
<1>3. CASE EditGenerator
  <2>1. UNCHANGED models /\ version' \in {0, 1}
    BY <1>1, <1>3 DEF EditGenerator, ToolsInv, generated
  <2>2. DOMAIN table' \subseteq DOMAIN table \cup {3}
    BY <1>3 DEF EditGenerator
  <2>. QED  BY <1>1, <2>1, <2>2 DEF ToolsInv
<1>4. CASE TouchGenerated
  <2>1. UNCHANGED <<table, version>>
    BY <1>4 DEF TouchGenerated
  <2>2. CASE UNCHANGED models
    BY <1>1, <2>1, <2>2 DEF ToolsInv
  <2>3. ASSUME NEW t \in DOMAIN models, NEW k \in 1 .. 3, NEW held \in {Missing, Damaged},
               models' = [models EXCEPT ![t][k] = held]
        PROVE  ToolsInv'
    <3>1. held \in Int
      BY DEF Missing, Damaged
    <3>2. [models[t] EXCEPT ![k] = held] \in [1 .. 3 -> Int]
      BY <1>1, <3>1 DEF ToolsInv
    <3>3. models' = [models EXCEPT ![t] = [models[t] EXCEPT ![k] = held]]
      BY <2>3
    <3>. QED  BY <1>1, <2>1, <3>2, <3>3 DEF ToolsInv
  <2>. QED  BY <1>4, <2>2, <2>3 DEF TouchGenerated
<1>5. CASE GenerateModels \/ GenerateKilled
  <2>1. UNCHANGED <<table, version>>
    BY <1>5 DEF GenerateModels, GenerateKilled, sources
  <2>2. PICK count, damaged : models' = WriteModels(table, models, version, count, damaged)
    BY <1>5 DEF GenerateModels, GenerateKilled
  <2>. QED  BY <1>1, <2>1, <2>2, WrittenType DEF ToolsInv
<1>6. CASE RemoveOrphans
  BY <1>1, <1>6 DEF RemoveOrphans, ToolsInv, sources
<1>7. CASE EditCheckpoints \/ EditMission \/ EditLaunch \/ EditTemplate \/ ComposeWorld \/ ComposeKilled
  BY <1>2, <1>7 DEF EditCheckpoints, EditMission, EditLaunch, EditTemplate, ComposeWorld,
     ComposeKilled, sources, sourcesButCheckpoints, generated
<1>. QED  BY <1>1, <1>2, <1>3, <1>4, <1>5, <1>6, <1>7 DEF Next, Authors, Tools, configVars

\* The three parts of a clean gate, given sources that can be built.
Regenerated == \A t \in DOMAIN table : t \in DOMAIN models /\ \A k \in 1 .. 3 : models[t][k] = version
NoOrphans == DOMAIN models \subseteq DOMAIN table
Composed == WorldInSync(checkpoints, template, models, world)

LEMMA GateParts == Buildable => (GateClean <=> Regenerated /\ NoOrphans /\ Composed)
BY DEF Buildable, GateClean, ModelsInSync, Regenerated, NoOrphans, Composed

\* Tags numbered without a gap are numbered without a repeat.
LEMMA TagsDistinct ==
  ASSUME DocumentsOK, DesignHolds(checkpoints)
  PROVE  UniqueMarkerTags(checkpoints.rows)
<1>. DEFINE n == Len(checkpoints.rows)
            tag == [i \in 1 .. n |-> MarkerTag(checkpoints.rows[i])]
<1>1. n \in Nat
  BY DEF DocumentsOK
<1>2. {MarkerTag(checkpoints.rows[i]) : i \in 1 .. n} = 0 .. n - 1
  BY DEF DesignHolds
<1>. HIDE DEF n
<1>3. tag \in Surjection(1 .. n, 0 .. n - 1)
  BY <1>2 DEF Surjection
<1>4. IsFiniteSet(1 .. n) /\ Cardinality(1 .. n) = n /\ Cardinality(0 .. n - 1) = n
  <2>1. 0 \in Int /\ 1 \in Int /\ n \in Int /\ n - 1 \in Int
    BY <1>1
  <2>2. /\ IsFiniteSet(1 .. n) /\ Cardinality(1 .. n) = IF 1 > n THEN 0 ELSE n - 1 + 1
        /\ Cardinality(0 .. n - 1) = IF 0 > n - 1 THEN 0 ELSE n - 1 - 0 + 1
    BY <2>1, FS_Interval
  <2>. QED  BY <1>1, <2>2
<1>. HIDE DEF tag
<1>5. tag \in Injection(1 .. n, 0 .. n - 1)
  BY <1>3, <1>4, FS_Surjection
<1>6. IsInjective(tag)
  BY <1>5 DEF Injection
<1>. QED  BY <1>6 DEF UniqueMarkerTags, tag, n

\* Once the models are there the composer refuses nothing: it looks for their
\* directories, and the design leaves no tag twice.
LEMMA Composable ==
  DocumentsOK /\ Buildable /\ Regenerated => CanRender(checkpoints, template, models)
BY TagsDistinct DEF Buildable, Regenerated, CanRender

LEMMA GenerateHelps ==
  ASSUME ToolsInv, Buildable, GenerateModels
  PROVE  Regenerated' /\ (NoOrphans => NoOrphans') /\ (Composed => Composed')
<1>1. UNCHANGED <<checkpoints, template, table, version, world>>
  BY DEF GenerateModels, sources
<1>2. /\ DOMAIN models' = DOMAIN models \cup DOMAIN table
      /\ \A t \in DOMAIN table : models'[t] = [k \in 1 .. 3 |-> version]
  BY WrittenWhole DEF Buildable
<1>. QED  BY <1>1, <1>2 DEF Regenerated, NoOrphans, Composed, WorldInSync, CanRender

LEMMA RemoveHelps ==
  ASSUME Buildable, RemoveOrphans
  PROVE  NoOrphans' /\ (Regenerated => Regenerated') /\ (Composed => Composed')
<1>1. UNCHANGED <<checkpoints, template, table, version, world>>
      /\ models' = [t \in DOMAIN models \cap DOMAIN table |-> models[t]]
  BY DEF RemoveOrphans, sources
<1>. QED  BY <1>1 DEF Regenerated, NoOrphans, Composed, WorldInSync, CanRender, Buildable

LEMMA ComposeHelps ==
  ASSUME ComposeWorld
  PROVE  Composed' /\ (Regenerated => Regenerated') /\ (NoOrphans => NoOrphans')
BY DEF ComposeWorld, sources, Regenerated, NoOrphans, Composed, WorldInSync

\* The advice makes headway in any order: over sources that can be built, each
\* of the three tools, run to its end, brings about its part of a clean gate and
\* keeps the others, the composer is refused nothing once the models are there,
\* and the three parts together are a clean gate.  (AdviceRepairs adds that they
\* come about, which needs fairness.)
AdviceMakesHeadway ==
  [][Buildable =>
       /\ GenerateModels => Regenerated'
       /\ RemoveOrphans => NoOrphans'
       /\ ComposeWorld => Composed'
       /\ Regenerated => CanRender(checkpoints, template, models)
       /\ Advice => /\ Regenerated => Regenerated'
                    /\ NoOrphans => NoOrphans'
                    /\ Composed => Composed'
       /\ GateClean <=> Regenerated /\ NoOrphans /\ Composed]_configVars

\* Each tool by itself.
THEOREM AdviceHelps == Spec => AdviceMakesHeadway
<1>. DEFINE Headway ==
       Buildable =>
         /\ GenerateModels => Regenerated'
         /\ RemoveOrphans => NoOrphans'
         /\ ComposeWorld => Composed'
         /\ Regenerated => CanRender(checkpoints, template, models)
         /\ Advice => /\ Regenerated => Regenerated'
                      /\ NoOrphans => NoOrphans'
                      /\ Composed => Composed'
         /\ GateClean <=> Regenerated /\ NoOrphans /\ Composed
<1>1. DocumentsOK /\ ToolsInv => [Headway]_configVars
  BY GateParts, Composable, GenerateHelps, RemoveHelps, ComposeHelps DEF Advice
<1>2. Spec => []ToolsInv
  BY ToolsInitial, ToolsStep, PTL DEF Spec
<1>3. Spec => [][Headway]_configVars
  BY <1>1, <1>2, DocumentsTyped, PTL
<1>. QED  BY <1>3 DEF AdviceMakesHeadway

\* Every file the generator would write is there already.
THEOREM CleanStaysClean == Spec => CleanIsFixed
<1>1. ToolsInv => [GateClean /\ Advice => UNCHANGED configVars]_configVars
  <2>1. SUFFICES ASSUME ToolsInv, GateClean, Advice  PROVE UNCHANGED configVars
    OBVIOUS
  <2>2. /\ Square(table) /\ DOMAIN models = DOMAIN table
        /\ \A t \in DOMAIN table : \A k \in 1 .. 3 : models[t][k] = version
        /\ world = RenderWorld(checkpoints, template)
    BY <2>1 DEF GateClean, ModelsInSync, WorldInSync
  <2>3. CASE ComposeWorld
    BY <2>2, <2>3 DEF ComposeWorld, configVars, sources
  <2>4. CASE RemoveOrphans
    <3>1. models' = [t \in DOMAIN models |-> models[t]]
      BY <2>2, <2>4 DEF RemoveOrphans
    <3>2. models' = models
      BY <2>1, <3>1 DEF ToolsInv
    <3>. QED  BY <2>4, <3>2 DEF RemoveOrphans, configVars, sources
  <2>5. CASE GenerateModels
    <3>1. \A t \in DOMAIN models : models[t] = [k \in 1 .. 3 |-> version]
      BY <2>1, <2>2 DEF ToolsInv
    <3>2. /\ DOMAIN models' = DOMAIN models
          /\ \A t \in DOMAIN models : models'[t] = models[t]
      BY <2>1, <2>2, <2>5, <3>1, WrittenWhole
    <3>3. models' = [t \in DOMAIN models' |-> models'[t]]
      BY <2>5 DEF GenerateModels, WriteModels
    <3>4. models' = models
      BY <2>1, <3>2, <3>3 DEF ToolsInv
    <3>. QED  BY <2>5, <3>4 DEF GenerateModels, configVars, sources
  <2>. QED  BY <2>1, <2>3, <2>4, <2>5 DEF Advice
<1>2. Spec => []ToolsInv
  BY ToolsInitial, ToolsStep, PTL DEF Spec
<1>3. Spec => [][GateClean /\ Advice => UNCHANGED configVars]_configVars
  BY <1>1, <1>2, PTL
<1>. QED  BY <1>3 DEF CleanIsFixed
=============================================================================
