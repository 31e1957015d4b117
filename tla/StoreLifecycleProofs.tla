------------------------ MODULE StoreLifecycleProofs ------------------------
(***************************************************************************)
(* Proofs about StoreLifecycle, for any number of processes, every earlier *)
(* schema of the file and any number of faults and crashes.                *)
(***************************************************************************)
EXTENDS StoreLifecycle, SequenceTheorems, TLAPS

\* What statement s is for is in the file.
Established(s) ==
    /\ s \in SchemaObjects => s \in objects
    /\ s.kind = "alter" => \A n \in s.names : Column(s.table, n) \in columns

\* What a start without a fault leaves behind, also when it fails.
Upgraded == (\A t \in ToSet(Tables) : HasTable(t)) /\ ToSet(Upgrades) \subseteq columns

\* A start that is well so far has established all it has passed; one that met
\* no fault has the tables and the columns, also when an index failed; and one
\* that began after an undisturbed start has not failed anywhere.
StartOK(p) ==
    /\ store[p].state = "initializing" =>
          /\ store[p].pos >= 1
          /\ store[p].ok => \A k \in 1..(store[p].pos - 1) : Established(Statements[k])
          /\ ~store[p].faulted =>
                \A k \in 1..(store[p].pos - 1) :
                    Statements[k].kind \in {"table", "alter"} => Established(Statements[k])
          /\ store[p].late /\ ~store[p].faulted => store[p].ok /\ ~store[p].alter
    /\ store[p].state = "ready" => \A k \in 1..Len(Statements) : Established(Statements[k])
    /\ store[p].late => undisturbed
    /\ store[p].state = "failed" /\ store[p].late => store[p].faulted

LifecycleInv == TypeOK /\ (undisturbed => Upgraded) /\ \A p \in Procs : StartOK(p)

-----------------------------------------------------------------------------
(* The list of statements.                                                 *)

Kinds == {"pragma", "table", "index", "alter", "fts", "trigger"}
Names == {"journal_mode", "synchronous", "cache_size", "agent_id", "active", "superseded_by",
          "source_refs_json", "metadata_json", "ai", "ad", "au"}
AnyTable == {"", "memory_events", "memory_payloads", "memory_summaries", "memory_entities",
             "memory_relations", "memory_consolidation_cursors"}
AnyStatement == [kind : Kinds, table : AnyTable, names : SUBSET Names]

\* Tuples are sequences.
LEMMA Triples ==
    ASSUME NEW S, NEW a \in S, NEW b \in S, NEW c \in S
    PROVE  <<a, b, c>> \in Seq(S) /\ Len(<<a, b, c>>) = 3
OBVIOUS

\* See Triples.
LEMMA Quadruples ==
    ASSUME NEW S, NEW a \in S, NEW b \in S, NEW c \in S, NEW d \in S
    PROVE  <<a, b, c, d>> \in Seq(S) /\ Len(<<a, b, c, d>>) = 4
OBVIOUS

\* See Triples.
LEMMA Sextuples ==
    ASSUME NEW S, NEW a \in S, NEW b \in S, NEW c \in S, NEW d \in S, NEW e \in S, NEW f \in S
    PROVE  <<a, b, c, d, e, f>> \in Seq(S) /\ Len(<<a, b, c, d, e, f>>) = 6
OBVIOUS

\* The columns and the tables, one by one.
LEMMA TheUpgrades ==
    /\ Len(Upgrades) = 8 /\ DOMAIN Upgrades = 1..8
    /\ Upgrades[1] = Column("memory_entities", "agent_id")
    /\ Upgrades[2] = Column("memory_entities", "active")
    /\ Upgrades[3] = Column("memory_entities", "superseded_by")
    /\ Upgrades[4] = Column("memory_entities", "source_refs_json")
    /\ Upgrades[5] = Column("memory_relations", "agent_id")
    /\ Upgrades[6] = Column("memory_relations", "active")
    /\ Upgrades[7] = Column("memory_relations", "source_refs_json")
    /\ Upgrades[8] = Column("memory_relations", "metadata_json")
BY DEF Upgrades

\* See TheUpgrades.
LEMMA TheTables ==
    /\ Len(Tables) = 6 /\ DOMAIN Tables = 1..6
    /\ Tables[1] = "memory_events" /\ Tables[2] = "memory_payloads" /\ Tables[3] = "memory_summaries"
    /\ Tables[4] = "memory_entities" /\ Tables[5] = "memory_relations"
    /\ Tables[6] = "memory_consolidation_cursors"
BY DEF Tables

\* The parts of the list are sequences of statements, this long.
LEMMA Parts ==
    /\ Pragmas \in Seq(AnyStatement) /\ Len(Pragmas) = 3
    /\ CreateTables \in Seq(AnyStatement) /\ Len(CreateTables) = 6
    /\ CreateIndexes \in Seq(AnyStatement) /\ Len(CreateIndexes) = 6
    /\ AddColumns \in Seq(AnyStatement) /\ Len(AddColumns) = 8
    /\ \A t \in AnyTable : FullText(t) \in Seq(AnyStatement) /\ Len(FullText(t)) = 4
<1>1. \A kind \in Kinds, t \in AnyTable, names \in SUBSET Names : Statement(kind, t, names) \in AnyStatement
  BY DEF Statement, AnyStatement
<1>2. Pragmas \in Seq(AnyStatement) /\ Len(Pragmas) = 3
  <2>1. Statement("pragma", "", {"journal_mode"}) \in AnyStatement
    BY <1>1 DEF Kinds, AnyTable, Names
  <2>2. Statement("pragma", "", {"synchronous"}) \in AnyStatement
    BY <1>1 DEF Kinds, AnyTable, Names
  <2>3. Statement("pragma", "", {"cache_size"}) \in AnyStatement
    BY <1>1 DEF Kinds, AnyTable, Names
  <2>4. QED
    BY <2>1, <2>2, <2>3, Triples, Zenon DEF Pragmas
<1>3. CreateTables \in Seq(AnyStatement) /\ Len(CreateTables) = 6
  <2>1. Len(Tables) = 6
    BY DEF Tables
  <2>2. \A k \in 1..Len(Tables) : Tables[k] \in AnyTable
    <3>1. Tables \in Seq(AnyTable)
      BY DEF Tables, AnyTable
    <3>2. QED
      BY <3>1
  <2>3. \A k \in 1..Len(Tables) : Statement("table", Tables[k], {}) \in AnyStatement
    BY <1>1, <2>2 DEF Kinds
  <2>4. QED
    BY <2>1, <2>3 DEF CreateTables
<1>4. CreateIndexes \in Seq(AnyStatement) /\ Len(CreateIndexes) = 6
  <2>1. /\ Statement("index", "memory_events", {}) \in AnyStatement
        /\ Statement("index", "memory_payloads", {}) \in AnyStatement
        /\ Statement("index", "memory_summaries", {}) \in AnyStatement
    BY <1>1 DEF Kinds, AnyTable
  <2>2. Statement("index", "memory_entities", {"agent_id", "active"}) \in AnyStatement
    BY <1>1 DEF Kinds, AnyTable, Names
  <2>3. Statement("index", "memory_relations", {"agent_id", "active"}) \in AnyStatement
    BY <1>1 DEF Kinds, AnyTable, Names
  <2>4. Statement("index", "memory_relations", {"active"}) \in AnyStatement
    BY <1>1 DEF Kinds, AnyTable, Names
  <2>5. QED
    BY <2>1, <2>2, <2>3, <2>4, Sextuples, Zenon DEF CreateIndexes
<1>5. AddColumns \in Seq(AnyStatement) /\ Len(AddColumns) = 8
  <2>1. Len(Upgrades) = 8
    BY DEF Upgrades
  <2>2. ASSUME NEW k \in 1..8
        PROVE  Upgrades[k].table \in AnyTable /\ Upgrades[k].name \in Names
    <3>1. k \in {1, 2, 3, 4, 5, 6, 7, 8}
      OBVIOUS
    <3>2. \A t, c : Column(t, c).table = t /\ Column(t, c).name = c
      BY DEF Column
    <3>3. Upgrades[k].table \in AnyTable
      <4>1. {"memory_entities", "memory_relations"} \subseteq AnyTable
        BY DEF AnyTable
      <4>2. Upgrades[k].table \in {"memory_entities", "memory_relations"}
        BY <3>1, <3>2, TheUpgrades
      <4>3. QED
        BY <4>1, <4>2
    <3>4. Upgrades[k].name \in Names
      BY <3>1, <3>2, TheUpgrades DEF Names
    <3>5. QED
      BY <3>3, <3>4
  <2>3. \A k \in 1..Len(Upgrades) : Statement("alter", Upgrades[k].table, {Upgrades[k].name}) \in AnyStatement
    BY <1>1, <2>1, <2>2 DEF Kinds
  <2>4. QED
    BY <2>1, <2>3 DEF AddColumns
<1>6. ASSUME NEW t \in AnyTable
      PROVE  FullText(t) \in Seq(AnyStatement) /\ Len(FullText(t)) = 4
  <2>1. Statement("fts", t, {}) \in AnyStatement
    BY <1>1 DEF Kinds
  <2>2. Statement("trigger", t, {"ai"}) \in AnyStatement
    BY <1>1 DEF Kinds, Names
  <2>3. Statement("trigger", t, {"ad"}) \in AnyStatement
    BY <1>1 DEF Kinds, Names
  <2>4. Statement("trigger", t, {"au"}) \in AnyStatement
    BY <1>1 DEF Kinds, Names
  <2>5. QED
    BY <2>1, <2>2, <2>3, <2>4, Quadruples, Zenon DEF FullText
<1>7. QED
  BY <1>2, <1>3, <1>4, <1>5, <1>6, Zenon

\* Which statement stands where.
LEMMA Positions ==
    /\ Len(Chain) = 15 /\ Len(Statements) = 35 /\ DOMAIN Statements = 1..35
    /\ \A k \in 1..3 : Statements[k] = Pragmas[k]
    /\ \A k \in 4..9 : Statements[k] = CreateTables[k - 3]
    /\ \A k \in 10..15 : Statements[k] = CreateIndexes[k - 9]
    /\ \A k \in 16..23 : Statements[k] = AddColumns[k - 15]
    /\ \A k \in 24..27 : Statements[k] = FullText("memory_summaries")[k - 23]
    /\ \A k \in 28..31 : Statements[k] = FullText("memory_entities")[k - 27]
    /\ \A k \in 32..35 : Statements[k] = FullText("memory_relations")[k - 31]
<1> DEFINE fs == FullText("memory_summaries")
           fe == FullText("memory_entities")
           fr == FullText("memory_relations")
           pt == Pragmas \o CreateTables
           se == fs \o fe
           ca == Chain \o AddColumns
<1>0. /\ Len(fs) = 4 /\ fs \in Seq(AnyStatement)
      /\ Len(fe) = 4 /\ fe \in Seq(AnyStatement)
      /\ Len(fr) = 4 /\ fr \in Seq(AnyStatement)
  <2>1. {"memory_summaries", "memory_entities", "memory_relations"} \subseteq AnyTable
    BY DEF AnyTable
  <2>2. QED
    BY <2>1, Parts, Zenon
<1> HIDE DEF fs, fe, fr
<1>1. /\ pt \in Seq(AnyStatement)
      /\ Len(pt) = 9
      /\ \A i \in 1..9 : pt[i] = IF i <= 3 THEN Pragmas[i] ELSE CreateTables[i - 3]
  <2>1. pt = Pragmas \o CreateTables
    OBVIOUS
  <2> HIDE DEF pt
  <2>2. Pragmas \in Seq(AnyStatement) /\ CreateTables \in Seq(AnyStatement)
    BY Parts
  <2>3. pt \in Seq(AnyStatement)
    BY <2>1, <2>2, ConcatProperties, Zenon
  <2>4. Len(pt) = Len(Pragmas) + Len(CreateTables)
    BY <2>1, <2>2, ConcatProperties, Zenon
  <2>5. \A i \in 1..(Len(Pragmas) + Len(CreateTables)) :
           pt[i] = IF i <= Len(Pragmas) THEN Pragmas[i] ELSE CreateTables[i - Len(Pragmas)]
    BY <2>1, <2>2, ConcatProperties, Zenon
  <2>6. Len(Pragmas) = 3
    BY Parts
  <2>7. Len(CreateTables) = 6
    BY Parts
  <2>8. Len(pt) = 9
    BY <2>4, <2>6, <2>7
  <2>9. \A i \in 1..9 : pt[i] = IF i <= 3 THEN Pragmas[i] ELSE CreateTables[i - 3]
    BY <2>5, <2>6, <2>7
  <2>10. QED
    BY <2>3, <2>8, <2>9, Zenon
<1>2. /\ Chain \in Seq(AnyStatement)
      /\ Len(Chain) = 15
      /\ \A i \in 1..15 : Chain[i] = IF i <= 9 THEN pt[i] ELSE CreateIndexes[i - 9]
  <2>1. Chain = pt \o CreateIndexes
    BY DEF Chain
  <2> HIDE DEF pt
  <2>2. pt \in Seq(AnyStatement) /\ CreateIndexes \in Seq(AnyStatement)
    BY <1>1, Parts
  <2>3. Chain \in Seq(AnyStatement)
    BY <2>1, <2>2, ConcatProperties, Zenon
  <2>4. Len(Chain) = Len(pt) + Len(CreateIndexes)
    BY <2>1, <2>2, ConcatProperties, Zenon
  <2>5. \A i \in 1..(Len(pt) + Len(CreateIndexes)) :
           Chain[i] = IF i <= Len(pt) THEN pt[i] ELSE CreateIndexes[i - Len(pt)]
    BY <2>1, <2>2, ConcatProperties, Zenon
  <2>6. Len(pt) = 9
    BY <1>1
  <2>7. Len(CreateIndexes) = 6
    BY Parts
  <2>8. Len(Chain) = 15
    BY <2>4, <2>6, <2>7
  <2>9. \A i \in 1..15 : Chain[i] = IF i <= 9 THEN pt[i] ELSE CreateIndexes[i - 9]
    BY <2>5, <2>6, <2>7
  <2>10. QED
    BY <2>3, <2>8, <2>9, Zenon
<1>3. /\ se \in Seq(AnyStatement)
      /\ Len(se) = 8
      /\ \A i \in 1..8 : se[i] = IF i <= 4 THEN fs[i] ELSE fe[i - 4]
  <2>1. se = fs \o fe
    OBVIOUS
  <2> HIDE DEF se
  <2>2. fs \in Seq(AnyStatement) /\ fe \in Seq(AnyStatement)
    BY <1>0
  <2>3. se \in Seq(AnyStatement)
    BY <2>1, <2>2, ConcatProperties, Zenon
  <2>4. Len(se) = Len(fs) + Len(fe)
    BY <2>1, <2>2, ConcatProperties, Zenon
  <2>5. \A i \in 1..(Len(fs) + Len(fe)) :
           se[i] = IF i <= Len(fs) THEN fs[i] ELSE fe[i - Len(fs)]
    BY <2>1, <2>2, ConcatProperties, Zenon
  <2>6. Len(fs) = 4
    BY <1>0
  <2>7. Len(fe) = 4
    BY <1>0
  <2>8. Len(se) = 8
    BY <2>4, <2>6, <2>7
  <2>9. \A i \in 1..8 : se[i] = IF i <= 4 THEN fs[i] ELSE fe[i - 4]
    BY <2>5, <2>6, <2>7
  <2>10. QED
    BY <2>3, <2>8, <2>9, Zenon
<1>4. /\ FullTexts \in Seq(AnyStatement)
      /\ Len(FullTexts) = 12
      /\ \A i \in 1..12 : FullTexts[i] = IF i <= 8 THEN se[i] ELSE fr[i - 8]
  <2>1. FullTexts = se \o fr
    BY DEF FullTexts, fr, se, fs, fe
  <2> HIDE DEF se
  <2>2. se \in Seq(AnyStatement) /\ fr \in Seq(AnyStatement)
    BY <1>3, <1>0
  <2>3. FullTexts \in Seq(AnyStatement)
    BY <2>1, <2>2, ConcatProperties, Zenon
  <2>4. Len(FullTexts) = Len(se) + Len(fr)
    BY <2>1, <2>2, ConcatProperties, Zenon
  <2>5. \A i \in 1..(Len(se) + Len(fr)) :
           FullTexts[i] = IF i <= Len(se) THEN se[i] ELSE fr[i - Len(se)]
    BY <2>1, <2>2, ConcatProperties, Zenon
  <2>6. Len(se) = 8
    BY <1>3
  <2>7. Len(fr) = 4
    BY <1>0
  <2>8. Len(FullTexts) = 12
    BY <2>4, <2>6, <2>7
  <2>9. \A i \in 1..12 : FullTexts[i] = IF i <= 8 THEN se[i] ELSE fr[i - 8]
    BY <2>5, <2>6, <2>7
  <2>10. QED
    BY <2>3, <2>8, <2>9, Zenon
<1>5. /\ ca \in Seq(AnyStatement)
      /\ Len(ca) = 23
      /\ \A i \in 1..23 : ca[i] = IF i <= 15 THEN Chain[i] ELSE AddColumns[i - 15]
  <2>1. ca = Chain \o AddColumns
    OBVIOUS
  <2> HIDE DEF ca
  <2>2. Chain \in Seq(AnyStatement) /\ AddColumns \in Seq(AnyStatement)
    BY <1>2, Parts
  <2>3. ca \in Seq(AnyStatement)
    BY <2>1, <2>2, ConcatProperties, Zenon
  <2>4. Len(ca) = Len(Chain) + Len(AddColumns)
    BY <2>1, <2>2, ConcatProperties, Zenon
  <2>5. \A i \in 1..(Len(Chain) + Len(AddColumns)) :
           ca[i] = IF i <= Len(Chain) THEN Chain[i] ELSE AddColumns[i - Len(Chain)]
    BY <2>1, <2>2, ConcatProperties, Zenon
  <2>6. Len(Chain) = 15
    BY <1>2
  <2>7. Len(AddColumns) = 8
    BY Parts
  <2>8. Len(ca) = 23
    BY <2>4, <2>6, <2>7
  <2>9. \A i \in 1..23 : ca[i] = IF i <= 15 THEN Chain[i] ELSE AddColumns[i - 15]
    BY <2>5, <2>6, <2>7
  <2>10. QED
    BY <2>3, <2>8, <2>9, Zenon
<1>6. /\ Statements \in Seq(AnyStatement)
      /\ Len(Statements) = 35
      /\ \A i \in 1..35 : Statements[i] = IF i <= 23 THEN ca[i] ELSE FullTexts[i - 23]
  <2>1. Statements = ca \o FullTexts
    BY DEF Statements
  <2> HIDE DEF ca
  <2>2. ca \in Seq(AnyStatement) /\ FullTexts \in Seq(AnyStatement)
    BY <1>5, <1>4
  <2>3. Statements \in Seq(AnyStatement)
    BY <2>1, <2>2, ConcatProperties, Zenon
  <2>4. Len(Statements) = Len(ca) + Len(FullTexts)
    BY <2>1, <2>2, ConcatProperties, Zenon
  <2>5. \A i \in 1..(Len(ca) + Len(FullTexts)) :
           Statements[i] = IF i <= Len(ca) THEN ca[i] ELSE FullTexts[i - Len(ca)]
    BY <2>1, <2>2, ConcatProperties, Zenon
  <2>6. Len(ca) = 23
    BY <1>5
  <2>7. Len(FullTexts) = 12
    BY <1>4
  <2>8. Len(Statements) = 35
    BY <2>4, <2>6, <2>7
  <2>9. \A i \in 1..35 : Statements[i] = IF i <= 23 THEN ca[i] ELSE FullTexts[i - 23]
    BY <2>5, <2>6, <2>7
  <2>10. QED
    BY <2>3, <2>8, <2>9, Zenon
<1> HIDE DEF pt, se, ca
<1> USE DEF fs, fe, fr
<1>7. DOMAIN Statements = 1..Len(Statements)
  BY <1>6
<1>8. (\A k \in 1..23 : Statements[k] = ca[k]) /\ (\A k \in 24..35 : Statements[k] = FullTexts[k - 23])
  <2>1. \A i \in 1..35 : Statements[i] = IF i <= 23 THEN ca[i] ELSE FullTexts[i - 23]
    BY <1>6, Zenon
  <2>2. QED
    BY <2>1
<1>9. \A k \in 1..15 : Statements[k] = Chain[k]
  <2>1. \A i \in 1..23 : ca[i] = IF i <= 15 THEN Chain[i] ELSE AddColumns[i - 15]
    BY <1>5, Zenon
  <2>2. QED
    BY <1>8, <2>1
<1>10. \A k \in 1..9 : Statements[k] = pt[k]
  BY <1>2, <1>9
<1>11. \A k \in 1..3 : Statements[k] = Pragmas[k]
  BY <1>1, <1>10
<1>12. \A k \in 4..9 : Statements[k] = CreateTables[k - 3]
  BY <1>1, <1>10
<1>13. \A k \in 10..15 : Statements[k] = CreateIndexes[k - 9]
  BY <1>2, <1>9
<1>14. \A k \in 16..23 : Statements[k] = AddColumns[k - 15]
  <2>1. \A i \in 1..23 : ca[i] = IF i <= 15 THEN Chain[i] ELSE AddColumns[i - 15]
    BY <1>5, Zenon
  <2>2. QED
    BY <1>8, <2>1
<1>15. \A k \in 24..35 : Statements[k] = FullTexts[k - 23]
  BY <1>8
<1>16. \A k \in 24..31 : Statements[k] = se[k - 23]
  BY <1>4, <1>15
<1>17. \A k \in 24..27 : Statements[k] = FullText("memory_summaries")[k - 23]
  BY <1>3, <1>16
<1>18. \A k \in 28..31 : Statements[k] = FullText("memory_entities")[k - 27]
  <2>1. \A k \in 28..31 : (k - 23) - 4 = k - 27 /\ k - 23 \in 1..8 /\ ~(k - 23 <= 4)
    OBVIOUS
  <2>2. QED
    BY <1>3, <1>16, <2>1
<1>19. \A k \in 32..35 : Statements[k] = FullText("memory_relations")[k - 31]
  <2>1. \A k \in 32..35 : (k - 23) - 8 = k - 31 /\ k - 23 \in 1..12 /\ ~(k - 23 <= 8)
    OBVIOUS
  <2>2. QED
    BY <1>4, <1>15, <2>1
<1>20. QED
  BY <1>2, <1>6, <1>7, <1>11, <1>12, <1>13, <1>14, <1>17, <1>18, <1>19

\* The kinds of the statements by position, and what they are about.
LEMMA KindsByPosition ==
    /\ \A k \in 1..3 : Statements[k].kind = "pragma"
    /\ \A k \in 4..9 : Statements[k] = Statement("table", Tables[k - 3], {})
    /\ \A k \in 10..15 : /\ Statements[k].kind = "index"
                         /\ \A n \in Statements[k].names : Column(Statements[k].table, n) \in ToSet(Upgrades)
    /\ \A k \in 16..23 : Statements[k] = Statement("alter", Upgrades[k - 15].table, {Upgrades[k - 15].name})
    /\ \A k \in 24..35 : /\ Statements[k].kind \in {"fts", "trigger"}
                         /\ Statements[k].table \in ToSet(Tables)
<1>1. ASSUME NEW k \in 1..3
      PROVE  Statements[k].kind = "pragma"
  <2>1. k \in {1, 2, 3} /\ Statements[k] = Pragmas[k]
    BY Positions
  <2>2. Pragmas[1].kind = "pragma" /\ Pragmas[2].kind = "pragma" /\ Pragmas[3].kind = "pragma"
    BY DEF Pragmas, Statement
  <2>3. QED
    BY <2>1, <2>2
<1>2. ASSUME NEW k \in 4..9
      PROVE  Statements[k] = Statement("table", Tables[k - 3], {})
  <2>1. Statements[k] = CreateTables[k - 3] /\ k - 3 \in 1..Len(Tables)
    BY Positions, TheTables
  <2>2. QED
    BY <2>1 DEF CreateTables
<1>3. ASSUME NEW k \in 10..15
      PROVE  /\ Statements[k].kind = "index"
             /\ \A n \in Statements[k].names : Column(Statements[k].table, n) \in ToSet(Upgrades)
  <2>1. k - 9 \in {1, 2, 3, 4, 5, 6} /\ Statements[k] = CreateIndexes[k - 9]
    BY Positions
  <2>2. /\ CreateIndexes[1] = Statement("index", "memory_events", {})
        /\ CreateIndexes[2] = Statement("index", "memory_payloads", {})
        /\ CreateIndexes[3] = Statement("index", "memory_summaries", {})
        /\ CreateIndexes[4] = Statement("index", "memory_entities", {"agent_id", "active"})
        /\ CreateIndexes[5] = Statement("index", "memory_relations", {"agent_id", "active"})
        /\ CreateIndexes[6] = Statement("index", "memory_relations", {"active"})
    BY DEF CreateIndexes
  <2>3. /\ Column("memory_entities", "agent_id") \in ToSet(Upgrades)
        /\ Column("memory_entities", "active") \in ToSet(Upgrades)
        /\ Column("memory_relations", "agent_id") \in ToSet(Upgrades)
        /\ Column("memory_relations", "active") \in ToSet(Upgrades)
    <3>1. 1 \in 1..8 /\ 2 \in 1..8 /\ 5 \in 1..8 /\ 6 \in 1..8
      OBVIOUS
    <3>2. QED
      BY <3>1, TheUpgrades DEF ToSet
  <2>4. \A t, N : /\ Statement("index", t, N).kind = "index" /\ Statement("index", t, N).table = t
                  /\ Statement("index", t, N).names = N
    BY DEF Statement
  <2>5. QED
    BY <2>1, <2>2, <2>3, <2>4
<1>4. ASSUME NEW k \in 16..23
      PROVE  Statements[k] = Statement("alter", Upgrades[k - 15].table, {Upgrades[k - 15].name})
  <2>1. Statements[k] = AddColumns[k - 15] /\ k - 15 \in 1..Len(Upgrades)
    BY Positions, TheUpgrades
  <2>2. QED
    BY <2>1 DEF AddColumns
<1>5. ASSUME NEW t, NEW k \in {1, 2, 3, 4}
      PROVE  FullText(t)[k].kind \in {"fts", "trigger"} /\ FullText(t)[k].table = t
  BY DEF FullText, Statement
<1>6. "memory_summaries" \in ToSet(Tables) /\ "memory_entities" \in ToSet(Tables) /\ "memory_relations" \in ToSet(Tables)
  <2>1. 3 \in 1..6 /\ 4 \in 1..6 /\ 5 \in 1..6
    OBVIOUS
  <2>2. QED
    BY <2>1, TheTables DEF ToSet
<1>7. ASSUME NEW k \in 24..35
      PROVE  Statements[k].kind \in {"fts", "trigger"} /\ Statements[k].table \in ToSet(Tables)
  <2>1. CASE k \in 24..27
    <3>1. k - 23 \in {1, 2, 3, 4} /\ Statements[k] = FullText("memory_summaries")[k - 23]
      BY <2>1, Positions
    <3>2. QED
      BY <1>5, <1>6, <3>1
  <2>2. CASE k \in 28..31
    <3>1. k - 27 \in {1, 2, 3, 4} /\ Statements[k] = FullText("memory_entities")[k - 27]
      BY <2>2, Positions
    <3>2. QED
      BY <1>5, <1>6, <3>1
  <2>3. CASE k \in 32..35
    <3>1. k - 31 \in {1, 2, 3, 4} /\ Statements[k] = FullText("memory_relations")[k - 31]
      BY <2>3, Positions
    <3>2. QED
      BY <1>5, <1>6, <3>1
  <2>4. QED
    BY <2>1, <2>2, <2>3
<1>8. QED
  BY <1>1, <1>2, <1>3, <1>4, <1>7

\* Tables are schema objects; an ALTER is about one column of the upgrades, of
\* one of the tables.
LEMMA SchemaFacts ==
    /\ \A k \in 1..35 : Statements[k] \in SchemaObjects <=> Statements[k].kind \notin {"pragma", "alter"}
    /\ \A o \in SchemaObjects : \E k \in 1..35 : o = Statements[k]
    /\ \A k \in 4..9 : Statements[k].kind = "table"
    /\ \A t \in ToSet(Tables) : \E k \in 4..9 : Statements[k] = Statement("table", t, {})
    /\ \A k \in 16..23 : /\ Statements[k].kind = "alter" /\ Statements[k].table \in ToSet(Tables)
                         /\ \E n : Statements[k].names = {n} /\ Column(Statements[k].table, n) \in ToSet(Upgrades)
    /\ \A c \in ToSet(Upgrades) : /\ c = Column(c.table, c.name)
                                 /\ \E k \in 16..23 : Statements[k].table = c.table /\ c.name \in Statements[k].names
<1>1. ToSet(Statements) = {Statements[k] : k \in 1..35}
  BY Positions DEF ToSet
<1>2. \A k \in 1..35 : Statements[k] \in SchemaObjects <=> Statements[k].kind \notin {"pragma", "alter"}
  BY <1>1 DEF SchemaObjects
<1>3. \A o \in SchemaObjects : \E k \in 1..35 : o = Statements[k]
  BY <1>1 DEF SchemaObjects
<1>4. \A k, t, N : Statement(k, t, N).kind = k /\ Statement(k, t, N).table = t /\ Statement(k, t, N).names = N
  BY DEF Statement
<1>5. \A k \in 4..9 : Statements[k].kind = "table"
  BY <1>4, KindsByPosition
<1>6. ASSUME NEW t \in ToSet(Tables)
      PROVE  \E k \in 4..9 : Statements[k] = Statement("table", t, {})
  <2>1. PICK i \in 1..6 : t = Tables[i]
    BY TheTables DEF ToSet
  <2>2. i + 3 \in 4..9 /\ (i + 3) - 3 = i
    OBVIOUS
  <2>3. Statements[i + 3] = Statement("table", Tables[(i + 3) - 3], {})
    BY <2>2, KindsByPosition
  <2>4. QED
    BY <2>1, <2>2, <2>3
<1>7. \A t, c : Column(t, c).table = t /\ Column(t, c).name = c
  BY DEF Column
<1>8. ASSUME NEW i \in 1..8
      PROVE  Upgrades[i] = Column(Upgrades[i].table, Upgrades[i].name) /\ Upgrades[i].table \in ToSet(Tables)
  <2>1. i \in {1, 2, 3, 4, 5, 6, 7, 8}
    OBVIOUS
  <2>2. Upgrades[i] = Column(Upgrades[i].table, Upgrades[i].name)
    BY <1>7, <2>1, TheUpgrades
  <2>3. Upgrades[i].table \in {"memory_entities", "memory_relations"}
    BY <1>7, <2>1, TheUpgrades
  <2>4. "memory_entities" \in ToSet(Tables) /\ "memory_relations" \in ToSet(Tables)
    <3>1. 4 \in 1..6 /\ 5 \in 1..6
      OBVIOUS
    <3>2. QED
      BY <3>1, TheTables DEF ToSet
  <2>5. QED
    BY <2>2, <2>3, <2>4
<1>9. \A i \in 1..8 : Upgrades[i] \in ToSet(Upgrades)
  BY TheUpgrades DEF ToSet
<1>10. ASSUME NEW k \in 16..23
       PROVE  /\ Statements[k].kind = "alter" /\ Statements[k].table \in ToSet(Tables)
              /\ \E n : Statements[k].names = {n} /\ Column(Statements[k].table, n) \in ToSet(Upgrades)
  <2>1. k - 15 \in 1..8
    OBVIOUS
  <2>2. Statements[k] = Statement("alter", Upgrades[k - 15].table, {Upgrades[k - 15].name})
    BY KindsByPosition
  <2>3. Statements[k].kind = "alter" /\ Statements[k].table = Upgrades[k - 15].table
        /\ Statements[k].names = {Upgrades[k - 15].name}
    BY <1>4, <2>2
  <2>4. QED
    BY <1>8, <1>9, <2>1, <2>3
<1>11. ASSUME NEW c \in ToSet(Upgrades)
       PROVE  /\ c = Column(c.table, c.name)
              /\ \E k \in 16..23 : Statements[k].table = c.table /\ c.name \in Statements[k].names
  <2>1. PICK i \in 1..8 : c = Upgrades[i]
    BY TheUpgrades DEF ToSet
  <2>2. i + 15 \in 16..23 /\ (i + 15) - 15 = i
    OBVIOUS
  <2>3. Statements[i + 15] = Statement("alter", Upgrades[i].table, {Upgrades[i].name})
    BY <2>2, KindsByPosition
  <2>4. QED
    BY <1>4, <1>8, <2>1, <2>2, <2>3
<1>12. QED
  BY <1>2, <1>3, <1>5, <1>6, <1>10, <1>11

-----------------------------------------------------------------------------
(* What is established.                                                    *)

\* When everything is established, the schema is complete.
LEMMA AllEstablished ==
    ASSUME TypeOK, \A k \in 1..35 : Established(Statements[k])
    PROVE  objects = SchemaObjects /\ columns = ToSet(Upgrades)
<1>1. \A o \in SchemaObjects : o \in objects
  BY SchemaFacts DEF Established
<1>2. ASSUME NEW c \in ToSet(Upgrades)
      PROVE  c \in columns
  <2>1. PICK k \in 16..23 : Statements[k].table = c.table /\ c.name \in Statements[k].names
    BY SchemaFacts
  <2>2. k \in 1..35 /\ Statements[k].kind = "alter" /\ c = Column(c.table, c.name)
    BY SchemaFacts
  <2>3. QED
    BY <2>1, <2>2 DEF Established
<1>3. QED
  BY <1>1, <1>2 DEF TypeOK

\* When the tables are, they are there for later statements.
LEMMA TablesEstablished ==
    ASSUME \A k \in 4..9 : Established(Statements[k])
    PROVE  \A t \in ToSet(Tables) : HasTable(t)
<1> SUFFICES ASSUME NEW t \in ToSet(Tables) PROVE Statement("table", t, {}) \in objects
  BY DEF HasTable
<1>1. PICK k \in 4..9 : Statements[k] = Statement("table", t, {})
  BY SchemaFacts
<1>2. k \in 1..35 /\ Statements[k].kind = "table"
  BY SchemaFacts
<1>3. Statements[k] \in SchemaObjects
  BY <1>2, SchemaFacts
<1>4. QED
  BY <1>1, <1>3 DEF Established

\* Tables and columns are what an undisturbed start leaves.
LEMMA UpgradeEstablished ==
    ASSUME \A k \in 1..35 : Statements[k].kind \in {"table", "alter"} => Established(Statements[k])
    PROVE  Upgraded
<1>1. \A k \in 4..9 : Established(Statements[k])
  BY SchemaFacts
<1>2. ASSUME NEW c \in ToSet(Upgrades)
      PROVE  c \in columns
  <2>1. PICK k \in 16..23 : Statements[k].table = c.table /\ c.name \in Statements[k].names
    BY SchemaFacts
  <2>2. k \in 1..35 /\ Statements[k].kind = "alter" /\ c = Column(c.table, c.name)
    BY SchemaFacts
  <2>3. QED
    BY <2>1, <2>2 DEF Established
<1>3. QED
  BY <1>1, <1>2, TablesEstablished DEF Upgraded

\* The file only grows, and what is established stays so.
Grown == objects \subseteq objects' /\ columns \subseteq columns'

\* See Grown.
LEMMA EstablishedStays ==
    ASSUME Grown
    PROVE  (\A s : Established(s) => Established(s)') /\ (Upgraded => Upgraded')
BY DEF Grown, Established, Upgraded, HasTable

\* An accepted statement establishes what it is for.
LEMMA ExecuteEstablishes ==
    ASSUME TypeOK, NEW k \in 1..35, Execute(Statements[k])
    PROVE  /\ Grown /\ objects' \subseteq SchemaObjects /\ columns' \subseteq ToSet(Upgrades)
           /\ Established(Statements[k])'
<1> DEFINE s == Statements[k]
<1>1. Grown /\ objects' \subseteq SchemaObjects /\ columns' \subseteq ToSet(Upgrades)
  BY DEF Grown, Execute, TypeOK
<1>2. s \in SchemaObjects => s \in objects'
  BY DEF Execute
<1>3. ASSUME s.kind = "alter", NEW n \in s.names
      PROVE  Column(s.table, n) \in columns'
  <2>1. k \in 16..23
    <3>1. \/ k \in 1..3 \/ k \in 4..9 \/ k \in 10..15 \/ k \in 16..23 \/ k \in 24..35
      OBVIOUS
    <3>2. QED
      BY <1>3, <3>1, KindsByPosition, SchemaFacts
  <2>2. Column(s.table, n) \in ToSet(Upgrades)
    BY <1>3, <2>1, SchemaFacts
  <2>3. Column(s.table, n).table = s.table /\ Column(s.table, n).name = n
    BY DEF Column
  <2>4. QED
    BY <1>3, <2>2, <2>3 DEF Execute
<1>4. QED
  BY <1>1, <1>2, <1>3 DEF Established

-----------------------------------------------------------------------------
(* Every step keeps the invariant.                                         *)

StoreRecords == [state : {"none", "initializing", "ready", "failed"}, pos : 0..36, alter : BOOLEAN,
                 ok : BOOLEAN, faulted : BOOLEAN, late : BOOLEAN]

\* Two records of stores that agree on all fields but those of F.
Same(r, st, F) ==
    /\ r \in StoreRecords
    /\ "state" \notin F => r.state = st.state
    /\ "pos" \notin F => r.pos = st.pos
    /\ "alter" \notin F => r.alter = st.alter
    /\ "ok" \notin F => r.ok = st.ok
    /\ "faulted" \notin F => r.faulted = st.faulted
    /\ "late" \notin F => r.late = st.late

\* One field replaced.
LEMMA OneField ==
    ASSUME NEW st \in StoreRecords
    PROVE  /\ \A v \in {"none", "initializing", "ready", "failed"} :
                 Same([st EXCEPT !.state = v], st, {"state"}) /\ [st EXCEPT !.state = v].state = v
           /\ \A v \in 0..36 : Same([st EXCEPT !.pos = v], st, {"pos"}) /\ [st EXCEPT !.pos = v].pos = v
           /\ \A v \in BOOLEAN : Same([st EXCEPT !.alter = v], st, {"alter"}) /\ [st EXCEPT !.alter = v].alter = v
           /\ \A v \in BOOLEAN : Same([st EXCEPT !.ok = v], st, {"ok"}) /\ [st EXCEPT !.ok = v].ok = v
           /\ \A v \in BOOLEAN : Same([st EXCEPT !.faulted = v], st, {"faulted"}) /\ [st EXCEPT !.faulted = v].faulted = v
           /\ \A v \in BOOLEAN : Same([st EXCEPT !.late = v], st, {"late"}) /\ [st EXCEPT !.late = v].late = v
BY DEF Same, StoreRecords

\* The type invariant with the length of the list as a number.
LEMMA TypeFacts ==
    /\ TypeOK <=> /\ objects \subseteq SchemaObjects /\ columns \subseteq ToSet(Upgrades)
                  /\ store \in [Procs -> StoreRecords]
                  /\ undisturbed \in BOOLEAN /\ faults \in 0..MaxFaults
    /\ TypeOK' <=> /\ objects' \subseteq SchemaObjects /\ columns' \subseteq ToSet(Upgrades)
                   /\ store' \in [Procs -> StoreRecords]
                   /\ undisturbed' \in BOOLEAN /\ faults' \in 0..MaxFaults
<1>1. Len(Statements) + 1 = 36
  <2>1. Len(Statements) = 35
    BY Positions
  <2>2. QED
    BY <2>1
<1>2. QED
  BY <1>1, Zenon DEF TypeOK, StoreRecords

\* ok and the position after a statement.
LEMMA AfterFields ==
    ASSUME NEW p \in Procs, store[p] \in StoreRecords, NEW success \in BOOLEAN, store[p].pos <= 35
    PROVE  /\ Same(After(p, success), store[p], {"pos", "alter", "ok"})
           /\ After(p, success).pos = (IF ~success /\ store[p].pos <= 15 THEN 16 ELSE store[p].pos + 1)
           /\ ~After(p, success).alter
           /\ After(p, success).ok = (store[p].ok /\ success)
<1> DEFINE st == store[p]
           q == IF ~success /\ st.pos <= Len(Chain) THEN Len(Chain) + 1 ELSE st.pos + 1
<1>1. Len(Chain) = 15
  BY Positions
<1>2. q = IF ~success /\ st.pos <= 15 THEN 16 ELSE st.pos + 1
  <2>1. Len(Chain) + 1 = 16
    BY <1>1
  <2>2. QED
    BY <1>1, <2>1
<1>3. q \in 0..36
  <2>1. st.pos \in 0..36 /\ st.pos <= 35
    BY DEF StoreRecords
  <2> HIDE DEF q
  <2>2. QED
    BY <1>2, <2>1
<1>4. (st.ok /\ success) \in BOOLEAN /\ FALSE \in BOOLEAN
  OBVIOUS
<1>5. After(p, success) = [store[p] EXCEPT !.ok = @ /\ success, !.alter = FALSE, !.pos = q]
  BY DEF After
<1> DEFINE a == [st EXCEPT !.ok = st.ok /\ success]
           b == [a EXCEPT !.alter = FALSE]
           c == [b EXCEPT !.pos = q]
<1>6. [store[p] EXCEPT !.ok = @ /\ success, !.alter = FALSE, !.pos = q] = c
  BY DEF StoreRecords
<1>7. Same(a, st, {"ok"}) /\ a.ok = (st.ok /\ success)
  BY <1>4, OneField
<1> HIDE DEF a, st, q
<1>8. Same(b, a, {"alter"}) /\ b.alter = FALSE
  BY <1>4, <1>7, OneField DEF Same
<1> HIDE DEF b
<1>9. Same(c, b, {"pos"}) /\ c.pos = q
  <2>1. b \in StoreRecords
    BY <1>8 DEF Same
  <2>2. QED
    BY <1>3, <2>1, OneField, Zenon
<1> HIDE DEF c
<1>10. /\ Same(c, st, {"pos", "alter", "ok"}) /\ c.pos = q /\ ~c.alter /\ c.ok = (st.ok /\ success)
  BY <1>7, <1>8, <1>9 DEF Same
<1>11. QED
  BY <1>2, <1>5, <1>6, <1>10 DEF st

\* The invariant of the other processes' starts.
LEMMA OthersKept ==
    ASSUME NEW q \in Procs, StartOK(q), store'[q] = store[q], Grown, undisturbed => undisturbed'
    PROVE  StartOK(q)'
<1>1. \A s : Established(s) => Established(s)'
  BY EstablishedStays
<1>2. QED
  BY <1>1 DEF StartOK

\* A step of p keeps the invariant if it keeps p's part.
LEMMA StepKeeps ==
    ASSUME LifecycleInv, NEW p \in Procs, NEW r \in StoreRecords, store' = [store EXCEPT ![p] = r],
           Grown, objects' \subseteq SchemaObjects, columns' \subseteq ToSet(Upgrades),
           faults' \in 0..MaxFaults, undisturbed' \in BOOLEAN,
           undisturbed => undisturbed', undisturbed' => Upgraded',
           store'[p] = r => StartOK(p)'
    PROVE  LifecycleInv'
<1>1. store \in [Procs -> StoreRecords]
  BY TypeFacts DEF LifecycleInv
<1>2. store' \in [Procs -> StoreRecords] /\ store'[p] = r /\ \A q \in Procs \ {p} : store'[q] = store[q]
  BY <1>1
<1>3. TypeOK'
  BY <1>2, TypeFacts
<1>4. \A q \in Procs : StartOK(q)'
  BY <1>2, OthersKept DEF LifecycleInv
<1>5. QED
  BY <1>3, <1>4 DEF LifecycleInv

\* Steps that leave the file alone and end or begin a start.
LEMMA BorderSteps ==
    ASSUME LifecycleInv, NEW p \in Procs, Open(p) \/ OpenFails(p) \/ Close(p) \/ Crash(p)
    PROVE  LifecycleInv'
<1>0. undisturbed \in BOOLEAN /\ faults \in 0..MaxFaults /\ objects \subseteq SchemaObjects
      /\ columns \subseteq ToSet(Upgrades) /\ (undisturbed => Upgraded) /\ MaxFaults \in Nat
  BY TypeFacts, MaxFaultsAssumption DEF LifecycleInv
<1>1. UNCHANGED <<objects, columns, undisturbed>> /\ faults' \in 0..MaxFaults
  BY <1>0 DEF Open, OpenFails, Close, Crash
<1>2. Grown /\ (undisturbed' => Upgraded')
  BY <1>0, <1>1 DEF Grown, Upgraded, HasTable
<1>3. ASSUME NEW r \in StoreRecords, store' = [store EXCEPT ![p] = r],
             r.state \in {"none", "initializing", "failed"},
             r.state = "initializing" => r.pos = 1 /\ r.ok /\ ~r.alter,
             r.late => undisturbed,
             r.state = "failed" => r.faulted
      PROVE  LifecycleInv'
  <2>1. store'[p] = r => StartOK(p)'
    <3>1. SUFFICES ASSUME store'[p] = r PROVE StartOK(p)'
      OBVIOUS
    <3>2. r.state = "initializing" => \A k \in 1..(r.pos - 1) : FALSE
      BY <1>3
    <3>3. QED
      BY <1>1, <1>3, <3>1, <3>2 DEF StartOK
  <2>2. QED
    BY <1>0, <1>1, <1>2, <1>3, <2>1, StepKeeps
<1>4. NoStore \in StoreRecords /\ NoStore.state = "none" /\ ~NoStore.late
  BY DEF NoStore, StoreRecords
<1>5. CASE Close(p) \/ Crash(p)
  <2>1. store' = [store EXCEPT ![p] = NoStore]
    BY <1>5 DEF Close, Crash
  <2>2. QED
    BY <1>3, <1>4, <2>1
<1>6. CASE Open(p)
  <2> DEFINE a == [NoStore EXCEPT !.state = "initializing"]
             b == [a EXCEPT !.pos = 1]
             r == [b EXCEPT !.late = undisturbed]
  <2>1. store' = [store EXCEPT ![p] = r]
    <3>1. store' = [store EXCEPT ![p] = [NoStore EXCEPT !.state = "initializing", !.pos = 1, !.late = undisturbed]]
      BY <1>6 DEF Open
    <3>2. [NoStore EXCEPT !.state = "initializing", !.pos = 1, !.late = undisturbed] = r
      BY <1>4 DEF StoreRecords
    <3>3. QED
      BY <3>1, <3>2
  <2>2. Same(a, NoStore, {"state"}) /\ a.state = "initializing"
    BY <1>4, OneField
  <2> HIDE DEF a
  <2>3. Same(b, a, {"pos"}) /\ b.pos = 1
    <3>1. a \in StoreRecords
      BY <2>2 DEF Same
    <3>2. 1 \in 0..36
      OBVIOUS
    <3>3. QED
      BY <3>1, <3>2, OneField, Zenon
  <2> HIDE DEF b
  <2>4. Same(r, b, {"late"}) /\ r.late = undisturbed
    <3>1. b \in StoreRecords
      BY <2>3 DEF Same
    <3>2. QED
      BY <1>0, <3>1, OneField, Zenon
  <2> HIDE DEF r
  <2>5. NoStore.ok /\ ~NoStore.alter
    BY DEF NoStore
  <2>6. r \in StoreRecords /\ r.state = "initializing" /\ r.pos = 1 /\ r.ok /\ ~r.alter /\ r.late = undisturbed
    BY <2>2, <2>3, <2>4, <2>5 DEF Same
  <2>7. QED
    BY <1>3, <2>1, <2>6
<1>7. CASE OpenFails(p)
  <2> DEFINE a == [NoStore EXCEPT !.state = "failed"]
             r == [a EXCEPT !.faulted = TRUE]
  <2>1. store' = [store EXCEPT ![p] = r]
    <3>1. store' = [store EXCEPT ![p] = [NoStore EXCEPT !.state = "failed", !.faulted = TRUE]]
      BY <1>7 DEF OpenFails
    <3>2. [NoStore EXCEPT !.state = "failed", !.faulted = TRUE] = r
      BY <1>4 DEF StoreRecords
    <3>3. QED
      BY <3>1, <3>2
  <2>2. Same(a, NoStore, {"state"}) /\ a.state = "failed"
    BY <1>4, OneField
  <2> HIDE DEF a
  <2>3. Same(r, a, {"faulted"}) /\ r.faulted = TRUE
    BY <2>2, OneField DEF Same
  <2> HIDE DEF r
  <2>4. r \in StoreRecords /\ r.state = "failed" /\ r.faulted /\ ~r.late
    BY <1>4, <2>2, <2>3 DEF Same
  <2>5. QED
    BY <1>3, <2>1, <2>4
<1>8. QED
  BY <1>5, <1>6, <1>7

\* A statement is behind a start, successful or not: how the start goes on.
LEMMA StatementDone ==
    ASSUME LifecycleInv, NEW p \in Procs, store[p].state = "initializing", NEW pos \in 1..35, store[p].pos = pos,
           NEW success \in BOOLEAN, NEW r \in StoreRecords, store' = [store EXCEPT ![p] = r],
           r.state = "initializing", r.late = store[p].late, store[p].faulted => r.faulted, ~r.alter,
           r.pos = (IF ~success /\ pos <= 15 THEN 16 ELSE pos + 1),
           r.ok = (store[p].ok /\ success),
           Grown, objects' \subseteq SchemaObjects, columns' \subseteq ToSet(Upgrades),
           faults' \in 0..MaxFaults, undisturbed' = undisturbed,
           success => Established(Statements[pos])',
           ~success /\ ~r.faulted =>
               /\ Statements[pos].kind \in {"index", "alter", "trigger"}
               /\ Statements[pos].kind = "alter" => Established(Statements[pos])'
               /\ ~r.late
    PROVE  LifecycleInv'
<1>1. undisturbed \in BOOLEAN /\ (undisturbed => Upgraded) /\ StartOK(p)
  BY TypeFacts DEF LifecycleInv
<1>2. (\A s : Established(s) => Established(s)') /\ (Upgraded => Upgraded')
  BY EstablishedStays
<1>3. pos \in 1..35 /\ pos \in Nat
  OBVIOUS
<1>4. r.pos >= 1
  BY <1>3
<1>5. ASSUME r.ok, NEW k \in 1..(r.pos - 1)
      PROVE  Established(Statements[k])'
  <2>1. success /\ store[p].ok
    BY <1>5
  <2>2. r.pos = pos + 1
    BY <2>1
  <2>3. k \in 1..(pos - 1) \/ k = pos
    BY <1>3, <2>2
  <2>4. \A j \in 1..(pos - 1) : Established(Statements[j])
    BY <1>1, <2>1 DEF StartOK
  <2>5. QED
    BY <1>2, <2>1, <2>3, <2>4
<1>6. ASSUME ~r.faulted, NEW k \in 1..(r.pos - 1), Statements[k].kind \in {"table", "alter"}
      PROVE  Established(Statements[k])'
  <2>1. \A j \in 1..(pos - 1) : Statements[j].kind \in {"table", "alter"} => Established(Statements[j])
    BY <1>1, <1>6 DEF StartOK
  <2>2. Statements[pos].kind \in {"table", "alter"} => Established(Statements[pos])'
    BY <1>6
  <2>3. CASE ~success /\ pos <= 15
    <3>1. ~(pos \in 1..9)
      <4>1. \A j \in 1..9 : Statements[j].kind \in {"pragma", "table"}
        <5>1. \A j \in 1..9 : j \in 1..3 \/ j \in 4..9
          OBVIOUS
        <5>2. QED
          BY <5>1, KindsByPosition, SchemaFacts
      <4>2. QED
        BY <1>6, <2>3, <4>1
    <3>2. \A j \in 10..15 : ~(Statements[j].kind \in {"table", "alter"})
      BY KindsByPosition
    <3>3. r.pos = 16
      BY <2>3
    <3>4. k \in 1..9
      BY <1>6, <3>2, <3>3
    <3>5. k \in 1..(pos - 1)
      BY <1>3, <3>1, <3>4
    <3>6. QED
      BY <1>2, <1>6, <2>1, <3>5
  <2>4. CASE ~(~success /\ pos <= 15)
    <3>1. r.pos = pos + 1
      BY <2>4
    <3>2. k \in 1..(pos - 1) \/ k = pos
      BY <1>3, <3>1
    <3>3. QED
      BY <1>2, <1>6, <2>1, <2>2, <3>2
  <2>5. QED
    BY <2>3, <2>4
<1>7. r.late /\ ~r.faulted => r.ok
  BY <1>1 DEF StartOK
<1>8. r.late => undisturbed'
  BY <1>1 DEF StartOK
<1>9. store'[p] = r => StartOK(p)'
  BY <1>4, <1>5, <1>6, <1>7, <1>8 DEF StartOK
<1>10. QED
  BY <1>1, <1>2, <1>9, StepKeeps

\* What a running start knows of itself.
LEMMA RunningFacts ==
    ASSUME LifecycleInv, NEW p \in Procs, Running(p)
    PROVE  /\ store[p] \in StoreRecords /\ store[p].state = "initializing" /\ store[p].pos \in 1..35
           /\ StartOK(p) /\ (undisturbed => Upgraded) /\ undisturbed \in BOOLEAN
           /\ objects \subseteq SchemaObjects /\ columns \subseteq ToSet(Upgrades)
           /\ faults \in 0..MaxFaults /\ MaxFaults \in Nat
<1>1. store[p] \in StoreRecords /\ StartOK(p) /\ (undisturbed => Upgraded) /\ undisturbed \in BOOLEAN
      /\ objects \subseteq SchemaObjects /\ columns \subseteq ToSet(Upgrades)
      /\ faults \in 0..MaxFaults /\ MaxFaults \in Nat
  BY TypeFacts, MaxFaultsAssumption DEF LifecycleInv
<1>2. store[p].state = "initializing" /\ store[p].pos <= Len(Statements)
  BY DEF Running
<1>3. Len(Statements) = 35
  BY Positions
<1>4. store[p].pos \in 0..36
  BY <1>1 DEF StoreRecords
<1>5. store[p].pos >= 1
  BY <1>1, <1>2 DEF StartOK
<1>6. store[p].pos \in 1..35
  BY <1>2, <1>3, <1>4, <1>5
<1>7. QED
  BY <1>1, <1>2, <1>6

\* Once upgraded, a file takes every statement that is no ALTER, and an ALTER
\* would find its column there.
LEMMA UpgradedAccepts ==
    ASSUME Upgraded, NEW k \in 1..35
    PROVE  IF Statements[k].kind = "alter"
             THEN \A n \in Statements[k].names : Column(Statements[k].table, n) \in columns
             ELSE Accepted(Statements[k])
<1>1. k \in 1..3 \/ k \in 4..9 \/ k \in 10..15 \/ k \in 16..23 \/ k \in 24..35
  OBVIOUS
<1>2. CASE k \in 1..3
  BY <1>2, KindsByPosition DEF Accepted
<1>3. CASE k \in 4..9
  BY <1>3, SchemaFacts DEF Accepted
<1>4. CASE k \in 10..15
  <2>1. Statements[k].kind = "index" /\ \A n \in Statements[k].names : Column(Statements[k].table, n) \in columns
    BY <1>4, KindsByPosition DEF Upgraded
  <2>2. QED
    BY <2>1 DEF Accepted
<1>5. CASE k \in 16..23
  <2>1. Statements[k].kind = "alter"
    BY <1>5, SchemaFacts
  <2>2. \A n \in Statements[k].names : Column(Statements[k].table, n) \in columns
    BY <1>5, SchemaFacts DEF Upgraded
  <2>3. QED
    BY <2>1, <2>2
<1>6. CASE k \in 24..35
  <2>1. Statements[k].kind \in {"fts", "trigger"} /\ HasTable(Statements[k].table)
    BY <1>6, KindsByPosition DEF Upgraded
  <2>2. QED
    BY <2>1 DEF Accepted
<1>7. QED
  BY <1>1, <1>2, <1>3, <1>4, <1>5, <1>6

\* An ALTER stands at positions 16 to 23; a pragma, a table and a full-text
\* table are always accepted.
LEMMA RefusedKinds ==
    ASSUME NEW k \in 1..35
    PROVE  /\ Statements[k].kind = "alter" => k \in 16..23
           /\ ~Accepted(Statements[k]) => Statements[k].kind \in {"index", "alter", "trigger"}
<1>1. k \in 1..3 \/ k \in 4..9 \/ k \in 10..15 \/ k \in 16..23 \/ k \in 24..35
  OBVIOUS
<1>2. Statements[k].kind = "alter" => k \in 16..23
  BY <1>1, KindsByPosition, SchemaFacts
<1>3. ~Accepted(Statements[k]) => Statements[k].kind \in {"index", "alter", "trigger"}
  BY DEF Accepted
<1>4. QED
  BY <1>2, <1>3

\* ColumnExistsUnlocked finds the column, or sends the start to its ALTER.
LEMMA CheckColumnStep ==
    ASSUME LifecycleInv, NEW p \in Procs, CheckColumn(p)
    PROVE  LifecycleInv'
<1> DEFINE st == store[p]
<1>0. Running(p)
  BY DEF CheckColumn
<1>1. PICK pos \in 1..35 : store[p].pos = pos
  BY <1>0, RunningFacts
<1>2. /\ st \in StoreRecords /\ st.state = "initializing" /\ StartOK(p)
      /\ (undisturbed => Upgraded) /\ undisturbed \in BOOLEAN
      /\ objects \subseteq SchemaObjects /\ columns \subseteq ToSet(Upgrades) /\ faults \in 0..MaxFaults
  BY <1>0, RunningFacts
<1>3. Statements[pos].kind = "alter" /\ ~st.alter /\ UNCHANGED <<objects, columns, undisturbed, faults>>
  BY <1>1 DEF CheckColumn, Current
<1>4. Grown /\ objects' \subseteq SchemaObjects /\ columns' \subseteq ToSet(Upgrades) /\ faults' \in 0..MaxFaults
      /\ undisturbed' = undisturbed
  BY <1>2, <1>3 DEF Grown
<1> DEFINE found == \A n \in Statements[pos].names : Column(Statements[pos].table, n) \in columns
<1>5. store' = [store EXCEPT ![p] = IF found THEN After(p, TRUE) ELSE [store[p] EXCEPT !.alter = TRUE]]
  BY <1>1 DEF CheckColumn, Current
<1>6. CASE found
  <2> DEFINE r == After(p, TRUE)
  <2>1. store' = [store EXCEPT ![p] = r]
    BY <1>5, <1>6
  <2>2. /\ Same(r, st, {"pos", "alter", "ok"}) /\ ~r.alter /\ r.ok = (st.ok /\ TRUE)
        /\ r.pos = (IF ~TRUE /\ st.pos <= 15 THEN 16 ELSE st.pos + 1)
    <3>1. st.pos <= 35
      BY <1>1
    <3>2. QED
      BY <1>2, <3>1, AfterFields
  <2> HIDE DEF r
  <2>3. r \in StoreRecords /\ r.state = "initializing" /\ r.late = st.late /\ r.faulted = st.faulted
    BY <1>2, <2>2 DEF Same
  <2>4. Established(Statements[pos])
    BY <1>3, <1>6, SchemaFacts DEF Established
  <2>5. Established(Statements[pos])'
    BY <1>4, <2>4, EstablishedStays
  <2>6. r.pos = (IF ~TRUE /\ pos <= 15 THEN 16 ELSE pos + 1)
    BY <1>1, <2>2
  <2>7. QED
    BY <1>1, <1>2, <1>4, <2>1, <2>2, <2>3, <2>5, <2>6, StatementDone
<1>7. CASE ~found
  <2> DEFINE r == [store[p] EXCEPT !.alter = TRUE]
  <2>1. store' = [store EXCEPT ![p] = r]
    BY <1>5, <1>7
  <2>2. Same(r, st, {"alter"}) /\ r.alter
    BY <1>2, OneField
  <2> HIDE DEF r
  <2>3. /\ r \in StoreRecords /\ r.state = "initializing" /\ r.late = st.late /\ r.faulted = st.faulted
        /\ r.ok = st.ok /\ r.pos = pos
    BY <1>1, <1>2, <2>2 DEF Same
  <2>4. ~(r.late /\ ~r.faulted)
    <3>1. ~Upgraded
      BY <1>3, <1>7, UpgradedAccepts
    <3>2. QED
      BY <1>2, <2>3, <3>1 DEF StartOK
  <2>5. store'[p] = r => StartOK(p)'
    <3>1. \A s : Established(s) => Established(s)'
      BY <1>4, EstablishedStays
    <3>2. QED
      BY <1>1, <1>2, <1>4, <2>3, <2>4, <3>1 DEF StartOK
  <2>6. undisturbed' => Upgraded'
    BY <1>2, <1>4, EstablishedStays
  <2>7. QED
    BY <1>2, <1>4, <2>1, <2>3, <2>5, <2>6, StepKeeps
<1>8. QED
  BY <1>6, <1>7

\* A fault of the check or of a statement: the start is no longer undisturbed,
\* and a failed statement leaves ok FALSE.
LEMMA FaultSteps ==
    ASSUME LifecycleInv, NEW p \in Procs, CheckColumnFaults(p) \/ ExecuteFaults(p)
    PROVE  LifecycleInv'
<1> DEFINE st == store[p]
<1>0. Running(p)
  BY DEF CheckColumnFaults, ExecuteFaults
<1>1. PICK pos \in 1..35 : store[p].pos = pos
  BY <1>0, RunningFacts
<1>2. /\ st \in StoreRecords /\ st.state = "initializing" /\ StartOK(p)
      /\ (undisturbed => Upgraded) /\ undisturbed \in BOOLEAN
      /\ objects \subseteq SchemaObjects /\ columns \subseteq ToSet(Upgrades)
      /\ faults \in 0..MaxFaults /\ MaxFaults \in Nat
  BY <1>0, RunningFacts
<1>3. UNCHANGED <<objects, columns, undisturbed>> /\ faults < MaxFaults /\ faults' = faults + 1
  BY DEF CheckColumnFaults, ExecuteFaults
<1>4. Grown /\ objects' \subseteq SchemaObjects /\ columns' \subseteq ToSet(Upgrades) /\ undisturbed' = undisturbed
  BY <1>2, <1>3 DEF Grown
<1>5. faults' \in 0..MaxFaults
  BY <1>2, <1>3
<1>6. CASE CheckColumnFaults(p)
  <2> DEFINE a == [store[p] EXCEPT !.alter = TRUE]
             r == [a EXCEPT !.faulted = TRUE]
  <2>1. store' = [store EXCEPT ![p] = r]
    <3>1. store' = [store EXCEPT ![p].alter = TRUE, ![p].faulted = TRUE]
      BY <1>6 DEF CheckColumnFaults
    <3>2. store \in [Procs -> StoreRecords]
      BY TypeFacts DEF LifecycleInv
    <3>3. QED
      BY <3>1, <3>2 DEF StoreRecords
  <2>2. Same(a, st, {"alter"})
    BY <1>2, OneField
  <2> HIDE DEF a
  <2>3. Same(r, a, {"faulted"}) /\ r.faulted
    <3>1. a \in StoreRecords
      BY <2>2 DEF Same
    <3>2. QED
      BY <3>1, OneField
  <2> HIDE DEF r
  <2>4. /\ r \in StoreRecords /\ r.state = "initializing" /\ r.late = st.late /\ r.faulted
        /\ r.ok = st.ok /\ r.pos = pos
    BY <1>1, <1>2, <2>2, <2>3 DEF Same
  <2>5. store'[p] = r => StartOK(p)'
    <3>1. \A s : Established(s) => Established(s)'
      BY <1>4, EstablishedStays
    <3>2. QED
      BY <1>1, <1>2, <1>4, <2>4, <3>1 DEF StartOK
  <2>6. undisturbed' => Upgraded'
    BY <1>2, <1>4, EstablishedStays
  <2>7. QED
    BY <1>2, <1>4, <1>5, <2>1, <2>4, <2>5, <2>6, StepKeeps
<1>7. CASE ExecuteFaults(p)
  <2> DEFINE a == After(p, FALSE)
             r == [a EXCEPT !.faulted = TRUE]
  <2>1. store' = [store EXCEPT ![p] = r]
    BY <1>7 DEF ExecuteFaults
  <2>2. /\ Same(a, st, {"pos", "alter", "ok"}) /\ ~a.alter /\ a.ok = (st.ok /\ FALSE)
        /\ a.pos = (IF ~FALSE /\ st.pos <= 15 THEN 16 ELSE st.pos + 1)
    <3>1. st.pos <= 35
      BY <1>1
    <3>2. QED
      BY <1>2, <3>1, AfterFields
  <2> HIDE DEF a
  <2>3. Same(r, a, {"faulted"}) /\ r.faulted
    <3>1. a \in StoreRecords
      BY <2>2 DEF Same
    <3>2. QED
      BY <3>1, OneField
  <2> HIDE DEF r
  <2>4. /\ r \in StoreRecords /\ r.state = "initializing" /\ r.late = st.late /\ r.faulted
        /\ ~r.alter /\ r.ok = (st.ok /\ FALSE)
    BY <1>2, <2>2, <2>3 DEF Same
  <2>5. r.pos = (IF ~FALSE /\ pos <= 15 THEN 16 ELSE pos + 1)
    <3>1. r.pos = a.pos
      BY <2>3 DEF Same
    <3>2. QED
      BY <1>1, <2>2, <3>1
  <2>6. QED
    BY <1>1, <1>2, <1>4, <1>5, <2>1, <2>4, <2>5, StatementDone
<1>8. QED
  BY <1>6, <1>7

\* A refused ALTER of a start without a fault finds its table, so its column
\* is there already: another process added it after the check.
LEMMA RefusedAlter ==
    ASSUME NEW p \in Procs, StartOK(p), store[p].state = "initializing", ~store[p].faulted,
           NEW pos \in 16..23, store[p].pos = pos, ~Accepted(Statements[pos])
    PROVE  Established(Statements[pos])
<1>1. \A k \in 1..(pos - 1) : Statements[k].kind \in {"table", "alter"} => Established(Statements[k])
  BY DEF StartOK
<1>2. \A k \in 4..9 : k \in 1..(pos - 1)
  OBVIOUS
<1>3. \A k \in 4..9 : Established(Statements[k])
  BY <1>1, <1>2, SchemaFacts
<1>4. Statements[pos].kind = "alter" /\ HasTable(Statements[pos].table)
  BY <1>3, TablesEstablished, SchemaFacts
<1>5. PICK n : Statements[pos].names = {n}
  BY SchemaFacts
<1>6. Column(Statements[pos].table, n) \in columns
  BY <1>4, <1>5 DEF Accepted
<1>7. pos \in 1..35
  OBVIOUS
<1>8. Statements[pos] \notin SchemaObjects
  BY <1>4, <1>7, SchemaFacts
<1>9. QED
  BY <1>5, <1>6, <1>8 DEF Established

\* ExecuteUnlocked: what it is for is in the file, or the statement is one
\* whose failure the start survives.
LEMMA ExecuteStep ==
    ASSUME LifecycleInv, NEW p \in Procs, ExecuteUnlocked(p)
    PROVE  LifecycleInv'
<1> DEFINE st == store[p]
<1>0. Running(p)
  BY DEF ExecuteUnlocked
<1>1. PICK pos \in 1..35 : store[p].pos = pos
  BY <1>0, RunningFacts
<1>2. /\ st \in StoreRecords /\ st.state = "initializing" /\ StartOK(p)
      /\ (undisturbed => Upgraded) /\ undisturbed \in BOOLEAN
      /\ objects \subseteq SchemaObjects /\ columns \subseteq ToSet(Upgrades) /\ faults \in 0..MaxFaults
  BY <1>0, RunningFacts
<1>3. Current(p) = Statements[pos]
  BY <1>1 DEF Current
<1>4. /\ Statements[pos].kind = "alter" => st.alter
      /\ store' = [store EXCEPT ![p] = After(p, Accepted(Statements[pos]))]
      /\ IF Accepted(Statements[pos]) THEN Execute(Statements[pos]) ELSE UNCHANGED <<objects, columns>>
      /\ UNCHANGED <<undisturbed, faults>>
  BY <1>3 DEF ExecuteUnlocked
<1>5. undisturbed' = undisturbed /\ faults' \in 0..MaxFaults
  BY <1>2, <1>4
<1>6. st.pos <= 35
  BY <1>1
<1>7. CASE Accepted(Statements[pos])
  <2> DEFINE r == After(p, TRUE)
  <2>1. store' = [store EXCEPT ![p] = r]
    <3>1. Accepted(Statements[pos]) = TRUE
      BY <1>7 DEF Accepted
    <3>2. QED
      BY <1>4, <3>1
  <2>2. /\ Same(r, st, {"pos", "alter", "ok"}) /\ ~r.alter /\ r.ok = (st.ok /\ TRUE)
        /\ r.pos = (IF ~TRUE /\ st.pos <= 15 THEN 16 ELSE st.pos + 1)
    BY <1>2, <1>6, AfterFields
  <2> HIDE DEF r
  <2>3. r \in StoreRecords /\ r.state = "initializing" /\ r.late = st.late /\ r.faulted = st.faulted
    BY <1>2, <2>2 DEF Same
  <2>4. r.pos = (IF ~TRUE /\ pos <= 15 THEN 16 ELSE pos + 1)
    BY <1>1, <2>2
  <2>5. /\ Grown /\ objects' \subseteq SchemaObjects /\ columns' \subseteq ToSet(Upgrades)
        /\ Established(Statements[pos])'
    BY <1>4, <1>7, ExecuteEstablishes DEF LifecycleInv
  <2>6. QED
    BY <1>1, <1>2, <1>5, <2>1, <2>2, <2>3, <2>4, <2>5, StatementDone
<1>8. CASE ~Accepted(Statements[pos])
  <2> DEFINE r == After(p, FALSE)
  <2>1. store' = [store EXCEPT ![p] = r]
    <3>1. Accepted(Statements[pos]) = FALSE
      BY <1>8 DEF Accepted
    <3>2. QED
      BY <1>4, <3>1
  <2>2. /\ Same(r, st, {"pos", "alter", "ok"}) /\ ~r.alter /\ r.ok = (st.ok /\ FALSE)
        /\ r.pos = (IF ~FALSE /\ st.pos <= 15 THEN 16 ELSE st.pos + 1)
    BY <1>2, <1>6, AfterFields
  <2> HIDE DEF r
  <2>3. r \in StoreRecords /\ r.state = "initializing" /\ r.late = st.late /\ r.faulted = st.faulted
    BY <1>2, <2>2 DEF Same
  <2>4. r.pos = (IF ~FALSE /\ pos <= 15 THEN 16 ELSE pos + 1)
    BY <1>1, <2>2
  <2>5. Grown /\ objects' \subseteq SchemaObjects /\ columns' \subseteq ToSet(Upgrades)
    BY <1>2, <1>4, <1>8 DEF Grown
  <2>6. Statements[pos].kind \in {"index", "alter", "trigger"}
    BY <1>8, RefusedKinds
  <2>7. ASSUME ~r.faulted, Statements[pos].kind = "alter"
        PROVE  Established(Statements[pos])'
    <3>1. pos \in 16..23
      BY <2>7, RefusedKinds
    <3>2. Established(Statements[pos])
      BY <1>1, <1>2, <1>8, <2>3, <2>7, <3>1, RefusedAlter
    <3>3. QED
      BY <2>5, <3>2, EstablishedStays
  <2>8. ASSUME ~r.faulted, r.late
        PROVE  FALSE
    <3>1. Upgraded /\ ~st.alter
      BY <1>2, <2>3, <2>8 DEF StartOK
    <3>2. Statements[pos].kind # "alter"
      BY <1>4, <3>1
    <3>3. QED
      BY <1>8, <3>1, <3>2, UpgradedAccepts
  <2>9. QED
    BY <1>1, <1>2, <1>5, <2>1, <2>2, <2>3, <2>4, <2>5, <2>6, <2>7, <2>8, StatementDone
<1>9. QED
  BY <1>7, <1>8

\* Initialize returns: a store that is ready has passed every statement, and a
\* start without a fault leaves the tables and the columns.
LEMMA ReturnStep ==
    ASSUME LifecycleInv, NEW p \in Procs, CreateRuntimeStore(p)
    PROVE  LifecycleInv'
<1> DEFINE st == store[p]
           r == [store[p] EXCEPT !.state = IF st.ok THEN "ready" ELSE "failed"]
<1>1. /\ store \in [Procs -> StoreRecords] /\ StartOK(p) /\ (undisturbed => Upgraded) /\ undisturbed \in BOOLEAN
      /\ objects \subseteq SchemaObjects /\ columns \subseteq ToSet(Upgrades) /\ faults \in 0..MaxFaults
  BY TypeFacts DEF LifecycleInv
<1>2. Len(Statements) = 35
  BY Positions
<1>3. st \in StoreRecords /\ st.state = "initializing" /\ st.pos = 36
  <2>1. st \in StoreRecords /\ st.state = "initializing" /\ st.pos = Len(Statements) + 1
    BY <1>1 DEF CreateRuntimeStore
  <2>2. Len(Statements) + 1 = 36
    BY <1>2
  <2>3. QED
    BY <2>1, <2>2
<1>4. store' = [store EXCEPT ![p] = r]
  BY <1>1 DEF CreateRuntimeStore, StoreRecords
<1>5. /\ UNCHANGED <<objects, columns, faults>>
      /\ undisturbed' = (undisturbed \/ ~st.faulted)
  BY DEF CreateRuntimeStore
<1>6. Same(r, st, {"state"}) /\ r.state = IF st.ok THEN "ready" ELSE "failed"
  <2>1. (IF st.ok THEN "ready" ELSE "failed") \in {"none", "initializing", "ready", "failed"}
    OBVIOUS
  <2>2. QED
    BY <1>3, <2>1, OneField, Zenon
<1> HIDE DEF r
<1>7. /\ r \in StoreRecords /\ r.ok = st.ok /\ r.late = st.late /\ r.faulted = st.faulted
      /\ r.state = IF st.ok THEN "ready" ELSE "failed"
  BY <1>6 DEF Same
<1>8. Grown /\ objects' \subseteq SchemaObjects /\ columns' \subseteq ToSet(Upgrades)
      /\ faults' \in 0..MaxFaults /\ (undisturbed => undisturbed') /\ undisturbed' \in BOOLEAN
  BY <1>1, <1>5 DEF Grown
<1>9. (\A s : Established(s) => Established(s)') /\ (Upgraded => Upgraded')
  BY <1>8, EstablishedStays
<1>10. st.pos - 1 = 35
  BY <1>3
<1>11. ~st.faulted => Upgraded
  <2>1. ~st.faulted => \A k \in 1..35 : Statements[k].kind \in {"table", "alter"} => Established(Statements[k])
    BY <1>1, <1>3, <1>10 DEF StartOK
  <2>2. QED
    BY <2>1, UpgradeEstablished
<1>12. undisturbed' => Upgraded'
  BY <1>1, <1>5, <1>9, <1>11
<1>13. r.state = "ready" => \A k \in 1..Len(Statements) : Established(Statements[k])'
  <2>1. r.state = "ready" => st.ok
    BY <1>7
  <2>2. st.ok => \A k \in 1..35 : Established(Statements[k])
    BY <1>1, <1>3, <1>10 DEF StartOK
  <2>3. QED
    BY <1>2, <1>9, <2>1, <2>2
<1>14. r.state # "initializing" /\ (r.late => undisturbed') /\ (r.state = "failed" /\ r.late => r.faulted)
  <2>1. st.late => undisturbed
    BY <1>1 DEF StartOK
  <2>2. st.late /\ ~st.faulted => st.ok
    BY <1>1, <1>3 DEF StartOK
  <2>3. QED
    BY <1>7, <1>8, <2>1, <2>2
<1>15. store'[p] = r => StartOK(p)'
  BY <1>13, <1>14 DEF StartOK
<1>16. QED
  BY <1>4, <1>7, <1>8, <1>12, <1>15, StepKeeps

-----------------------------------------------------------------------------
(* The theorems.                                                           *)

\* The invariant holds of every file a process may find.
LEMMA InitInv ==
    ASSUME Init
    PROVE  LifecycleInv
<1>1. NoStore \in StoreRecords /\ NoStore.state = "none" /\ ~NoStore.late
  BY DEF NoStore, StoreRecords
<1>2. store = [p \in Procs |-> NoStore] /\ undisturbed = FALSE /\ faults = 0
  BY DEF Init
<1>3. objects \subseteq SchemaObjects /\ columns \subseteq ToSet(Upgrades)
  BY DEF Init
<1>4. store \in [Procs -> StoreRecords]
  BY <1>1, <1>2
<1>5. faults \in 0..MaxFaults
  BY <1>2, MaxFaultsAssumption
<1>6. TypeOK
  BY <1>2, <1>3, <1>4, <1>5, TypeFacts
<1>7. ASSUME NEW p \in Procs
      PROVE  StartOK(p)
  BY <1>1, <1>2 DEF StartOK
<1>8. QED
  BY <1>2, <1>6, <1>7 DEF LifecycleInv

\* The invariant holds throughout.
LEMMA LifecycleInvHolds == Spec => []LifecycleInv
<1>1. Init => LifecycleInv
  BY InitInv
<1>2. LifecycleInv /\ [Next]_vars => LifecycleInv'
  <2>1. SUFFICES ASSUME LifecycleInv, [Next]_vars PROVE LifecycleInv'
    OBVIOUS
  <2>2. CASE Next
    <3>1. PICK p \in Procs : \/ Open(p) \/ OpenFails(p) \/ CheckColumn(p) \/ CheckColumnFaults(p)
                             \/ ExecuteUnlocked(p) \/ ExecuteFaults(p) \/ CreateRuntimeStore(p)
                             \/ Close(p) \/ Crash(p)
      BY <2>2 DEF Next
    <3>2. QED
      BY <2>1, <3>1, BorderSteps, CheckColumnStep, FaultSteps, ExecuteStep, ReturnStep
  <2>3. CASE UNCHANGED vars
    BY <2>1, <2>3 DEF vars, LifecycleInv, TypeOK, Upgraded, HasTable, StartOK, Established
  <2>4. QED
    BY <2>1, <2>2, <2>3
<1>3. QED
  BY <1>1, <1>2, PTL DEF Spec

\* The type invariant: the file holds known objects and columns only, and
\* Initialize never runs past its last statement, after any failure and from
\* any earlier schema.
THEOREM TypeCorrect == Spec => []TypeOK
<1>1. LifecycleInv => TypeOK
  BY DEF LifecycleInv
<1>2. QED
  BY <1>1, LifecycleInvHolds, PTL

\* CreateRuntimeStore hands out a store only on a complete schema: as ok of
\* Initialize remembers every failure and nothing is ever dropped from the file,
\* the statements it has passed are all there, whatever other processes that
\* run Initialize on the file did, failed to do or left half done.
THEOREM ReadyStoreIsComplete == Spec => []ReadyMeansComplete
<1>1. ASSUME LifecycleInv
      PROVE  ReadyMeansComplete
  <2>1. SUFFICES ASSUME NEW p \in Procs, store[p].state = "ready"
                 PROVE  objects = SchemaObjects /\ columns = ToSet(Upgrades)
    BY DEF ReadyMeansComplete
  <2>2. Len(Statements) = 35
    BY Positions
  <2>3. \A k \in 1..35 : Established(Statements[k])
    BY <1>1, <2>1, <2>2 DEF LifecycleInv, StartOK
  <2>4. QED
    BY <1>1, <2>3, AllEstablished DEF LifecycleInv
<1>2. QED
  BY <1>1, LifecycleInvHolds, PTL

\* One start that meets no fault upgrades the file of an earlier version for
\* good, also when Initialize fails on the indexes that come before their
\* columns: a later start fails only if it meets a fault itself.
THEOREM UpgradeIsFinal == Spec => []OneStartUpgrades
<1>1. LifecycleInv => OneStartUpgrades
  BY DEF LifecycleInv, StartOK, OneStartUpgrades
<1>2. QED
  BY <1>1, LifecycleInvHolds, PTL
=============================================================================
