-------------------------- MODULE EngagementProofs --------------------------
(* Proofs about Engagement, for every set of inputs, files, names and texts and *)
(* every number of calls and of calls with a failing statement.                 *)
EXTENDS Engagement, FiniteSetTheorems, TLAPS

----------------------------------------------------------------------------
(* Rows and their numbers *)

LEMMA PutRows ==
  ASSUME NEW rows, NEW id, NEW row
  PROVE  /\ DOMAIN Put(rows, id, row) = DOMAIN rows \cup {id}
         /\ Put(rows, id, row)[id] = row
         /\ \A i \in DOMAIN rows \ {id} : Put(rows, id, row)[i] = rows[i]
  BY DEF Put

LEMMA InsertRows ==
  ASSUME NEW rows, NEW id, NEW row
  PROVE  /\ DOMAIN Insert(rows, id, row) = DOMAIN rows \cup {id}
         /\ \A i \in DOMAIN rows : Insert(rows, id, row)[i] = rows[i]
         /\ id \notin DOMAIN rows => Insert(rows, id, row)[id] = row
  BY DEF Put, Insert

\* The numbers of the rows are numbers that the sequence has reached.
Numbered(rows, name) == \A i \in DOMAIN rows : i \in Nat /\ i <= seq[name]

NumbersOK ==
  /\ seq \in [SeqName -> Nat]
  /\ Numbered(targets, "target") /\ Numbered(tags, "tag") /\ Numbered(queries, "query")
  /\ Numbered(engagements, "engagement") /\ Numbered(objectives, "objective")
  /\ Numbered(networks, "network")

\* A number is new, or it is number 0.
LEMMA NextNumber ==
  ASSUME seq \in [SeqName -> Nat], NEW name \in SeqName, NEW n, NEW f, NextSequence(name, n, f)
  PROVE  /\ seq' \in [SeqName -> Nat] /\ \A s \in SeqName : seq[s] <= seq'[s]
         /\ n \in Nat /\ n <= seq'[name] /\ (n > 0 => n > seq[name])
<1>1. \A s \in SeqName : seq[s] \in Nat
  OBVIOUS
<1> DEFINE incremented == [seq EXCEPT ![name] = @ + 1]
<1>2. incremented \in [SeqName -> Nat] /\ \A s \in SeqName : seq[s] <= incremented[s]
  BY <1>1
<1>3. incremented[name] = seq[name] + 1
  OBVIOUS
<1> HIDE DEF incremented
<1>4. IF f = "number" THEN n = 0 /\ seq' \in {seq, incremented}
                      ELSE n = seq[name] + 1 /\ seq' = incremented
  BY DEF NextSequence, incremented
<1>5. CASE f = "number"
  <2>1. n = 0 /\ (seq' = seq \/ seq' = incremented)
    BY <1>4, <1>5
  <2> QED BY <1>1, <1>2, <2>1
<1>6. CASE f # "number"
  BY <1>1, <1>2, <1>3, <1>4, <1>6
<1> QED BY <1>5, <1>6

----------------------------------------------------------------------------
(* What a fact says of the tables *)

Values == {Normalized(input) : input \in {input \in Input : Recognized(input)}}

TargetRows == \A i \in DOMAIN targets : targets[i] \in [value : Values, status : {"active"}]

\* A snapshot is one that a user took, or that of an evaluation.
SnapshotRows ==
  \A i \in DOMAIN snapshots :
    snapshots[i].assessment = i \/ i \in SnapshotsOf(snapshots[i].assessment)

Kind == {"target", "rule", "host", "network", "tag", "note", "query", "engagement",
         "objective", "snapshot"}

\* A row that a call can overwrite has number 0, and is not what a fact relies on.
TargetFact(fact) == fact[1] = "target" =>
  /\ fact = <<"target", fact[2]>>
  /\ \E i \in DOMAIN targets : i > 0 /\ targets[i].value = fact[2]
RuleFact(fact) == fact[1] = "rule" =>
  /\ fact[2] \in DOMAIN rules /\ fact[4] \in Pattern
  /\ rules[fact[2]] = [type |-> fact[3], pattern |-> RulePattern(fact[4])]
HostFact(fact) == fact[1] = "host" => fact[2] \in hosts
NetworkFact(fact) == fact[1] = "network" => \E i \in DOMAIN networks : networks[i] = fact[2]
TagFact(fact) == fact[1] = "tag" =>
  \E i \in DOMAIN tags : tags[i] = [entity |-> fact[2], name |-> fact[3]]
NoteFact(fact) == fact[1] = "note" =>
  \E i \in DOMAIN notes : notes[i] = [entity |-> fact[2], content |-> fact[3]]
QueryFact(fact) == fact[1] = "query" =>
  \E i \in DOMAIN queries : i > 0 /\ queries[i] = [name |-> fact[2], command |-> fact[3]]
EngagementFact(fact) == fact[1] = "engagement" =>
  fact[2] \in DOMAIN engagements /\ fact[2] > 0 /\ engagements[fact[2]].name = fact[3]
ObjectiveFact(fact) == fact[1] = "objective" =>
  \E i \in DOMAIN objectives : i > 0 /\ objectives[i] = [engagement |-> fact[2], title |-> fact[3]]
SnapshotFact(fact) == fact[1] = "snapshot" =>
  /\ fact[2] \in DOMAIN snapshots /\ snapshots[fact[2]].content = fact[3]

TargetSide(fact) == TargetFact(fact) /\ RuleFact(fact)
ImportSide(fact) == HostFact(fact) /\ NetworkFact(fact)
JournalSide(fact) ==
  /\ TagFact(fact) /\ NoteFact(fact) /\ QueryFact(fact)
  /\ EngagementFact(fact) /\ ObjectiveFact(fact) /\ SnapshotFact(fact)

Stands(fact) == fact[1] \in Kind /\ TargetSide(fact) /\ ImportSide(fact) /\ JournalSide(fact)

RecordsInv ==
  NumbersOK /\ TargetRows /\ SnapshotRows /\ \A fact \in known : Stands(fact)

----------------------------------------------------------------------------
(* What a call leaves alone *)

LEMMA FactsStay ==
  /\ UNCHANGED targets => \A fact : TargetFact(fact) => TargetFact(fact)'
  /\ UNCHANGED rules => \A fact : RuleFact(fact) => RuleFact(fact)'
  /\ UNCHANGED hosts => \A fact : HostFact(fact) => HostFact(fact)'
  /\ UNCHANGED networks => \A fact : NetworkFact(fact) => NetworkFact(fact)'
  /\ UNCHANGED tags => \A fact : TagFact(fact) => TagFact(fact)'
  /\ UNCHANGED notes => \A fact : NoteFact(fact) => NoteFact(fact)'
  /\ UNCHANGED queries => \A fact : QueryFact(fact) => QueryFact(fact)'
  /\ UNCHANGED engagements => \A fact : EngagementFact(fact) => EngagementFact(fact)'
  /\ UNCHANGED objectives => \A fact : ObjectiveFact(fact) => ObjectiveFact(fact)'
  /\ UNCHANGED snapshots => \A fact : SnapshotFact(fact) => SnapshotFact(fact)'
  BY DEF TargetFact, RuleFact, HostFact, NetworkFact, TagFact, NoteFact, QueryFact,
         EngagementFact, ObjectiveFact, SnapshotFact

\* A fact is of one kind.
LEMMA NewFact ==
  ASSUME NEW fact, fact[1] \in Kind,
         fact[1] = "target" => TargetFact(fact)', fact[1] = "rule" => RuleFact(fact)',
         fact[1] = "host" => HostFact(fact)', fact[1] = "network" => NetworkFact(fact)',
         fact[1] = "tag" => TagFact(fact)', fact[1] = "note" => NoteFact(fact)',
         fact[1] = "query" => QueryFact(fact)', fact[1] = "engagement" => EngagementFact(fact)',
         fact[1] = "objective" => ObjectiveFact(fact)',
         fact[1] = "snapshot" => SnapshotFact(fact)'
  PROVE  Stands(fact)'
  BY DEF Stands, TargetSide, ImportSide, JournalSide, TargetFact, RuleFact, HostFact, NetworkFact,
         TagFact, NoteFact, QueryFact, EngagementFact, ObjectiveFact, SnapshotFact

\* Tables get a row only under the number just obtained.
LEMMA NumbersGrow ==
  ASSUME NumbersOK, NEW name \in SeqName, NEW n, NEW f, NextSequence(name, n, f),
         \/ UNCHANGED targets
         \/ name = "target" /\ DOMAIN targets' \subseteq DOMAIN targets \cup {n},
         \/ UNCHANGED tags
         \/ name = "tag" /\ DOMAIN tags' \subseteq DOMAIN tags \cup {n},
         \/ UNCHANGED queries
         \/ name = "query" /\ DOMAIN queries' \subseteq DOMAIN queries \cup {n},
         \/ UNCHANGED engagements
         \/ name = "engagement" /\ DOMAIN engagements' \subseteq DOMAIN engagements \cup {n},
         \/ UNCHANGED objectives
         \/ name = "objective" /\ DOMAIN objectives' \subseteq DOMAIN objectives \cup {n},
         UNCHANGED networks
  PROVE  NumbersOK'
<1>1. /\ seq' \in [SeqName -> Nat] /\ \A s \in SeqName : seq[s] <= seq'[s]
      /\ n \in Nat /\ n <= seq'[name]
  BY NextNumber DEF NumbersOK
<1>2. ASSUME NEW s \in SeqName, NEW rows, Numbered(rows, s), NEW i \in DOMAIN rows
      PROVE  i \in Nat /\ i <= seq'[s]
  BY <1>1, <1>2 DEF Numbered, NumbersOK
<1>3. {"target", "tag", "query", "engagement", "objective", "network"} \subseteq SeqName
  BY DEF SeqName
<1>4. Numbered(targets, "target")'
  BY <1>1, <1>2, <1>3 DEF Numbered, NumbersOK
<1>5. Numbered(tags, "tag")'
  BY <1>1, <1>2, <1>3 DEF Numbered, NumbersOK
<1>6. Numbered(queries, "query")'
  BY <1>1, <1>2, <1>3 DEF Numbered, NumbersOK
<1>7. Numbered(engagements, "engagement")'
  BY <1>1, <1>2, <1>3 DEF Numbered, NumbersOK
<1>8. Numbered(objectives, "objective")'
  BY <1>1, <1>2, <1>3 DEF Numbered, NumbersOK
<1>9. Numbered(networks, "network")'
  BY <1>1, <1>2, <1>3 DEF Numbered, NumbersOK
<1> QED BY <1>1, <1>4, <1>5, <1>6, <1>7, <1>8, <1>9 DEF NumbersOK

----------------------------------------------------------------------------
(* The journal keeps what was acknowledged *)

LEMMA AddTagKeeps ==
  ASSUME RecordsInv, NEW e, NEW name, NEW f, AddTag(e, name, f),
         UNCHANGED <<targets, rules, importVars>>
  PROVE  RecordsInv'
<1> DEFINE row == [entity |-> e, name |-> name]
           fact0 == <<"tag", e, name>>
<1>1. PICK n \in Number :
        /\ NextSequence("tag", n, f)
        /\ IF f = "save" THEN UNCHANGED <<tags, known>>
           ELSE InsertTag(n, row) /\ Acknowledge(n, fact0, {})
  BY DEF AddTag
<1>2. /\ UNCHANGED <<targets, rules, hosts, networks, notes, queries, engagements, objectives,
                     snapshots>>
  BY DEF AddTag, importVars
<1>3. n > 0 => n \notin DOMAIN tags
  BY <1>1, NextNumber DEF RecordsInv, NumbersOK, Numbered, SeqName
<1>4. CASE f = "save"
  <2>1. UNCHANGED <<tags, known>>
    BY <1>1, <1>4
  <2>2. NumbersOK'
    BY <1>1, <1>2, <2>1, NumbersGrow DEF RecordsInv, SeqName
  <2> QED BY <1>2, <2>1, <2>2, FactsStay
          DEF RecordsInv, TargetRows, SnapshotRows, Stands, TargetSide, ImportSide, JournalSide
<1>5. CASE f # "save"
  <2>1. tags' = IF \E i \in DOMAIN tags : tags[i] = row THEN tags ELSE Insert(tags, n, row)
    BY <1>1, <1>5 DEF InsertTag
  <2>2. known' = known \cup (IF n > 0 THEN {fact0} ELSE {})
    BY <1>1, <1>5 DEF Acknowledge
  <2>3. /\ DOMAIN tags' \subseteq DOMAIN tags \cup {n}
        /\ \A i \in DOMAIN tags : i \in DOMAIN tags' /\ tags'[i] = tags[i]
        /\ n > 0 => \E i \in DOMAIN tags' : tags'[i] = row
    <3> HIDE DEF row
    <3>1. CASE \E i \in DOMAIN tags : tags[i] = row
      BY <2>1, <3>1
    <3>2. CASE ~\E i \in DOMAIN tags : tags[i] = row
      <4>1. tags' = Insert(tags, n, row)
        BY <2>1, <3>2
      <4>2. n > 0 => tags'[n] = row
        BY <1>3, <4>1, InsertRows
      <4>3. DOMAIN tags' = DOMAIN tags \cup {n} /\ \A i \in DOMAIN tags : tags'[i] = tags[i]
        BY <4>1 DEF Insert, Put
      <4> QED BY <4>2, <4>3
    <3> QED BY <3>1, <3>2
  <2>4. NumbersOK'
    BY <1>1, <1>2, <2>3, NumbersGrow DEF RecordsInv, SeqName
  <2>5. \A fact : TagFact(fact) => TagFact(fact)'
    BY <2>3 DEF TagFact
  <2>6. ASSUME n > 0 PROVE Stands(fact0)'
    <3>1. fact0[1] = "tag" /\ fact0[2] = e /\ fact0[3] = name
      OBVIOUS
    <3> HIDE DEF fact0
    <3>2. TagFact(fact0)'
      BY <2>3, <2>6, <3>1 DEF TagFact
    <3> QED BY <3>1, <3>2, NewFact DEF Kind
  <2>7. \A fact \in known : Stands(fact)'
    BY <1>2, <2>5, FactsStay DEF RecordsInv, Stands, TargetSide, ImportSide, JournalSide
  <2> HIDE DEF fact0
  <2> QED BY <1>2, <2>2, <2>4, <2>6, <2>7 DEF RecordsInv, TargetRows, SnapshotRows
<1> QED BY <1>4, <1>5

LEMMA AddNoteKeeps ==
  ASSUME RecordsInv, NEW e, NEW c, NEW f, AddNote(e, c, f), UNCHANGED <<targets, rules, importVars>>
  PROVE  RecordsInv'
<1> DEFINE row == [entity |-> e, content |-> c]
           fact0 == <<"note", e, c>>
<1>1. PICK n \in Number :
        /\ NextSequence("note", n, f)
        /\ IF f = "save" \/ n \in DOMAIN notes THEN UNCHANGED <<notes, known>>
           ELSE InsertNote(n, row) /\ Acknowledge(n, fact0, {})
  BY DEF AddNote
<1>2. UNCHANGED <<targets, rules, hosts, networks, tags, queries, engagements, objectives, snapshots>>
  BY DEF AddNote, importVars
<1>3. NumbersOK'
  BY <1>1, <1>2, NumbersGrow DEF RecordsInv, SeqName
<1>4. CASE f = "save" \/ n \in DOMAIN notes
  <2>1. UNCHANGED <<notes, known>>
    BY <1>1, <1>4
  <2> QED BY <1>2, <1>3, <2>1, FactsStay
          DEF RecordsInv, TargetRows, SnapshotRows, Stands, TargetSide, ImportSide, JournalSide
<1>5. CASE f # "save" /\ n \notin DOMAIN notes
  <2>1. notes' = Insert(notes, n, row)
    BY <1>1, <1>5 DEF InsertNote
  <2>2. known' = known \cup (IF n > 0 THEN {fact0} ELSE {})
    BY <1>1, <1>5 DEF Acknowledge
  <2> HIDE DEF row
  <2>3. /\ DOMAIN notes' = DOMAIN notes \cup {n} /\ notes'[n] = row
        /\ \A i \in DOMAIN notes : notes'[i] = notes[i]
    BY <1>5, <2>1 DEF Insert, Put
  <2>4. \A fact : NoteFact(fact) => NoteFact(fact)'
    BY <2>3 DEF NoteFact
  <2>5. Stands(fact0)'
    <3>1. fact0[1] = "note" /\ fact0[2] = e /\ fact0[3] = c
      OBVIOUS
    <3> HIDE DEF fact0
    <3>2. NoteFact(fact0)'
      BY <2>3, <3>1 DEF NoteFact, row
    <3> QED BY <3>1, <3>2, NewFact DEF Kind
  <2>6. \A fact \in known : Stands(fact)'
    BY <1>2, <2>4, FactsStay DEF RecordsInv, Stands, TargetSide, ImportSide, JournalSide
  <2> HIDE DEF fact0
  <2> QED BY <1>2, <1>3, <2>2, <2>5, <2>6 DEF RecordsInv, TargetRows, SnapshotRows
<1> QED BY <1>4, <1>5

LEMMA SaveQueryKeeps ==
  ASSUME RecordsInv, NEW name, NEW command, NEW f, SaveQuery(name, command, f),
         UNCHANGED <<targets, rules, importVars>>
  PROVE  RecordsInv'
<1> DEFINE row == [name |-> name, command |-> command]
           fact0 == <<"query", name, command>>
           same == {fact \in known : fact[1] = "query" /\ fact[2] = name}
           others == [i \in {i \in DOMAIN queries : queries[i].name # row.name} |-> queries[i]]
<1>1. PICK n \in Number :
        /\ NextSequence("query", n, f)
        /\ IF f = "save" THEN UNCHANGED <<queries, known>>
           ELSE InsertSavedQuery(n, row) /\ Acknowledge(n, fact0, same)
  BY DEF SaveQuery
<1>2. UNCHANGED <<targets, rules, hosts, networks, tags, notes, engagements, objectives, snapshots>>
  BY DEF SaveQuery, importVars
<1>3. /\ n > 0 => n \notin DOMAIN queries
      /\ n \in Nat /\ DOMAIN queries \subseteq Nat
  BY <1>1, NextNumber DEF RecordsInv, NumbersOK, Numbered, SeqName
<1>4. CASE f = "save"
  <2>1. UNCHANGED <<queries, known>>
    BY <1>1, <1>4
  <2>2. NumbersOK'
    BY <1>1, <1>2, <2>1, NumbersGrow DEF RecordsInv, SeqName
  <2> QED BY <1>2, <2>1, <2>2, FactsStay
          DEF RecordsInv, TargetRows, SnapshotRows, Stands, TargetSide, ImportSide, JournalSide
<1>5. CASE f # "save"
  <2>1. queries' = Put(others, n, row)
    BY <1>1, <1>5 DEF InsertSavedQuery
  <2>2. known' = (known \ same) \cup (IF n > 0 THEN {fact0} ELSE {})
    BY <1>1, <1>5 DEF Acknowledge
  <2>3. /\ DOMAIN others = {i \in DOMAIN queries : queries[i].name # name}
        /\ \A i \in DOMAIN others : others[i] = queries[i]
    OBVIOUS
  <2> HIDE DEF row, others
  <2>4. /\ DOMAIN queries' = DOMAIN others \cup {n} /\ queries'[n] = row
        /\ \A i \in DOMAIN others \ {n} : queries'[i] = others[i]
    BY <2>1 DEF Put
  <2>5. NumbersOK'
    BY <1>1, <1>2, <2>3, <2>4, NumbersGrow DEF RecordsInv, SeqName
  <2>6. ASSUME NEW fact \in known \ same PROVE QueryFact(fact)'
    <3> SUFFICES ASSUME fact[1] = "query"
                 PROVE  \E i \in DOMAIN queries' :
                          i > 0 /\ queries'[i] = [name |-> fact[2], command |-> fact[3]]
      BY DEF QueryFact
    <3>1. PICK i \in DOMAIN queries :
            i > 0 /\ queries[i] = [name |-> fact[2], command |-> fact[3]]
      BY DEF RecordsInv, Stands, JournalSide, QueryFact
    <3>2. i \in DOMAIN others /\ i # n
      BY <1>3, <2>3, <3>1
    <3> QED BY <2>3, <2>4, <3>1, <3>2
  <2>7. ASSUME n > 0 PROVE Stands(fact0)'
    <3>1. fact0[1] = "query" /\ fact0[2] = name /\ fact0[3] = command
      OBVIOUS
    <3> HIDE DEF fact0
    <3>2. QueryFact(fact0)'
      BY <2>4, <2>7, <3>1 DEF QueryFact, row
    <3> QED BY <3>1, <3>2, NewFact DEF Kind
  <2>8. \A fact \in known \ same : Stands(fact)'
    BY <1>2, <2>6, FactsStay DEF RecordsInv, Stands, TargetSide, ImportSide, JournalSide
  <2> HIDE DEF fact0, same
  <2> QED BY <1>2, <2>2, <2>5, <2>7, <2>8 DEF RecordsInv, TargetRows, SnapshotRows
<1> QED BY <1>4, <1>5

LEMMA CreateEngagementKeeps ==
  ASSUME RecordsInv, NEW name, NEW f, CreateEngagement(name, f), UNCHANGED <<targets, rules, importVars>>
  PROVE  RecordsInv'
<1>1. PICK n \in Number :
        /\ NextSequence("engagement", n, f)
        /\ IF f = "save" THEN UNCHANGED <<engagements, known>>
           ELSE SaveEngagement(n, name) /\ Acknowledge(n, <<"engagement", n, name>>, {})
  BY DEF CreateEngagement
<1> DEFINE fact0 == <<"engagement", n, name>>
<1>2. UNCHANGED <<targets, rules, hosts, networks, tags, notes, queries, objectives, snapshots>>
  BY DEF CreateEngagement, importVars
<1>3. /\ n > 0 => n \notin DOMAIN engagements
      /\ n \in Nat /\ DOMAIN engagements \subseteq Nat
  BY <1>1, NextNumber DEF RecordsInv, NumbersOK, Numbered, SeqName
<1>4. CASE f = "save"
  <2>1. UNCHANGED <<engagements, known>>
    BY <1>1, <1>4
  <2>2. NumbersOK'
    BY <1>1, <1>2, <2>1, NumbersGrow DEF RecordsInv, SeqName
  <2> QED BY <1>2, <2>1, <2>2, FactsStay
          DEF RecordsInv, TargetRows, SnapshotRows, Stands, TargetSide, ImportSide, JournalSide
<1>5. CASE f # "save"
  <2>1. \E now : engagements' = IF n \in DOMAIN engagements
                                THEN [engagements EXCEPT ![n].name = name]
                                ELSE Insert(engagements, n, [name |-> name, created |-> now])
    BY <1>1, <1>5 DEF SaveEngagement
  <2>2. known' = known \cup (IF n > 0 THEN {fact0} ELSE {})
    BY <1>1, <1>5 DEF Acknowledge
  <2>3. /\ DOMAIN engagements' = DOMAIN engagements \cup {n}
        /\ \A i \in DOMAIN engagements : i > 0 => engagements'[i] = engagements[i]
        /\ n > 0 => engagements'[n].name = name
    <3>1. CASE n \in DOMAIN engagements
      <4>1. engagements' = [engagements EXCEPT ![n].name = name]
        BY <2>1, <3>1
      <4> QED BY <1>3, <3>1, <4>1
    <3>2. CASE n \notin DOMAIN engagements
      <4>1. PICK row : engagements' = Insert(engagements, n, row) /\ row.name = name
        BY <2>1, <3>2
      <4> QED BY <3>2, <4>1 DEF Insert, Put
    <3> QED BY <3>1, <3>2
  <2>4. NumbersOK'
    BY <1>1, <1>2, <2>3, NumbersGrow DEF RecordsInv, SeqName
  <2>5. \A fact : EngagementFact(fact) => EngagementFact(fact)'
    BY <2>3 DEF EngagementFact
  <2>6. ASSUME n > 0 PROVE Stands(fact0)'
    <3>1. fact0[1] = "engagement" /\ fact0[2] = n /\ fact0[3] = name
      OBVIOUS
    <3> HIDE DEF fact0
    <3>2. EngagementFact(fact0)'
      BY <2>3, <2>6, <3>1 DEF EngagementFact
    <3> QED BY <3>1, <3>2, NewFact DEF Kind
  <2>7. \A fact \in known : Stands(fact)'
    BY <1>2, <2>5, FactsStay DEF RecordsInv, Stands, TargetSide, ImportSide, JournalSide
  <2> HIDE DEF fact0
  <2> QED BY <1>2, <2>2, <2>4, <2>6, <2>7 DEF RecordsInv, TargetRows, SnapshotRows
<1> QED BY <1>4, <1>5

LEMMA AddObjectiveKeeps ==
  ASSUME RecordsInv, NEW title, NEW f, AddObjective(title, f), UNCHANGED <<targets, rules, importVars>>
  PROVE  RecordsInv'
<1>1. PICK n \in Number, e \in EngagementInUse(f) :
        /\ NextSequence("objective", n, f)
        /\ IF f = "save" \/ e \notin DOMAIN engagements THEN UNCHANGED <<objectives, known>>
           ELSE /\ SaveObjective(n, [engagement |-> e, title |-> title])
                /\ Acknowledge(n, <<"objective", e, title>>, {})
  BY DEF AddObjective
<1> DEFINE row == [engagement |-> e, title |-> title]
           fact0 == <<"objective", e, title>>
<1>2. UNCHANGED <<targets, rules, hosts, networks, tags, notes, queries, engagements, snapshots>>
  BY DEF AddObjective, importVars
<1>3. /\ n > 0 => n \notin DOMAIN objectives
      /\ n \in Nat /\ DOMAIN objectives \subseteq Nat
  BY <1>1, NextNumber DEF RecordsInv, NumbersOK, Numbered, SeqName
<1>4. CASE f = "save" \/ e \notin DOMAIN engagements
  <2>1. UNCHANGED <<objectives, known>>
    BY <1>1, <1>4
  <2>2. NumbersOK'
    BY <1>1, <1>2, <2>1, NumbersGrow DEF RecordsInv, SeqName
  <2> QED BY <1>2, <2>1, <2>2, FactsStay
          DEF RecordsInv, TargetRows, SnapshotRows, Stands, TargetSide, ImportSide, JournalSide
<1>5. CASE f # "save" /\ e \in DOMAIN engagements
  <2>1. objectives' = Put(objectives, n, row)
    BY <1>1, <1>5 DEF SaveObjective
  <2>2. known' = known \cup (IF n > 0 THEN {fact0} ELSE {})
    BY <1>1, <1>5 DEF Acknowledge
  <2> HIDE DEF row
  <2>3. /\ DOMAIN objectives' = DOMAIN objectives \cup {n} /\ objectives'[n] = row
        /\ \A i \in DOMAIN objectives \ {n} : objectives'[i] = objectives[i]
    BY <2>1 DEF Put
  <2>4. NumbersOK'
    BY <1>1, <1>2, <2>3, NumbersGrow DEF RecordsInv, SeqName
  <2>5. \A fact : ObjectiveFact(fact) => ObjectiveFact(fact)'
    <3>1. \A i \in DOMAIN objectives : i > 0 => i \in DOMAIN objectives' /\ objectives'[i] = objectives[i]
      BY <1>3, <2>3
    <3> QED BY <3>1 DEF ObjectiveFact
  <2>6. ASSUME n > 0 PROVE Stands(fact0)'
    <3>1. fact0[1] = "objective" /\ fact0[2] = e /\ fact0[3] = title
      OBVIOUS
    <3> HIDE DEF fact0
    <3>2. ObjectiveFact(fact0)'
      BY <2>3, <2>6, <3>1 DEF ObjectiveFact, row
    <3> QED BY <3>1, <3>2, NewFact DEF Kind
  <2>7. \A fact \in known : Stands(fact)'
    BY <1>2, <2>5, FactsStay DEF RecordsInv, Stands, TargetSide, ImportSide, JournalSide
  <2> HIDE DEF fact0
  <2> QED BY <1>2, <2>2, <2>4, <2>6, <2>7 DEF RecordsInv, TargetRows, SnapshotRows
<1> QED BY <1>4, <1>5

LEMMA NumbersStay ==
  ASSUME NumbersOK, UNCHANGED <<seq, tags, queries, engagements, objectives, networks>>,
         DOMAIN targets' \subseteq DOMAIN targets
  PROVE  NumbersOK'
  BY DEF NumbersOK, Numbered

\* Rules are evaluated by a command of their own and when a target is assessed, and
\* what the latter contacts is ingested.
LEMMA EvaluateKeeps ==
  ASSUME RecordsInv, NEW f, Evaluate(f), UNCHANGED <<targets, rules, networks>>,
         hosts \subseteq hosts'
  PROVE  RecordsInv'
<1>1. UNCHANGED <<known, tags, notes, queries, engagements, objectives>>
  BY DEF Evaluate
<1>2. /\ NumbersOK'
      /\ \A id \in DOMAIN snapshots : id \in DOMAIN snapshots' /\ snapshots'[id] = snapshots[id]
      /\ SnapshotRows'
  <2>1. PICK report \in Report :
          IF f = "finding" THEN UNCHANGED <<seq, assessments, snapshots>>
          ELSE \E n \in Number :
                 /\ NextSequence("assessment", n, f)
                 /\ IF f = "snapshot"
                    THEN InsertAssessment(<<"ASSESS", n>>) /\ UNCHANGED snapshots
                    ELSE SaveAssessmentSnapshot(<<"SNAP-ASSESS", n>>,
                                                SnapshotRow(<<"ASSESS", n>>, report))
    BY DEF Evaluate
  <2>2. CASE f = "finding"
    <3>1. UNCHANGED <<seq, snapshots>>
      BY <2>1, <2>2
    <3> QED BY <1>1, <3>1, NumbersStay DEF RecordsInv, SnapshotRows
  <2>3. CASE f # "finding"
    <3>1. PICK n \in Number :
            /\ NextSequence("assessment", n, f)
            /\ IF f = "snapshot"
               THEN InsertAssessment(<<"ASSESS", n>>) /\ UNCHANGED snapshots
               ELSE SaveAssessmentSnapshot(<<"SNAP-ASSESS", n>>,
                                           SnapshotRow(<<"ASSESS", n>>, report))
      BY <2>1, <2>3
    <3>2. NumbersOK'
      BY <1>1, <3>1, NumbersGrow DEF RecordsInv, SeqName
    <3>3. CASE UNCHANGED snapshots
      BY <3>2, <3>3 DEF RecordsInv, SnapshotRows
    <3>4. CASE f # "snapshot"
      <4>1. PICK row : /\ snapshots' = Insert(snapshots, <<"SNAP-ASSESS", n>>, row)
                       /\ row.assessment = <<"ASSESS", n>>
        BY <3>1, <3>4 DEF SaveAssessmentSnapshot, InsertAssessmentSnapshot, SnapshotRow
      <4>2. <<"SNAP-ASSESS", n>> \in SnapshotsOf(<<"ASSESS", n>>)
        BY DEF SnapshotsOf
      <4> QED BY <3>2, <4>1, <4>2 DEF Insert, Put, RecordsInv, SnapshotRows
    <3> QED BY <3>1, <3>3, <3>4
  <2> QED BY <2>2, <2>3
<1>3. \A fact : SnapshotFact(fact) => SnapshotFact(fact)'
  BY <1>2 DEF SnapshotFact
<1>4. \A fact : HostFact(fact) => HostFact(fact)'
  BY DEF HostFact
<1>5. \A fact \in known : Stands(fact)'
  BY <1>1, <1>3, <1>4, FactsStay DEF RecordsInv, Stands, TargetSide, ImportSide, JournalSide
<1> QED BY <1>1, <1>2, <1>5 DEF RecordsInv, TargetRows

LEMMA TakeSnapshotKeeps ==
  ASSUME RecordsInv, NEW id, NEW f, TakeSnapshot(id, f), NumbersOK',
         UNCHANGED <<targets, rules, hosts, networks, tags, notes, queries, engagements, objectives>>
  PROVE  RecordsInv'
<1>c. PICK content : content = IF f = "list" THEN NoRows ELSE findings
  OBVIOUS
<1> DEFINE fact0 == <<"snapshot", id, content>>
<1>1. CASE f = "save" \/ id \in DOMAIN snapshots
  <2>1. UNCHANGED <<snapshots, known>>
    BY <1>1 DEF TakeSnapshot
  <2> QED BY <2>1, FactsStay
          DEF RecordsInv, TargetRows, SnapshotRows, Stands, TargetSide, ImportSide, JournalSide
<1>2. CASE f # "save" /\ id \notin DOMAIN snapshots
  <2>1. /\ SaveAssessmentSnapshot(id, SnapshotRow(id, content))
        /\ known' = known \cup {fact0}
    BY <1>c, <1>2 DEF TakeSnapshot
  <2>2. PICK row : /\ snapshots' = Insert(snapshots, id, row)
                   /\ row.assessment = id /\ row.content = content
    BY <2>1 DEF SaveAssessmentSnapshot, InsertAssessmentSnapshot, SnapshotRow
  <2>3. /\ DOMAIN snapshots' = DOMAIN snapshots \cup {id} /\ snapshots'[id] = row
        /\ \A i \in DOMAIN snapshots : snapshots'[i] = snapshots[i]
    BY <1>2, <2>2 DEF Insert, Put
  <2>4. SnapshotRows'
    BY <2>2, <2>3 DEF SnapshotRows, RecordsInv
  <2>5. \A fact : SnapshotFact(fact) => SnapshotFact(fact)'
    BY <2>3 DEF SnapshotFact
  <2>6. Stands(fact0)'
    <3>1. fact0[1] = "snapshot" /\ fact0[2] = id /\ fact0[3] = content
      OBVIOUS
    <3> HIDE DEF fact0
    <3>2. SnapshotFact(fact0)'
      BY <2>2, <2>3, <3>1 DEF SnapshotFact
    <3> QED BY <3>1, <3>2, NewFact DEF Kind
  <2>7. \A fact \in known : Stands(fact)'
    BY <2>5, FactsStay DEF RecordsInv, Stands, TargetSide, ImportSide, JournalSide
  <2> HIDE DEF fact0
  <2> QED BY <2>1, <2>4, <2>6, <2>7 DEF RecordsInv, TargetRows
<1> QED BY <1>1, <1>2

LEMMA CreateSnapshotKeeps ==
  ASSUME RecordsInv, NEW name \in SnapName \cup {NoName}, NEW f, CreateSnapshot(name, f),
         UNCHANGED <<targets, rules, importVars>>
  PROVE  RecordsInv'
<1>1. UNCHANGED <<targets, rules, hosts, networks, tags, notes, queries, engagements, objectives>>
  BY DEF CreateSnapshot, importVars
<1>2. CASE name # NoName /\ TakeSnapshot(name, f) /\ UNCHANGED seq
  <2>1. NumbersOK'
    BY <1>1, <1>2, NumbersStay DEF RecordsInv
  <2> QED BY <1>1, <1>2, <2>1, TakeSnapshotKeeps
<1>3. ASSUME NEW n, NextSequence("snapshot", n, f), TakeSnapshot(<<"SNAP", n>>, f) PROVE RecordsInv'
  <2>1. NumbersOK'
    BY <1>1, <1>3, NumbersGrow DEF RecordsInv, SeqName
  <2> QED BY <1>1, <1>3, <2>1, TakeSnapshotKeeps
<1> QED BY <1>2, <1>3 DEF CreateSnapshot

----------------------------------------------------------------------------
(* Targets and rules are kept until they are deleted *)

LEMMA ActivateKeeps ==
  ASSUME RecordsInv, NEW i \in DOMAIN targets, NEW f, Activate(i, f),
         UNCHANGED <<rules, journalVars, importVars>>
  PROVE  RecordsInv'
<1>v. PICK v : v = targets[i].value
  OBVIOUS
<1> DEFINE row == [targets[i] EXCEPT !.status = "active"]
           fact0 == <<"target", v>>
<1>1. UNCHANGED <<seq, rules, hosts, networks, tags, notes, queries, engagements, objectives, snapshots>>
  BY DEF Activate, journalVars, importVars
<1>2. CASE f = "save"
  <2>1. UNCHANGED <<targets, known>>
    BY <1>2 DEF Activate
  <2> QED BY <1>1, <2>1, FactsStay, NumbersStay
          DEF RecordsInv, TargetRows, SnapshotRows, Stands, TargetSide, ImportSide, JournalSide
<1>3. CASE f # "save"
  <2>1. targets' = [targets EXCEPT ![i] = row]
    BY <1>3 DEF Activate, SaveTarget, GetTarget, UpdateTarget
  <2>2. known' = known \cup (IF i > 0 THEN {fact0} ELSE {})
    BY <1>v, <1>3 DEF Activate, ReturnTarget, Acknowledge
  <2>3. row = targets[i]
    BY DEF RecordsInv, TargetRows
  <2>4. /\ DOMAIN targets' = DOMAIN targets /\ \A k \in DOMAIN targets : targets'[k] = targets[k]
    BY <2>1, <2>3
  <2>5. NumbersOK' /\ TargetRows' /\ SnapshotRows'
    BY <1>1, <2>4, NumbersStay DEF RecordsInv, TargetRows, SnapshotRows
  <2>6. \A fact : TargetFact(fact) => TargetFact(fact)'
    BY <2>4 DEF TargetFact
  <2>7. ASSUME i > 0 PROVE Stands(fact0)'
    <3>1. fact0[1] = "target" /\ fact0[2] = v /\ fact0 = <<"target", fact0[2]>>
      OBVIOUS
    <3> HIDE DEF fact0
    <3>2. i > 0 /\ i \in DOMAIN targets' /\ targets'[i].value = v
      BY <1>v, <2>4, <2>7
    <3>3. TargetFact(fact0)'
      BY <3>1, <3>2 DEF TargetFact
    <3> QED BY <3>1, <3>3, NewFact DEF Kind
  <2>8. \A fact \in known : Stands(fact)'
    BY <1>1, <2>6, FactsStay DEF RecordsInv, Stands, TargetSide, ImportSide, JournalSide
  <2> HIDE DEF fact0
  <2> QED BY <2>2, <2>5, <2>7, <2>8 DEF RecordsInv
<1> QED BY <1>2, <1>3

LEMMA CreateKeeps ==
  ASSUME RecordsInv, NEW value \in Values, NEW f, Create(value, f),
         UNCHANGED <<rules, journalVars, importVars>>
  PROVE  RecordsInv'
<1> DEFINE row == [value |-> value, status |-> "active"]
           fact0 == <<"target", value>>
<1>1. UNCHANGED <<rules, hosts, networks, tags, notes, queries, engagements, objectives, snapshots>>
  BY DEF journalVars, importVars
<1>2. CASE UNCHANGED <<targets, seq, audit, known>>
  BY <1>1, <1>2, FactsStay, NumbersStay
     DEF RecordsInv, TargetRows, SnapshotRows, Stands, TargetSide, ImportSide, JournalSide
<1>3. ASSUME NEW n \in Number, NextSequence("target", n, f),
             IF f = "save" THEN UNCHANGED <<targets, audit, known>>
             ELSE SaveTarget(n, row) /\ ReturnTarget(n, value, "created")
      PROVE  RecordsInv'
  <2>1. CASE f = "save"
    <3>1. UNCHANGED <<targets, known>>
      BY <1>3, <2>1
    <3>2. NumbersOK'
      BY <1>1, <1>3, <3>1, NumbersGrow DEF RecordsInv, SeqName
    <3> QED BY <1>1, <3>1, <3>2, FactsStay
            DEF RecordsInv, TargetRows, SnapshotRows, Stands, TargetSide, ImportSide, JournalSide
  <2>2. CASE f # "save"
    <3>1. targets' = IF n \in DOMAIN targets THEN [targets EXCEPT ![n] = row]
                                             ELSE Insert(targets, n, row)
      BY <1>3, <2>2 DEF SaveTarget, GetTarget, UpdateTarget, InsertTarget
    <3>2. known' = known \cup (IF n > 0 THEN {fact0} ELSE {})
      BY <1>3, <2>2 DEF ReturnTarget, Acknowledge
    <3>3. /\ n > 0 => n \notin DOMAIN targets
          /\ n \in Nat /\ DOMAIN targets \subseteq Nat
      BY <1>3, NextNumber DEF RecordsInv, NumbersOK, Numbered, SeqName
    <3>4. row \in [value : Values, status : {"active"}] /\ row.value = value
      OBVIOUS
    <3> HIDE DEF row
    <3>5. /\ DOMAIN targets' = DOMAIN targets \cup {n} /\ targets'[n] = row
          /\ \A i \in DOMAIN targets \ {n} : targets'[i] = targets[i]
      BY <3>1 DEF Insert, Put
    <3>6. NumbersOK'
      BY <1>1, <1>3, <3>5, NumbersGrow DEF RecordsInv, SeqName
    <3>7. TargetRows' /\ SnapshotRows'
      BY <1>1, <3>4, <3>5 DEF RecordsInv, TargetRows, SnapshotRows
    <3>8. \A fact : TargetFact(fact) => TargetFact(fact)'
      <4>1. \A i \in DOMAIN targets : i > 0 => i \in DOMAIN targets' /\ targets'[i] = targets[i]
        BY <3>3, <3>5
      <4> QED BY <4>1 DEF TargetFact
    <3>9. ASSUME n > 0 PROVE Stands(fact0)'
      <4>1. fact0[1] = "target" /\ fact0[2] = value /\ fact0 = <<"target", fact0[2]>>
        OBVIOUS
      <4> HIDE DEF fact0
      <4>2. TargetFact(fact0)'
        BY <3>4, <3>5, <3>9, <4>1 DEF TargetFact
      <4> QED BY <4>1, <4>2, NewFact DEF Kind
    <3>10. \A fact \in known : Stands(fact)'
      BY <1>1, <3>8, FactsStay DEF RecordsInv, Stands, TargetSide, ImportSide, JournalSide
    <3> HIDE DEF fact0
    <3> QED BY <3>2, <3>6, <3>7, <3>9, <3>10 DEF RecordsInv
  <2> QED BY <2>1, <2>2
<1> QED BY <1>2, <1>3 DEF Create

LEMMA SetTargetKeeps ==
  ASSUME RecordsInv, NEW input \in Input, NEW f, SetTarget(input, f),
         UNCHANGED <<journalVars, importVars>>
  PROVE  RecordsInv'
<1> DEFINE value == Normalized(input)
           found == IF f = "lookup" THEN {} ELSE GetTargetByNormalizedValue(value)
<1>1. /\ value \in Values /\ found \subseteq DOMAIN targets
      /\ UNCHANGED <<rules, journalVars, importVars>>
  BY DEF SetTarget, Values, GetTargetByNormalizedValue
<1>2. IF found # {} THEN \E i \in found : Activate(i, f) ELSE Create(value, f)
  BY DEF SetTarget
<1> HIDE DEF value, found
<1> QED BY <1>1, <1>2, ActivateKeeps, CreateKeeps

LEMMA DeleteTargetKeeps ==
  ASSUME RecordsInv, NEW i \in DOMAIN targets, DeleteTarget(i), UNCHANGED <<journalVars, importVars>>
  PROVE  RecordsInv'
<1>v. PICK v : v = targets[i].value
  OBVIOUS
<1>1. UNCHANGED <<seq, rules, hosts, networks, tags, notes, queries, engagements, objectives, snapshots>>
  BY DEF DeleteTarget, journalVars, importVars
<1>2. /\ DOMAIN targets' = DOMAIN targets \ {i} /\ known' = known \ {<<"target", v>>}
      /\ \A k \in DOMAIN targets \ {i} : targets'[k] = targets[k]
  BY <1>v DEF DeleteTarget, Without
<1>3. NumbersOK' /\ TargetRows' /\ SnapshotRows'
  BY <1>1, <1>2, NumbersStay DEF RecordsInv, TargetRows, SnapshotRows
<1>4. ASSUME NEW fact \in known' PROVE TargetFact(fact)'
  <2> SUFFICES ASSUME fact[1] = "target"
               PROVE  /\ fact = <<"target", fact[2]>>
                      /\ \E k \in DOMAIN targets' : k > 0 /\ targets'[k].value = fact[2]
    BY DEF TargetFact
  <2>1. fact \in known /\ fact # <<"target", v>>
    BY <1>2
  <2>2. TargetFact(fact)
    BY <2>1 DEF RecordsInv, Stands, TargetSide
  <2>3. fact = <<"target", fact[2]>>
    BY <2>2 DEF TargetFact
  <2>4. PICK k \in DOMAIN targets : k > 0 /\ targets[k].value = fact[2]
    BY <2>2 DEF TargetFact
  <2>5. fact[2] # v
    BY <2>1, <2>3
  <2>6. k # i
    BY <1>v, <2>4, <2>5
  <2> QED BY <1>2, <2>3, <2>4, <2>6
<1>5. \A fact \in known' : Stands(fact)'
  BY <1>1, <1>2, <1>4, FactsStay DEF RecordsInv, Stands, TargetSide, ImportSide, JournalSide
<1> QED BY <1>3, <1>5 DEF RecordsInv

LEMMA AddScopeRuleKeeps ==
  ASSUME RecordsInv, NEW type, NEW pattern \in Pattern, NEW f, AddScopeRule(type, pattern, f),
         UNCHANGED <<journalVars, importVars>>
  PROVE  RecordsInv'
<1> DEFINE row == [type |-> type, pattern |-> RulePattern(pattern)]
<1>1. PICK n \in Number :
        /\ NextSequence("scoperule", n, f)
        /\ rules' = IF f = "save" THEN rules ELSE InsertScopeRule(n, row)
        /\ known' = IF f = "save" \/ n \in DOMAIN rules THEN known
                    ELSE known \cup {<<"rule", n, type, pattern>>}
  BY DEF AddScopeRule
<1> DEFINE fact0 == <<"rule", n, type, pattern>>
<1>2. UNCHANGED <<targets, hosts, networks, tags, notes, queries, engagements, objectives, snapshots>>
  BY DEF AddScopeRule, journalVars, importVars
<1>3. NumbersOK' /\ TargetRows' /\ SnapshotRows'
  BY <1>1, <1>2, NumbersGrow DEF RecordsInv, TargetRows, SnapshotRows, SeqName
<1> HIDE DEF row
<1>4. \A i \in DOMAIN rules : i \in DOMAIN rules' /\ rules'[i] = rules[i]
  BY <1>1 DEF InsertScopeRule, Insert, Put
<1>5. \A fact : RuleFact(fact) => RuleFact(fact)'
  BY <1>4 DEF RuleFact
<1>6. ASSUME f # "save", n \notin DOMAIN rules PROVE Stands(fact0)'
  <2>1. n \in DOMAIN rules' /\ rules'[n] = row
    BY <1>1, <1>6 DEF InsertScopeRule, Insert, Put
  <2>2. fact0[1] = "rule" /\ fact0[2] = n /\ fact0[3] = type /\ fact0[4] = pattern
    OBVIOUS
  <2> HIDE DEF fact0
  <2>3. RuleFact(fact0)'
    BY <2>1, <2>2 DEF RuleFact, row
  <2> QED BY <2>2, <2>3, NewFact DEF Kind
<1>7. \A fact \in known : Stands(fact)'
  BY <1>2, <1>5, FactsStay DEF RecordsInv, Stands, TargetSide, ImportSide, JournalSide
<1>8. known' \subseteq known \/ (f # "save" /\ n \notin DOMAIN rules /\ known' = known \cup {fact0})
  BY <1>1
<1> HIDE DEF fact0
<1> QED BY <1>3, <1>6, <1>7, <1>8 DEF RecordsInv

LEMMA DeleteScopeRuleKeeps ==
  ASSUME RecordsInv, NEW i \in DOMAIN rules, DeleteScopeRule(i), UNCHANGED <<journalVars, importVars>>
  PROVE  RecordsInv'
<1>1. UNCHANGED <<seq, targets, hosts, networks, tags, notes, queries, engagements, objectives,
                  snapshots>>
  BY DEF DeleteScopeRule, journalVars, importVars
<1>2. /\ DOMAIN rules' = DOMAIN rules \ {i} /\ \A k \in DOMAIN rules \ {i} : rules'[k] = rules[k]
      /\ known' = {fact \in known : fact[1] # "rule" \/ fact[2] # i}
  BY DEF DeleteScopeRule, Without
<1>3. NumbersOK' /\ TargetRows' /\ SnapshotRows'
  BY <1>1, NumbersStay DEF RecordsInv, TargetRows, SnapshotRows
<1>4. ASSUME NEW fact \in known' PROVE RuleFact(fact)'
  <2>1. RuleFact(fact)
    BY <1>2 DEF RecordsInv, Stands, TargetSide
  <2> QED BY <1>2, <2>1 DEF RuleFact
<1>5. \A fact \in known' : Stands(fact)'
  BY <1>1, <1>2, <1>4, FactsStay DEF RecordsInv, Stands, TargetSide, ImportSide, JournalSide
<1> QED BY <1>3, <1>5 DEF RecordsInv

----------------------------------------------------------------------------
(* An import keeps what was acknowledged *)

\* The minimum of FiniteSetsExt is one: of the elements of S up to each of them, the
\* fewest are those up to the least.
LEMMA MinExists ==
  ASSUME NEW S, S \subseteq Nat, S # {}
  PROVE  Min(S) \in S /\ \A y \in S : Min(S) <= y
<1> DEFINE UpTo(x) == {y \in S : y <= x}
           F == {UpTo(x) : x \in S}
<1>1. ASSUME NEW x \in S PROVE UpTo(x) \in FiniteSubsetsOf(Nat)
  BY FS_BoundedSetOfNaturals DEF FiniteSubsetsOf
<1>2. F \subseteq FiniteSubsetsOf(Nat) /\ F # {}
  BY <1>1
<1>3. PICK U \in F : \A V \in F : <<V, U>> \notin StrictSubsetOrdering(Nat)
  BY <1>2, WFMin, FS_StrictSubsetOrderingWellFounded
<1>4. PICK x \in S : U = UpTo(x)
  OBVIOUS
<1>5. ASSUME NEW y \in S, y < x PROVE FALSE
  <2>1. UpTo(y) \in F /\ UpTo(y) \subseteq UpTo(x)
    <3>1. \A z \in UpTo(y) : z \in S /\ z <= x
      BY <1>5
    <3> QED BY <3>1
  <2>2. x \in UpTo(x) /\ x \notin UpTo(y)
    BY <1>5
  <2>3. UpTo(y) \in SUBSET Nat /\ UpTo(x) \in SUBSET Nat
    OBVIOUS
  <2> HIDE DEF UpTo
  <2>4. <<UpTo(y), UpTo(x)>> \in StrictSubsetOrdering(Nat)
    BY <2>1, <2>2, <2>3 DEF StrictSubsetOrdering
  <2> QED BY <1>3, <1>4, <2>1, <2>4
<1>6. \A y \in S : x <= y
  BY <1>5
<1> QED BY <1>6 DEF Min

\* What holds of 0 and, with a number, of the next one holds up to N.
LEMMA FirstFailure ==
  ASSUME NEW N \in Nat, NEW Good, 0 \in Good, \A n \in 1 .. N : n - 1 \in Good => n \in Good
  PROVE  \A n \in 0 .. N : n \in Good
<1> SUFFICES ASSUME (0 .. N) \ Good # {} PROVE FALSE
  OBVIOUS
<1> DEFINE Bad == (0 .. N) \ Good
<1>1. Bad \subseteq Nat /\ Bad # {}
  OBVIOUS
<1>2. PICK n \in Bad : \A m \in Bad : n <= m
  <2> HIDE DEF Bad
  <2> QED BY <1>1, MinExists
<1>3. n \in 1 .. N
  BY <1>2
<1>4. n - 1 \in (0 .. N) /\ n - 1 \notin Bad
  BY <1>2, <1>3
<1> QED BY <1>2, <1>3, <1>4

\* The rows of a table stay when others are added.
Grown(rows, later) == \A i \in DOMAIN rows : i \in DOMAIN later /\ later[i] = rows[i]

\* The state of the table: its rows, none above the number last given.
TableState(s) ==
  /\ s = [rows |-> s.rows, number |-> s.number]
  /\ s.number \in Nat
  /\ \A i \in DOMAIN s.rows : i \in Nat /\ i <= s.number

LEMMA IngestKeeps ==
  ASSUME NEW s, TableState(s), NEW net, NEW f, NEW t, t = IngestNetwork(s, net, f)
  PROVE  /\ TableState(t) /\ s.number <= t.number /\ Grown(s.rows, t.rows)
         /\ f \notin {"number", "save"} => \E i \in DOMAIN t.rows : t.rows[i] = NormalizeCIDR(net)
<1> DEFINE cidr == NormalizeCIDR(net)
<1>1. s.number \in Nat /\ \A i \in DOMAIN s.rows : i \in Nat /\ i <= s.number
  BY DEF TableState
<1>2. CASE FindNetworkByCIDR(s.rows, cidr) # {}
  BY <1>1, <1>2 DEF IngestNetwork, FindNetworkByCIDR, Grown
<1>3. CASE FindNetworkByCIDR(s.rows, cidr) = {} /\ f = "number"
  <2>1. t = [s EXCEPT !.rows = SaveNetwork(@, 0, net)]
    BY <1>3 DEF IngestNetwork
  <2>2. PICK rows : rows = SaveNetwork(s.rows, 0, net)
    OBVIOUS
  <2>3. t = [rows |-> rows, number |-> s.number]
    BY <2>1, <2>2 DEF TableState
  <2>4. DOMAIN rows = DOMAIN s.rows \cup {0} /\ Grown(s.rows, rows)
    BY <2>2 DEF SaveNetwork, InsertNetwork, Insert, Put, Grown
  <2>5. \A i \in DOMAIN rows : i \in Nat /\ i <= s.number
    BY <1>1, <2>4
  <2> QED BY <1>1, <1>3, <2>3, <2>4, <2>5 DEF TableState
<1>4. CASE FindNetworkByCIDR(s.rows, cidr) = {} /\ f = "save"
  <2>1. t = [s EXCEPT !.number = @ + 1]
    BY <1>4 DEF IngestNetwork
  <2>2. t = [rows |-> s.rows, number |-> s.number + 1]
    BY <2>1 DEF TableState
  <2> QED BY <1>1, <1>4, <2>2 DEF TableState, Grown
<1>5. CASE FindNetworkByCIDR(s.rows, cidr) = {} /\ f \notin {"number", "save"}
  <2>1. PICK id, rows : id = s.number + 1 /\ rows = SaveNetwork(s.rows, id, net)
    OBVIOUS
  <2>2. t = [rows |-> rows, number |-> s.number + 1]
    BY <1>5, <2>1 DEF IngestNetwork
  <2>3. id \notin DOMAIN s.rows
    BY <1>1, <2>1
  <2>4. DOMAIN rows = DOMAIN s.rows \cup {s.number + 1} /\ Grown(s.rows, rows)
    BY <2>1 DEF SaveNetwork, InsertNetwork, Insert, Put, Grown
  <2>5. rows[s.number + 1] = cidr
    BY <2>1, <2>3 DEF SaveNetwork, InsertNetwork, Insert, Put
  <2>6. \A i \in DOMAIN rows : i \in Nat /\ i <= s.number + 1
    BY <1>1, <2>4
  <2> QED BY <1>1, <2>2, <2>4, <2>5, <2>6 DEF TableState
<1> QED BY <1>2, <1>3, <1>4, <1>5

\* Ingestion keeps the rows there are and, unless a statement fails, stores every
\* network.
LEMMA IngestedKeeps ==
  ASSUME NEW start, TableState(start), NEW nets, Len(nets) \in Nat, NEW f, NEW at,
         NEW end, end = Ingested(start, nets, f, at)
  PROVE  /\ TableState(end) /\ start.number <= end.number /\ Grown(start.rows, end.rows)
         /\ f = "none" => \A k \in 1 .. Len(nets) :
                            \E i \in DOMAIN end.rows : end.rows[i] = NormalizeCIDR(nets[k])
<1> DEFINE N == Len(nets)
           Step(s, n) == IngestNetwork(s, nets[n], IF n = at THEN f ELSE "none")
           Run(h) == h = [n \in 0 .. N |-> IF n = 0 THEN start ELSE Step(h[n - 1], n)]
           Begun(h, m) == h[0] = start /\ \A n \in 1 .. m : h[n] = Step(h[n - 1], n)
           after == CHOOSE h : Run(h)
<1>1. end = after[N]
  BY DEF Ingested
<1>2. N \in Nat
  OBVIOUS
<1> HIDE DEF N
<1>3. \E h : Begun(h, N)
  <2> HIDE DEF Step
  <2> DEFINE Good == {m \in Nat : \E h : Begun(h, m)}
  <2>1. 0 \in Good
    <3>1. Begun([n \in {0} |-> start], 0)
      OBVIOUS
    <3> QED BY <3>1
  <2>2. ASSUME NEW m \in 1 .. N, m - 1 \in Good PROVE m \in Good
    <3>1. PICK h : Begun(h, m - 1)
      BY <2>2
    <3> DEFINE g == [n \in 0 .. m |-> IF n = m THEN Step(h[m - 1], m) ELSE h[n]]
    <3>2. \A n \in 0 .. m : n # m => g[n] = h[n]
      OBVIOUS
    <3>3. g[m] = Step(h[m - 1], m) /\ g[m - 1] = h[m - 1]
      BY <1>2
    <3> HIDE DEF g
    <3>4. g[0] = start
      BY <3>1, <3>2
    <3>5. ASSUME NEW n \in 1 .. m PROVE g[n] = Step(g[n - 1], n)
      <4>1. CASE n = m
        BY <3>3, <4>1
      <4>2. CASE n # m
        <5>1. n \in 1 .. (m - 1) /\ n - 1 \in 0 .. m /\ n - 1 # m /\ n \in 0 .. m
          BY <4>2
        <5> QED BY <3>1, <3>2, <4>2, <5>1
      <4> QED BY <4>1, <4>2
    <3>6. Begun(g, m)
      BY <3>4, <3>5
    <3> QED BY <3>6
  <2> HIDE DEF Good
  <2>3. N \in Good
    BY <1>2, <2>1, <2>2, FirstFailure
  <2> QED BY <2>3 DEF Good
<1>4. \E h : Run(h)
  <2> HIDE DEF Step
  <2>1. PICK h : Begun(h, N)
    BY <1>3
  <2> DEFINE g == [n \in 0 .. N |-> h[n]]
  <2>2. \A n \in 0 .. N : g[n] = IF n = 0 THEN start ELSE Step(g[n - 1], n)
    BY <1>2, <2>1
  <2>3. Run(g)
    <3> DEFINE r == [n \in 0 .. N |-> IF n = 0 THEN start ELSE Step(g[n - 1], n)]
    <3>1. \A n \in 0 .. N : g[n] = r[n]
      BY <2>2
    <3>2. g = r
      BY <3>1
    <3> QED BY <3>2
  <2> QED BY <2>3
<1>5. Run(after)
  <2> HIDE DEF Run
  <2> QED BY <1>4
<1> HIDE DEF after
<1>6. after[0] = start /\ \A n \in 1 .. N : after[n] = Step(after[n - 1], n)
  <2> HIDE DEF Step
  <2> QED BY <1>2, <1>5
<1> DEFINE Stored(k, s) == \E i \in DOMAIN s.rows : s.rows[i] = NormalizeCIDR(nets[k])
           Kept(n) == LET s == after[n] IN
                      /\ TableState(s) /\ start.number <= s.number /\ Grown(start.rows, s.rows)
                      /\ f = "none" => \A k \in 1 .. n : Stored(k, s)
           Good == {n \in Nat : Kept(n)}
<1>7. 0 \in Good
  BY <1>6 DEF TableState, Grown
<1>8. ASSUME NEW n \in 1 .. N, n - 1 \in Good PROVE n \in Good
  <2>1. PICK s, t : s = after[n - 1] /\ t = after[n]
    OBVIOUS
  <2>2. PICK g : g = IF n = at THEN f ELSE "none"
    OBVIOUS
  <2>3. t = IngestNetwork(s, nets[n], g)
    BY <1>6, <2>1, <2>2
  <2>4. /\ TableState(s) /\ start.number <= s.number /\ Grown(start.rows, s.rows)
        /\ f = "none" => \A k \in 1 .. n - 1 : Stored(k, s)
    BY <1>8, <2>1
  <2>5. /\ TableState(t) /\ s.number <= t.number /\ Grown(s.rows, t.rows)
        /\ f = "none" => Stored(n, t)
    BY <2>2, <2>3, <2>4, IngestKeeps
  <2>6. start.number <= t.number /\ Grown(start.rows, t.rows)
    BY <2>4, <2>5 DEF TableState, Grown
  <2>7. ASSUME f = "none", NEW k \in 1 .. n PROVE Stored(k, t)
    <3>1. CASE k = n
      BY <2>5, <2>7, <3>1
    <3>2. CASE k # n
      <4>1. Stored(k, s)
        BY <2>4, <2>7, <3>2
      <4> QED BY <2>5, <4>1 DEF Grown
    <3> QED BY <3>1, <3>2
  <2> HIDE DEF Stored
  <2> QED BY <1>8, <2>1, <2>5, <2>6, <2>7
<1> HIDE DEF Good
<1>9. N \in Good
  BY <1>2, <1>7, <1>8, FirstFailure
<1> QED BY <1>1, <1>9 DEF Good, N

\* The routes of a file are a sequence of networks.
LEMMA RoutesAreSequence ==
  ASSUME NEW lines, Len(lines) \in Nat
  PROVE  \E S : RouteNetworks(lines) \in Seq(S)
<1> DEFINE N == Len(lines)
           S == {lines[i].net : i \in 1 .. N}
           Route(line) == line.fields >= 3 /\ line.net.form \in {"cidr", "bad"}
           Step(s, n) == s \o (IF Route(lines[n]) THEN <<lines[n].net>> ELSE << >>)
           Run(h) == h = [n \in 0 .. N |-> IF n = 0 THEN << >> ELSE Step(h[n - 1], n)]
           Begun(h, m) == /\ h[0] = << >> /\ \A n \in 0 .. m : h[n] \in Seq(S)
                          /\ \A n \in 1 .. m : h[n] = Step(h[n - 1], n)
           routes == CHOOSE h : Run(h)
<1>1. RouteNetworks(lines) = routes[N]
  BY DEF RouteNetworks
<1>2. N \in Nat
  OBVIOUS
<1>3. ASSUME NEW n \in 1 .. N, NEW s \in Seq(S) PROVE Step(s, n) \in Seq(S)
  <2>1. lines[n].net \in S
    OBVIOUS
  <2>2. (IF Route(lines[n]) THEN <<lines[n].net>> ELSE << >>) \in Seq(S)
    <3> HIDE DEF S, Route
    <3> QED BY <2>1
  <2> HIDE DEF S, Route
  <2> QED BY <2>2
<1> HIDE DEF N, Step, S
<1>4. \E h : Begun(h, N)
  <2> DEFINE Good == {m \in Nat : \E h : Begun(h, m)}
  <2>1. 0 \in Good
    <3>1. Begun([n \in {0} |-> << >>], 0)
      OBVIOUS
    <3> QED BY <3>1
  <2>2. ASSUME NEW m \in 1 .. N, m - 1 \in Good PROVE m \in Good
    <3>1. PICK h : Begun(h, m - 1)
      BY <2>2
    <3> DEFINE g == [n \in 0 .. m |-> IF n = m THEN Step(h[m - 1], m) ELSE h[n]]
    <3>2. \A n \in 0 .. m : n # m => g[n] = h[n]
      OBVIOUS
    <3>3. g[m] = Step(h[m - 1], m) /\ g[m - 1] = h[m - 1]
      BY <1>2
    <3> HIDE DEF g
    <3>4. g[0] = << >>
      BY <3>1, <3>2
    <3>5. ASSUME NEW n \in 1 .. m PROVE g[n] = Step(g[n - 1], n)
      <4>1. CASE n = m
        BY <3>3, <4>1
      <4>2. CASE n # m
        <5>1. n \in 1 .. (m - 1) /\ n - 1 \in 0 .. m /\ n - 1 # m /\ n \in 0 .. m
          BY <4>2
        <5> QED BY <3>1, <3>2, <4>2, <5>1
      <4> QED BY <4>1, <4>2
    <3>6. ASSUME NEW n \in 0 .. m PROVE g[n] \in Seq(S)
      <4>1. h[m - 1] \in Seq(S)
        BY <3>1
      <4>2. CASE n = m
        BY <1>3, <3>3, <4>1, <4>2
      <4>3. CASE n # m
        <5>1. n \in 0 .. (m - 1)
          BY <4>3
        <5> QED BY <3>1, <3>2, <4>3, <5>1
      <4> QED BY <4>2, <4>3
    <3>7. Begun(g, m)
      BY <3>4, <3>5, <3>6
    <3> QED BY <3>7
  <2> HIDE DEF Good
  <2>3. N \in Good
    BY <1>2, <2>1, <2>2, FirstFailure
  <2> QED BY <2>3 DEF Good
<1>5. \E h : Run(h)
  <2>1. PICK h : Begun(h, N)
    BY <1>4
  <2> DEFINE g == [n \in 0 .. N |-> h[n]]
             r == [n \in 0 .. N |-> IF n = 0 THEN << >> ELSE Step(g[n - 1], n)]
  <2>2. \A n \in 0 .. N : g[n] = r[n]
    BY <1>2, <2>1
  <2>3. g = r
    BY <2>2
  <2> QED BY <2>3
<1>6. Run(routes)
  <2> HIDE DEF Run
  <2> QED BY <1>5
<1> HIDE DEF routes
<1>7. routes[0] = << >> /\ \A n \in 1 .. N : routes[n] = Step(routes[n - 1], n)
  BY <1>2, <1>6
<1> DEFINE Good == {n \in Nat : routes[n] \in Seq(S)}
<1>8. 0 \in Good
  <2>1. << >> \in Seq(S)
    OBVIOUS
  <2> QED BY <1>7, <2>1
<1>9. \A n \in 1 .. N : n - 1 \in Good => n \in Good
  BY <1>3, <1>7
<1> HIDE DEF Good
<1>10. N \in Good
  BY <1>2, <1>8, <1>9, FirstFailure
<1> QED BY <1>1, <1>10 DEF Good

\* The networks that a file observes are a sequence.
LEMMA NetworksAreSequence ==
  ASSUME NEW file \in File, NEW obs \in ConvertToObservations(file, DetectFormat(file))
  PROVE  \E S : obs.networks \in Seq(S)
<1>1. << >> \in Seq({})
  OBVIOUS
<1>2. PICK format : format = DetectFormat(file)
  OBVIOUS
<1>3. format \in {"json", "nmapxml", "dnsdata", "arp", "routing", "pcapmeta"}
  BY <1>2 DEF DetectFormat
<1>4. CASE format = "json"
  <2>1. obs.networks = file.networks
    BY <1>2, <1>4 DEF ConvertToObservations
  <2> QED BY <1>2, <1>4, <2>1, ImporterAssumption
<1>5. CASE format = "routing"
  <2>1. obs.networks = RouteNetworks(file.lines)
    BY <1>2, <1>5 DEF ConvertToObservations
  <2>2. Len(file.lines) \in Nat
    BY ImporterAssumption
  <2> QED BY <2>1, <2>2, RoutesAreSequence
<1>6. CASE format \in {"nmapxml", "dnsdata", "arp", "pcapmeta"}
  <2>1. obs.networks = << >>
    BY <1>2, <1>6 DEF ConvertToObservations
  <2> QED BY <1>1, <2>1
<1> QED BY <1>3, <1>4, <1>5, <1>6

LEMMA ImportFileKeeps ==
  ASSUME RecordsInv, NEW file \in File, NEW f, NEW at, ImportFile(file, f, at),
         UNCHANGED <<targets, rules, journalVars>>
  PROVE  RecordsInv'
<1> DEFINE First(bad, all) == SubSeq(all, 1, Min(bad \cup {Len(all) + 1}) - 1)
           Bad(all) == {i \in DOMAIN all : all[i].form = "bad" \/ (f = "lookup" /\ i = at)}
           start == [rows |-> networks, number |-> seq["network"]]
           Found(obs, ips, nets, end, stored) ==
             /\ nets = << >> \/ nets = First(Bad(obs.networks), obs.networks)
             /\ end = Ingested(start, nets, f, at)
             /\ hosts' = hosts \cup stored
             /\ networks' = end.rows /\ seq' = [seq EXCEPT !["network"] = end.number]
             /\ known' = known \/ (f = "none" /\
                  known' = known \cup {<<"host", ip>> : ip \in stored}
                                 \cup {<<"network", NormalizeCIDR(nets[i])>> : i \in DOMAIN nets})
<1> DEFINE Ips(obs) == First({i \in DOMAIN obs.hosts : obs.hosts[i].form = "bad" \/ (f = "host" /\ i = at)},
                          obs.hosts)
           Nets(obs) == IF Ips(obs) = obs.hosts THEN First(Bad(obs.networks), obs.networks) ELSE << >>
           End(obs) == Ingested(start, Nets(obs), f, at)
           Stored(obs) == {NormalizeIP(Ips(obs)[i]) : i \in {i \in DOMAIN Ips(obs) : Ips(obs)[i].form = "ip"}}
<1>1. PICK obs \in ConvertToObservations(file, DetectFormat(file)) :
        /\ hosts' = hosts \cup Stored(obs)
        /\ networks' = End(obs).rows /\ seq' = [seq EXCEPT !["network"] = End(obs).number]
        /\ known' = IF (Ips(obs) = obs.hosts /\ Nets(obs) = obs.networks) /\ f = "none"
                    THEN known \cup {<<"host", ip>> : ip \in Stored(obs)}
                               \cup {<<"network", NormalizeCIDR(Nets(obs)[i])>> : i \in DOMAIN Nets(obs)}
                    ELSE known
  BY DEF ImportFile, Before
<1>2. PICK ips, nets, end, stored : Found(obs, ips, nets, end, stored)
  <2>1. PICK ips : ips = Ips(obs)
    OBVIOUS
  <2>2. PICK nets : nets = Nets(obs)
    OBVIOUS
  <2>3. PICK end : end = End(obs)
    OBVIOUS
  <2>4. PICK stored : stored = Stored(obs)
    OBVIOUS
  <2>5. nets = << >> \/ nets = First(Bad(obs.networks), obs.networks)
    BY <2>2
  <2>6. end = Ingested(start, nets, f, at)
    BY <2>2, <2>3
  <2> HIDE DEF Ips, Nets, End, Stored, First, start
  <2>7. Found(obs, ips, nets, end, stored)
    BY <1>1, <2>2, <2>3, <2>4, <2>5, <2>6
  <2> HIDE DEF Found
  <2> QED BY <2>7
<1> HIDE DEF Ips, Nets, End, Stored
<1>3. UNCHANGED <<targets, rules, tags, notes, queries, engagements, objectives, snapshots>>
  BY DEF journalVars
<1>4. Len(nets) \in Nat /\ DOMAIN nets = 1 .. Len(nets)
  <2>1. PICK all : all = obs.networks
    OBVIOUS
  <2>2. PICK S : all \in Seq(S)
    BY <2>1, NetworksAreSequence
  <2>3. PICK bad : bad = Bad(all) \cup {Len(all) + 1}
    OBVIOUS
  <2>4. bad # {} /\ bad \subseteq Nat \ {0}
    BY <2>2, <2>3
  <2>5. Min(bad) \in bad
    BY <2>4, MinExists
  <2>6. PICK n \in Nat : n = Min(bad) - 1
    <3>1. Min(bad) \in Nat \ {0}
      BY <2>4, <2>5
    <3>2. Min(bad) - 1 \in Nat
      BY <3>1
    <3> QED BY <3>2
  <2>7. n <= Len(all)
    BY <2>2, <2>3, <2>4, <2>5, <2>6, MinExists
  <2>8. CASE nets = << >>
    BY <2>8
  <2>9. CASE nets = SubSeq(all, 1, n)
    BY <2>2, <2>7, <2>9
  <2> QED BY <1>2, <2>1, <2>3, <2>6, <2>8, <2>9
<1>5. TableState(start)
  BY DEF TableState, RecordsInv, NumbersOK, Numbered, SeqName
<1>6. /\ TableState(end) /\ seq["network"] <= end.number /\ Grown(networks, end.rows)
      /\ f = "none" => \A k \in DOMAIN nets :
                         \E i \in DOMAIN end.rows : end.rows[i] = NormalizeCIDR(nets[k])
  <2>1. start.rows = networks /\ start.number = seq["network"]
    OBVIOUS
  <2> HIDE DEF start
  <2> QED BY <1>2, <1>4, <1>5, <2>1, IngestedKeeps
<1>7. Grown(networks, networks') /\ hosts \subseteq hosts'
  BY <1>2, <1>6
<1>8. NumbersOK'
  <2>1. end.number \in Nat /\ \A i \in DOMAIN end.rows : i \in Nat /\ i <= end.number
    BY <1>6 DEF TableState
  <2>2. /\ seq' \in [SeqName -> Nat] /\ seq'["network"] = end.number
        /\ \A s \in SeqName : s # "network" => seq'[s] = seq[s]
    BY <1>2, <2>1 DEF RecordsInv, NumbersOK, SeqName
  <2> QED BY <1>2, <1>3, <2>1, <2>2 DEF RecordsInv, NumbersOK, Numbered, SeqName
<1>9. \A fact : (HostFact(fact) => HostFact(fact)') /\ (NetworkFact(fact) => NetworkFact(fact)')
  BY <1>7 DEF HostFact, NetworkFact, Grown
<1>10. \A fact \in known : Stands(fact)'
  BY <1>3, <1>9, FactsStay DEF RecordsInv, Stands, TargetSide, ImportSide, JournalSide
<1>11. ASSUME NEW ip \in stored PROVE Stands(<<"host", ip>>)'
  <2> DEFINE fact0 == <<"host", ip>>
  <2>1. fact0[1] = "host" /\ fact0[2] = ip
    OBVIOUS
  <2> HIDE DEF fact0
  <2>2. HostFact(fact0)'
    BY <1>2, <2>1 DEF HostFact
  <2>3. Stands(fact0)'
    BY <2>1, <2>2, NewFact DEF Kind
  <2> QED BY <2>3 DEF fact0
<1>12. ASSUME f = "none", NEW k \in DOMAIN nets PROVE Stands(<<"network", NormalizeCIDR(nets[k])>>)'
  <2> DEFINE cidr == NormalizeCIDR(nets[k])
             fact0 == <<"network", cidr>>
  <2>1. fact0[1] = "network" /\ fact0[2] = cidr
    OBVIOUS
  <2>2. \E i \in DOMAIN networks' : networks'[i] = cidr
    BY <1>2, <1>6, <1>12
  <2> HIDE DEF fact0, cidr
  <2>3. NetworkFact(fact0)'
    BY <2>1, <2>2 DEF NetworkFact
  <2>4. Stands(fact0)'
    BY <2>1, <2>3, NewFact DEF Kind
  <2> QED BY <2>4 DEF fact0, cidr
<1>13. \A fact \in known' : Stands(fact)'
  BY <1>2, <1>10, <1>11, <1>12
<1> QED BY <1>3, <1>8, <1>13 DEF RecordsInv, TargetRows, SnapshotRows

----------------------------------------------------------------------------
(* What was acknowledged is listed *)

LEMMA NothingKeeps ==
  ASSUME RecordsInv,
         UNCHANGED <<seq, known, targets, rules, hosts, networks, tags, notes, queries,
                     engagements, objectives, snapshots>>
  PROVE  RecordsInv'
  BY FactsStay, NumbersStay
     DEF RecordsInv, TargetRows, SnapshotRows, Stands, TargetSide, ImportSide, JournalSide

LEMMA InitRecordsInv == Init => RecordsInv
  BY DEF Init, InitRecords, InitTargets, InitJournal, InitImporter, RecordsInv, NumbersOK,
         Numbered, TargetRows, SnapshotRows, NoRows

LEMMA NextKeeps ==
  ASSUME RecordsInv, [Next]_vars
  PROVE  RecordsInv'
<1>1. CASE TargetCommand
  <2>1. UNCHANGED <<journalVars, importVars>>
    BY <1>1 DEF TargetCommand
  <2>2. ASSUME NEW input \in Input, NEW f, SetTarget(input, f) PROVE RecordsInv'
    BY <2>1, <2>2, SetTargetKeeps
  <2>3. ASSUME NEW input \in Input, SetTargetRejected(input) PROVE RecordsInv'
    BY <2>1, <2>3, NothingKeeps DEF SetTargetRejected, journalVars, importVars
  <2>4. ASSUME NEW i \in DOMAIN targets, DeleteTarget(i) PROVE RecordsInv'
    BY <2>1, <2>4, DeleteTargetKeeps
  <2>5. ASSUME NEW pattern \in Pattern, NEW f, AddScopeRule("exclude", pattern, f) PROVE RecordsInv'
    BY <2>1, <2>5, AddScopeRuleKeeps
  <2> QED BY <1>1, <2>2, <2>3, <2>4, <2>5 DEF TargetCommand
<1>2. CASE ScopeCommand
  <2>1. UNCHANGED <<journalVars, importVars>>
    BY <1>2 DEF ScopeCommand
  <2>2. ASSUME NEW type, NEW pattern \in Pattern, NEW f, AddScopeRule(type, pattern, f)
        PROVE  RecordsInv'
    BY <2>1, <2>2, AddScopeRuleKeeps
  <2>3. ASSUME NEW i \in DOMAIN rules, DeleteScopeRule(i) PROVE RecordsInv'
    BY <2>1, <2>3, DeleteScopeRuleKeeps
  <2> QED BY <1>2, <2>2, <2>3 DEF ScopeCommand
<1>3. CASE AssessCommand
  <2>1. PICK i \in DOMAIN targets, f \in Faults, done \in BOOLEAN :
          /\ ExecuteAssessment(i, f, done)
          /\ IF done THEN Evaluate(f) ELSE UNCHANGED <<seq, audit, known, journalVars>>
          /\ hosts \subseteq hosts' /\ UNCHANGED networks
    BY <1>3 DEF AssessCommand
  <2>2. UNCHANGED <<targets, rules, networks>> /\ hosts \subseteq hosts'
    BY <2>1 DEF ExecuteAssessment
  <2>3. CASE done
    BY <2>1, <2>2, <2>3, EvaluateKeeps
  <2>4. CASE ~done
    <3>1. UNCHANGED <<seq, known, tags, notes, queries, engagements, objectives, snapshots>>
      BY <2>1, <2>4 DEF journalVars
    <3>2. \A fact : HostFact(fact) => HostFact(fact)'
      BY <2>2 DEF HostFact
    <3> QED BY <2>2, <3>1, <3>2, FactsStay, NumbersStay
            DEF RecordsInv, TargetRows, SnapshotRows, Stands, TargetSide, ImportSide, JournalSide
  <2> QED BY <2>3, <2>4
<1>4. CASE JournalCommand
  <2>1. UNCHANGED <<targets, rules, importVars>>
    BY <1>4 DEF JournalCommand
  <2>2. CASE TagsCommand
    BY <2>1, <2>2, AddTagKeeps DEF TagsCommand
  <2>3. CASE NotesCommand
    BY <2>1, <2>3, AddNoteKeeps DEF NotesCommand
  <2>4. CASE EngagementCommand
    BY <2>1, <2>4, CreateEngagementKeeps DEF EngagementCommand
  <2>5. CASE ObjectivesCommand
    BY <2>1, <2>5, AddObjectiveKeeps DEF ObjectivesCommand
  <2>6. CASE SnapshotCommand
    BY <2>1, <2>6, CreateSnapshotKeeps DEF SnapshotCommand
  <2>7. CASE FindingsCommand
    BY <2>1, <2>7, EvaluateKeeps DEF FindingsCommand, RunAssessment, importVars
  <2>8. ASSUME NEW name, NEW c, NEW f, SaveQuery(name, c, f) PROVE RecordsInv'
    BY <2>1, <2>8, SaveQueryKeeps
  <2> QED BY <1>4, <2>2, <2>3, <2>4, <2>5, <2>6, <2>7, <2>8 DEF JournalCommand
<1>5. CASE ImportCommand
  <2>1. UNCHANGED <<targets, rules, journalVars>>
    BY <1>5 DEF ImportCommand
  <2>2. ASSUME NEW file \in File, NEW f, NEW at, ImportFile(file, f, at) PROVE RecordsInv'
    BY <2>1, <2>2, ImportFileKeeps
  <2>3. CASE ImportNothing
    BY <2>1, <2>3, NothingKeeps DEF ImportNothing, journalVars, importVars
  <2> QED BY <1>5, <2>2, <2>3 DEF ImportCommand
<1>6. CASE UNCHANGED vars
  BY <1>6, NothingKeeps DEF vars, recordVars, targetVars, journalVars, importVars
<1> QED BY <1>1, <1>2, <1>3, <1>4, <1>5, <1>6 DEF Next

\* Every fact that a call acknowledged has a row of its own that no later call
\* touches, whichever statements fail: a row that got number 0 because numbering
\* failed is the only one that another can overwrite.
THEOREM RecordsInvCorrect == Spec => []RecordsInv
<1>1. RecordsInv /\ [Next]_vars => RecordsInv'
  BY NextKeeps
<1> QED BY <1>1, InitRecordsInv, PTL DEF Spec

LEMMA StandingIsListed == RecordsInv => AcknowledgedIsListed
<1> SUFFICES ASSUME RecordsInv, NEW fact \in known
             PROVE  CASE fact[1] = "target" -> GetTargetByNormalizedValue(fact[2]) # {}
                      [] fact[1] = "rule" ->
                           /\ fact[2] \in DOMAIN rules
                           /\ rules[fact[2]] = [type |-> fact[3], pattern |-> RulePattern(fact[4])]
                      [] fact[1] \in {"host", "network"} -> ImportShows(fact)
                      [] OTHER -> JournalShows(fact)
  BY DEF AcknowledgedIsListed
<1>1. Stands(fact)
  BY DEF RecordsInv
<1>2. CASE fact[1] = "target"
  BY <1>1, <1>2 DEF Stands, TargetSide, TargetFact, GetTargetByNormalizedValue
<1>3. CASE fact[1] = "rule"
  BY <1>1, <1>3 DEF Stands, TargetSide, RuleFact
<1>4. CASE fact[1] \in {"host", "network"}
  BY <1>1, <1>4 DEF Stands, ImportSide, HostFact, NetworkFact, ImportShows
<1>5. CASE fact[1] \in {"tag", "note", "query", "engagement", "objective"}
  <2>1. ASSUME fact[1] = "tag" PROVE JournalShows(fact)
    <3>1. fact[3] \in ListTags(fact[2])
      BY <1>1, <2>1 DEF Stands, JournalSide, TagFact, ListTags
    <3> QED BY <2>1, <3>1 DEF JournalShows
  <2>2. ASSUME fact[1] = "note" PROVE JournalShows(fact)
    <3>1. fact[3] \in ListNotes(fact[2])
      BY <1>1, <2>2 DEF Stands, JournalSide, NoteFact, ListNotes
    <3> QED BY <2>2, <3>1 DEF JournalShows
  <2>3. ASSUME fact[1] = "query" PROVE JournalShows(fact)
    <3>1. <<fact[2], fact[3]>> \in ListSavedQueries
      BY <1>1, <2>3 DEF Stands, JournalSide, QueryFact, ListSavedQueries
    <3> QED BY <2>3, <3>1 DEF JournalShows
  <2>4. ASSUME fact[1] = "engagement" PROVE JournalShows(fact)
    <3>1. fact[2] \in DOMAIN engagements /\ engagements[fact[2]].name = fact[3]
      BY <1>1, <2>4 DEF Stands, JournalSide, EngagementFact
    <3> QED BY <2>4, <3>1 DEF JournalShows
  <2>5. ASSUME fact[1] = "objective" PROVE JournalShows(fact)
    <3>1. fact[3] \in ListObjectives(fact[2])
      BY <1>1, <2>5 DEF Stands, JournalSide, ObjectiveFact, ListObjectives
    <3> QED BY <2>5, <3>1 DEF JournalShows
  <2> QED BY <1>5, <2>1, <2>2, <2>3, <2>4, <2>5
<1>6. CASE fact[1] = "snapshot"
  <2>1. PICK id, content : id = fact[2] /\ content = fact[3]
    OBVIOUS
  <2>2. id \in DOMAIN snapshots /\ snapshots[id].content = content
    BY <1>1, <1>6, <2>1 DEF Stands, JournalSide, SnapshotFact
  <2>3. <<id, content>> \in ListSnapshots /\ id \in GetSnapshot(id)
    BY <2>2 DEF ListSnapshots, GetSnapshot
  <2>4. GetSnapshot(id) \subseteq {id} \cup SnapshotsOf(id)
    BY DEF RecordsInv, SnapshotRows, GetSnapshot
  <2>5. JournalShows(fact)
    BY <1>6, <2>1, <2>3, <2>4 DEF JournalShows
  <2> QED BY <1>6, <2>5
<1> QED BY <1>1, <1>2, <1>3, <1>4, <1>5, <1>6 DEF Stands, Kind

\* What a call acknowledged is what the lists show from then on: no later call that
\* fails, replaces, ignores a conflict or stops half-way takes it away, until the
\* user deletes it or saves a query under the same name.
THEOREM AcknowledgedIsListedCorrect == Spec => []AcknowledgedIsListed
  BY RecordsInvCorrect, StandingIsListed, PTL

----------------------------------------------------------------------------
(* What a rule excludes is not contacted *)

\* Addresses with the same quotient are those from the first of the network on.
LEMMA SameNetwork ==
  ASSUME NEW a \in Nat, NEW h \in Nat, NEW s \in Nat \ {0}, a \div s = h \div s
  PROVE  a - (a % s) <= h /\ h < a - (a % s) + s
  OBVIOUS

\* The host bits of a network that lost them are none.
LEMMA NoHostBits ==
  ASSUME NEW a \in Nat, NEW s \in Nat \ {0}
  PROVE  (a - (a % s)) % s = 0
<1>1. a = s * (a \div s) + (a % s)
  OBVIOUS
<1>2. PICK q \in Nat : q = a \div s
  OBVIOUS
<1>3. PICK r \in Nat : r = a % s
  OBVIOUS
<1>4. a - r = s * q
  BY <1>1, <1>2, <1>3
<1>5. (s * q) % s = 0
  OBVIOUS
<1> QED BY <1>3, <1>4, <1>5

\* The guard refuses a target whose host a stored exclusion names.
LEMMA ExcludedIsRefused ==
  ASSUME NEW pattern \in Pattern, NEW value \in Values, NEW inc, NEW exc, NEW stored,
         RulePattern(pattern) \in exc, IsAllowed(NewScopeGuard(inc, exc, stored), value),
         NEW host \in Contacted(value)
  PROVE  ~Names(pattern, host)
<1> SUFFICES ASSUME Names(pattern, host) PROVE FALSE
  OBVIOUS
<1> DEFINE sg == NewScopeGuard(inc, exc, stored)
<1>1. PICK input \in Input : value = Normalized(input)
  BY DEF Values
<1>2. WellFormed(input) /\ WellFormed(pattern)
  BY TargetsAssumption
<1>3. value.form # "cidr" /\ host = HostOf(value)
  BY DEF Contacted
<1>4. value = input
  BY <1>1, <1>2, <1>3 DEF Normalized, WellFormed
<1>5. (host.form = "ip" /\ host.addr \in Nat) \/ host.form = "name"
  BY <1>2, <1>3, <1>4 DEF WellFormed, HostOf
<1>6. PICK p : p = RulePattern(pattern)
  OBVIOUS
<1>7. /\ sg.excluded.nets = UNION {CompilePattern(NoPatterns, i).nets : i \in exc}
      /\ sg.excluded.ips = UNION {CompilePattern(NoPatterns, i).ips : i \in exc}
      /\ sg.excluded.names = UNION {CompilePattern(NoPatterns, i).names : i \in exc}
  BY DEF NewScopeGuard, Compiled
<1> HIDE DEF sg
<1>8. /\ CompilePattern(NoPatterns, p).nets \subseteq sg.excluded.nets
      /\ CompilePattern(NoPatterns, p).ips \subseteq sg.excluded.ips
      /\ CompilePattern(NoPatterns, p).names \subseteq sg.excluded.names
  BY <1>6, <1>7
<1>9. CASE host.form = "ip"
  <2>1. /\ host.addr \notin sg.excluded.ips
        /\ ~\E net \in sg.excluded.nets : Covers(net, host.addr)
    BY <1>3, <1>9 DEF IsAllowed, IsIPAllowed, sg
  <2>2. CASE pattern.form = "ip"
    <3>1. p = pattern
      BY <1>6, <2>2 DEF RulePattern, Recognized, Normalized
    <3>2. pattern.addr \in CompilePattern(NoPatterns, p).ips
      BY <2>2, <3>1 DEF CompilePattern, NoPatterns
    <3>3. pattern.addr = host.addr
      BY <1>9, <2>2 DEF Names
    <3> QED BY <1>8, <2>1, <3>2, <3>3
  <2>3. CASE pattern.form = "cidr"
    <3>1. PICK a \in Nat, s \in Nat \ {0} : pattern = [form |-> "cidr", addr |-> a, size |-> s]
      BY <1>2, <2>3 DEF WellFormed
    <3>2. PICK b \in Nat : b = a - (a % s)
      BY <3>1
    <3>3. b % s = 0
      BY <3>2, NoHostBits
    <3> DEFINE net == [form |-> "cidr", addr |-> b, size |-> s]
    <3>4. p = net
      BY <1>6, <2>3, <3>1, <3>2 DEF RulePattern, Recognized, Normalized
    <3>5. Normalized(p) = net
      BY <3>3, <3>4 DEF Normalized
    <3>6. net \in CompilePattern(NoPatterns, p).nets
      BY <3>4, <3>5 DEF CompilePattern, NoPatterns
    <3>7. a \div s = host.addr \div s /\ host.addr \in Nat
      BY <1>5, <1>9, <2>3, <3>1 DEF Names
    <3>8. b <= host.addr /\ host.addr < b + s
      BY <3>2, <3>7, SameNetwork
    <3>9. Covers(net, host.addr)
      BY <3>8 DEF Covers
    <3> QED BY <1>8, <2>1, <3>6, <3>9
  <2> QED BY <1>9, <2>2, <2>3 DEF Names
<1>10. CASE host.form = "name"
  <2>1. ~\E d \in sg.excluded.names : IsSuffix(d, host.labels)
    BY <1>3, <1>10 DEF IsAllowed, IsHostAllowed, Under, sg
  <2>2. pattern.form = "name" /\ IsSuffix(pattern.labels, host.labels)
    BY <1>10 DEF Names
  <2>3. p = pattern
    BY <1>6, <2>2 DEF RulePattern, Normalized
  <2>4. pattern.labels \in CompilePattern(NoPatterns, p).names
    BY <2>2, <2>3 DEF CompilePattern, NoPatterns
  <2> QED BY <1>8, <2>1, <2>2, <2>4
<1> QED BY <1>5, <1>9, <1>10

LEMMA ExclusionsKept ==
  ASSUME RecordsInv, ExclusionsHold, [Next]_vars
  PROVE  ExclusionsHold'
<1>1. CASE contact' = {}
  BY <1>1 DEF ExclusionsHold
<1>2. CASE AssessCommand
  <2>1. PICK i \in DOMAIN targets, f \in Faults, done \in BOOLEAN :
          ExecuteAssessment(i, f, done) /\ IF done THEN Evaluate(f) ELSE UNCHANGED known
    BY <1>2 DEF AssessCommand
  <2>2. CASE ~done
    BY <1>1, <2>1, <2>2 DEF ExecuteAssessment
  <2>3. CASE done
    <3>1. known' = known /\ contact' = Contacted(targets[i].value) /\ Permitted(i)
      BY <2>1, <2>3 DEF ExecuteAssessment, Evaluate
    <3>2. PICK value \in Values : value = targets[i].value
      BY DEF RecordsInv, TargetRows
    <3> SUFFICES ASSUME NEW fact \in known, fact[1] = "rule", fact[3] = "exclude",
                        NEW host \in Contacted(value)
                 PROVE  ~Names(fact[4], host)
      BY <3>1, <3>2 DEF ExclusionsHold
    <3>3. RuleFact(fact)
      BY DEF RecordsInv, Stands, TargetSide
    <3>4. PICK pattern \in Pattern : pattern = fact[4]
      BY <3>3 DEF RuleFact
    <3>5. RulePattern(pattern) \in ListScopeRules("exclude")
      BY <3>3, <3>4 DEF RuleFact, ListScopeRules
    <3>6. IsAllowed(NewScopeGuard(ListScopeRules("include"), ListScopeRules("exclude"),
                                  StoredTargets), value)
      BY <3>1, <3>2 DEF Permitted, BuildScopeGuard
    <3> QED BY <3>4, <3>5, <3>6, ExcludedIsRefused
  <2> QED BY <2>2, <2>3
<1>3. CASE UNCHANGED vars
  BY <1>3 DEF vars, recordVars, targetVars, ExclusionsHold
<1>4. CASE TargetCommand
  BY <1>1, <1>4 DEF TargetCommand, SetTarget, SetTargetRejected, DeleteTarget, AddScopeRule
<1>5. CASE ScopeCommand
  BY <1>1, <1>5 DEF ScopeCommand, AddScopeRule, DeleteScopeRule
<1>6. CASE JournalCommand
  BY <1>1, <1>6 DEF JournalCommand
<1>7. CASE ImportCommand
  BY <1>1, <1>7 DEF ImportCommand
<1> QED BY <1>2, <1>3, <1>4, <1>5, <1>6, <1>7 DEF Next

\* A host that a rule excludes is never contacted, for as long as the rule is not
\* deleted: whatever network, address, domain or wildcard the rule was given as,
\* whichever statements fail, and however the target came to be stored.
THEOREM ExclusionsHoldCorrect == Spec => []ExclusionsHold
<1>1. Init => ExclusionsHold
  BY DEF Init, InitTargets, ExclusionsHold
<1>2. RecordsInv /\ ExclusionsHold /\ [Next]_vars => ExclusionsHold'
  BY ExclusionsKept
<1> QED BY <1>1, <1>2, RecordsInvCorrect, PTL DEF Spec

----------------------------------------------------------------------------
(* Snapshots agree *)

\* What a snapshot says of the findings there are now.
Consistent(b) ==
  LET row == snapshots[b] IN
  /\ row.order \in Nat /\ row.order <= Cardinality(DOMAIN snapshots)
  /\ row.evaluations \in Nat /\ row.evaluations <= evaluations
  /\ DOMAIN row.content \subseteq DOMAIN findings
  /\ row.evaluations = evaluations =>
       /\ \A k \in DOMAIN row.content : row.content[k] = findings[k]
       /\ faults = 0 /\ TakenByUser(b) => DOMAIN findings \subseteq DOMAIN row.content

SnapshotsInv ==
  /\ faults \in Nat /\ evaluations \in Nat /\ IsFiniteSet(DOMAIN snapshots)
  /\ \A b \in DOMAIN snapshots : Consistent(b)
  /\ SnapshotsAgree

LEMMA FaultsGrow ==
  ASSUME faults \in Nat, NEW f, Call(f)
  PROVE  faults' \in Nat /\ (faults' = 0 => faults = 0 /\ f = "none")
  BY DEF Call

\* A call that touches neither findings nor snapshots.
LEMMA OthersAgree ==
  ASSUME SnapshotsInv, UNCHANGED <<findings, snapshots, evaluations>>,
         faults' \in Nat, faults' = 0 => faults = 0
  PROVE  SnapshotsInv'
<1>1. \A b \in DOMAIN snapshots : Consistent(b)'
  BY DEF SnapshotsInv, Consistent, TakenByUser
<1>2. SnapshotsAgree'
  BY DEF SnapshotsInv, SnapshotsAgree, TakenByUser
<1> QED BY <1>1, <1>2 DEF SnapshotsInv

LEMMA SnapshotAdded ==
  ASSUME SnapshotsInv, NEW id, id \notin DOMAIN snapshots, NEW row,
         snapshots' = Insert(snapshots, id, row)
  PROVE  /\ DOMAIN snapshots' = DOMAIN snapshots \cup {id} /\ snapshots'[id] = row
         /\ \A b \in DOMAIN snapshots : snapshots'[b] = snapshots[b]
         /\ IsFiniteSet(DOMAIN snapshots') /\ Cardinality(DOMAIN snapshots) \in Nat
         /\ Cardinality(DOMAIN snapshots') = Cardinality(DOMAIN snapshots) + 1
<1>1. /\ DOMAIN snapshots' = DOMAIN snapshots \cup {id} /\ snapshots'[id] = row
      /\ \A b \in DOMAIN snapshots : snapshots'[b] = snapshots[b]
  BY DEF Insert, Put
<1>2. IsFiniteSet(DOMAIN snapshots)
  BY DEF SnapshotsInv
<1> QED BY <1>1, <1>2, FS_AddElement, FS_CardinalityType

\* What two snapshots are to each other, see SnapshotsAgree.
Agree(b, t) ==
  LET diff == CompareSnapshots(snapshots[b].content, snapshots[t].content) IN
  TakenByUser(t) /\ snapshots[b].order < snapshots[t].order =>
    /\ diff.removed = {}
    /\ snapshots[b].evaluations = snapshots[t].evaluations =>
         /\ diff.changed = {}
         /\ TakenByUser(b) => diff.added = {}

LEMMA AgreeIsSnapshotsAgree ==
  SnapshotsAgree <=> (faults = 0 => \A b, t \in DOMAIN snapshots : Agree(b, t))
  BY DEF SnapshotsAgree, Agree

\* A snapshot of now agrees with each that there was.
LEMMA NewestAgrees ==
  ASSUME SnapshotsInv, NEW id, id \notin DOMAIN snapshots, NEW row,
         snapshots' = Insert(snapshots, id, row),
         row.order = Cardinality(DOMAIN snapshots) + 1,
         faults' = 0 => faults = 0,
         faults' = 0 /\ row.assessment = id =>
           row.content = findings /\ row.evaluations = evaluations
  PROVE  SnapshotsAgree'
<1> SUFFICES ASSUME faults' = 0, NEW b \in DOMAIN snapshots', NEW t \in DOMAIN snapshots'
             PROVE  Agree(b, t)'
  BY DEF SnapshotsAgree, Agree
<1>1. /\ DOMAIN snapshots' = DOMAIN snapshots \cup {id} /\ snapshots'[id] = row
      /\ \A i \in DOMAIN snapshots : snapshots'[i] = snapshots[i]
      /\ Cardinality(DOMAIN snapshots) \in Nat
  BY SnapshotAdded
<1>2. \A i \in DOMAIN snapshots : Consistent(i)
  BY DEF SnapshotsInv
<1>3. CASE b \in DOMAIN snapshots /\ t \in DOMAIN snapshots
  <2>1. Agree(b, t)
    BY <1>3, AgreeIsSnapshotsAgree DEF SnapshotsInv
  <2> QED BY <1>1, <1>3, <2>1 DEF Agree, TakenByUser
<1>4. CASE b = id
  <2>1. ~(snapshots'[b].order < snapshots'[t].order)
    BY <1>1, <1>2, <1>4 DEF Consistent
  <2> QED BY <2>1 DEF Agree
<1>5. CASE b \in DOMAIN snapshots /\ t = id
  <2> SUFFICES ASSUME TakenByUser(t)' PROVE Agree(b, t)'
    BY DEF Agree
  <2>1. row.content = findings /\ row.evaluations = evaluations
    BY <1>1, <1>5 DEF TakenByUser
  <2>2. PICK base : base = snapshots[b].content
    OBVIOUS
  <2>3. /\ DOMAIN base \subseteq DOMAIN findings
        /\ snapshots[b].evaluations = evaluations =>
             /\ \A k \in DOMAIN base : base[k] = findings[k]
             /\ TakenByUser(b) => DOMAIN findings \subseteq DOMAIN base
    BY <1>2, <1>5, <2>2 DEF Consistent
  <2>4. /\ snapshots'[b].content = base /\ snapshots'[t].content = findings
        /\ snapshots'[b].evaluations = snapshots[b].evaluations
        /\ snapshots'[t].evaluations = evaluations
        /\ TakenByUser(b)' => TakenByUser(b)
    BY <1>1, <1>5, <2>1, <2>2 DEF TakenByUser
  <2> QED BY <2>3, <2>4 DEF Agree, CompareSnapshots
<1> QED BY <1>1, <1>3, <1>4, <1>5

LEMMA EvaluateAgrees ==
  ASSUME SnapshotsInv, NEW f, Evaluate(f), faults' \in Nat, faults' = 0 => faults = 0
  PROVE  SnapshotsInv'
<1>1. PICK report \in Report :
        /\ SaveFindings(report)
        /\ IF f = "finding" THEN UNCHANGED <<seq, assessments, snapshots>>
           ELSE \E n \in Number :
                  /\ NextSequence("assessment", n, f)
                  /\ IF f = "snapshot"
                     THEN InsertAssessment(<<"ASSESS", n>>) /\ UNCHANGED snapshots
                     ELSE SaveAssessmentSnapshot(<<"SNAP-ASSESS", n>>,
                                                 SnapshotRow(<<"ASSESS", n>>, report))
  BY DEF Evaluate
<1>2. /\ DOMAIN findings' = DOMAIN report \cup DOMAIN findings
      /\ \A k \in DOMAIN report : findings'[k] = report[k]
  BY <1>1 DEF SaveFindings
<1>3. evaluations \in Nat /\ evaluations' = evaluations + 1
  BY DEF Evaluate, SnapshotsInv
<1>4. \A b \in DOMAIN snapshots : Consistent(b)
  BY DEF SnapshotsInv
<1>5. CASE UNCHANGED snapshots
  <2>1. \A b \in DOMAIN snapshots : Consistent(b)'
    BY <1>2, <1>3, <1>4, <1>5 DEF Consistent, TakenByUser
  <2>2. SnapshotsAgree'
    BY <1>5 DEF SnapshotsInv, SnapshotsAgree, TakenByUser
  <2> QED BY <1>3, <1>5, <2>1, <2>2 DEF SnapshotsInv
<1>6. ASSUME NEW id, NEW row, snapshots' = Insert(snapshots, id, row), row.assessment # id,
             row.order = Cardinality(DOMAIN snapshots) + 1, row.content = report,
             row.evaluations = evaluations'
      PROVE  SnapshotsInv'
  <2>1. CASE id \in DOMAIN snapshots
    BY <1>5, <1>6, <2>1 DEF Insert
  <2>2. CASE id \notin DOMAIN snapshots
    <3>1. /\ DOMAIN snapshots' = DOMAIN snapshots \cup {id} /\ snapshots'[id] = row
          /\ \A b \in DOMAIN snapshots : snapshots'[b] = snapshots[b]
          /\ IsFiniteSet(DOMAIN snapshots') /\ Cardinality(DOMAIN snapshots) \in Nat
          /\ Cardinality(DOMAIN snapshots') = Cardinality(DOMAIN snapshots) + 1
      BY <1>6, <2>2, SnapshotAdded
    <3>2. ASSUME NEW b \in DOMAIN snapshots PROVE Consistent(b)'
      <4>1. PICK old : old = snapshots[b]
        OBVIOUS
      <4>2. /\ old.order \in Nat /\ old.order <= Cardinality(DOMAIN snapshots)
            /\ old.evaluations \in Nat /\ old.evaluations <= evaluations
            /\ DOMAIN old.content \subseteq DOMAIN findings
        BY <1>4, <4>1 DEF Consistent
      <4>3. /\ old.order <= Cardinality(DOMAIN snapshots') /\ old.evaluations < evaluations'
            /\ DOMAIN old.content \subseteq DOMAIN findings'
        BY <1>2, <1>3, <3>1, <4>2
      <4>4. snapshots'[b] = old
        BY <3>1, <4>1
      <4> QED BY <1>3, <4>2, <4>3, <4>4 DEF Consistent
    <3>3. Consistent(id)'
      <4>1. /\ row.order \in Nat /\ row.order <= Cardinality(DOMAIN snapshots')
            /\ row.evaluations \in Nat /\ row.evaluations = evaluations'
        BY <1>3, <1>6, <3>1
      <4>2. /\ DOMAIN row.content \subseteq DOMAIN findings'
            /\ \A k \in DOMAIN row.content : row.content[k] = findings'[k]
        BY <1>2, <1>6
      <4> QED BY <1>3, <1>6, <3>1, <4>1, <4>2 DEF Consistent, TakenByUser
    <3>4. SnapshotsAgree'
      BY <1>6, <2>2, NewestAgrees
    <3> QED BY <1>3, <3>1, <3>2, <3>3, <3>4 DEF SnapshotsInv
  <2> QED BY <2>1, <2>2
<1>7. CASE f \notin {"finding", "snapshot"}
  <2>1. PICK n \in Number : SaveAssessmentSnapshot(<<"SNAP-ASSESS", n>>,
                                                   SnapshotRow(<<"ASSESS", n>>, report))
    BY <1>1, <1>7
  <2> DEFINE id == <<"SNAP-ASSESS", n>>
  <2>2. <<"ASSESS", n>> # id
    OBVIOUS
  <2>3. PICK row : /\ snapshots' = Insert(snapshots, id, row) /\ row.content = report
                   /\ row.order = Cardinality(DOMAIN snapshots) + 1
                   /\ row.evaluations = evaluations' /\ row.assessment = <<"ASSESS", n>>
    BY <2>1 DEF SaveAssessmentSnapshot, InsertAssessmentSnapshot, SnapshotRow
  <2> HIDE DEF id
  <2> QED BY <1>6, <2>2, <2>3
<1> QED BY <1>1, <1>5, <1>7

LEMMA TakeSnapshotAgrees ==
  ASSUME SnapshotsInv, NEW id, NEW f, TakeSnapshot(id, f), UNCHANGED <<findings, evaluations>>,
         faults' \in Nat, faults' = 0 => faults = 0 /\ f = "none"
  PROVE  SnapshotsInv'
<1>1. CASE f = "save" \/ id \in DOMAIN snapshots
  <2>1. UNCHANGED snapshots
    BY <1>1 DEF TakeSnapshot
  <2> QED BY <2>1, OthersAgree
<1>2. CASE f # "save" /\ id \notin DOMAIN snapshots
  <2>1. PICK row : /\ snapshots' = Insert(snapshots, id, row)
                   /\ row.content = (IF f = "list" THEN NoRows ELSE findings)
                   /\ row.order = Cardinality(DOMAIN snapshots) + 1
                   /\ row.evaluations = evaluations'
    BY <1>2 DEF TakeSnapshot, SaveAssessmentSnapshot, InsertAssessmentSnapshot, SnapshotRow
  <2>2. /\ DOMAIN snapshots' = DOMAIN snapshots \cup {id} /\ snapshots'[id] = row
        /\ \A b \in DOMAIN snapshots : snapshots'[b] = snapshots[b]
        /\ IsFiniteSet(DOMAIN snapshots') /\ Cardinality(DOMAIN snapshots) \in Nat
        /\ Cardinality(DOMAIN snapshots') = Cardinality(DOMAIN snapshots) + 1
    BY <1>2, <2>1, SnapshotAdded
  <2>3. ASSUME NEW b \in DOMAIN snapshots PROVE Consistent(b)'
    <3>1. Consistent(b)
      BY DEF SnapshotsInv
    <3> QED BY <2>2, <3>1 DEF Consistent, TakenByUser
  <2>4. Consistent(id)'
    <3>1. /\ DOMAIN row.content \subseteq DOMAIN findings
          /\ \A k \in DOMAIN row.content : row.content[k] = findings[k]
          /\ faults' = 0 => row.content = findings
      BY <2>1 DEF NoRows
    <3>2. evaluations \in Nat /\ row.evaluations = evaluations
      BY <2>1 DEF SnapshotsInv
    <3> QED BY <2>1, <2>2, <3>1, <3>2 DEF Consistent
  <2>5. SnapshotsAgree'
    <3>1. /\ faults' = 0 => row.content = findings
          /\ row.evaluations = evaluations
      BY <2>1
    <3> QED BY <1>2, <2>1, <3>1, NewestAgrees
  <2> QED BY <2>2, <2>3, <2>4, <2>5 DEF SnapshotsInv
<1> QED BY <1>1, <1>2

LEMMA SnapshotsKept ==
  ASSUME SnapshotsInv, [Next]_vars
  PROVE  SnapshotsInv'
<1>1. faults \in Nat
  BY DEF SnapshotsInv
<1>2. ASSUME NEW f, Call(f), UNCHANGED <<findings, snapshots, evaluations>> PROVE SnapshotsInv'
  BY <1>1, <1>2, FaultsGrow, OthersAgree
<1>3. CASE TargetCommand
  BY <1>2, <1>3 DEF TargetCommand, SetTarget, SetTargetRejected, DeleteTarget, AddScopeRule, journalVars
<1>4. CASE ScopeCommand
  BY <1>2, <1>4 DEF ScopeCommand, AddScopeRule, DeleteScopeRule, journalVars
<1>5. CASE AssessCommand
  <2>1. PICK f, done : Call(f) /\ IF done THEN Evaluate(f) ELSE UNCHANGED journalVars
    BY <1>5 DEF AssessCommand
  <2>2. CASE done
    BY <1>1, <2>1, <2>2, FaultsGrow, EvaluateAgrees
  <2>3. CASE ~done
    BY <1>2, <2>1, <2>3 DEF journalVars
  <2> QED BY <2>2, <2>3
<1>6. CASE JournalCommand
  <2>1. CASE TagsCommand
    BY <1>2, <2>1 DEF TagsCommand, AddTag
  <2>2. CASE NotesCommand
    BY <1>2, <2>2 DEF NotesCommand, AddNote
  <2>3. CASE EngagementCommand
    BY <1>2, <2>3 DEF EngagementCommand, CreateEngagement
  <2>4. CASE ObjectivesCommand
    BY <1>2, <2>4 DEF ObjectivesCommand, AddObjective
  <2>5. CASE SnapshotCommand
    <3>1. PICK name, f : CreateSnapshot(name, f)
      BY <2>5 DEF SnapshotCommand
    <3>2. PICK id : TakeSnapshot(id, f)
      BY <3>1 DEF CreateSnapshot
    <3>3. Call(f) /\ UNCHANGED <<findings, evaluations>>
      BY <3>1 DEF CreateSnapshot
    <3> QED BY <1>1, <3>2, <3>3, FaultsGrow, TakeSnapshotAgrees
  <2>6. CASE FindingsCommand
    BY <1>1, <2>6, FaultsGrow, EvaluateAgrees DEF FindingsCommand, RunAssessment
  <2>7. ASSUME NEW name, NEW c, NEW f, SaveQuery(name, c, f) PROVE SnapshotsInv'
    BY <1>2, <2>7 DEF SaveQuery
  <2> QED BY <1>6, <2>1, <2>2, <2>3, <2>4, <2>5, <2>6, <2>7 DEF JournalCommand
<1>7. CASE ImportCommand
  <2>1. UNCHANGED <<findings, snapshots, evaluations>>
    BY <1>7 DEF ImportCommand, journalVars
  <2>2. \E f : Call(f)
    <3>1. ASSUME NEW file, NEW f, NEW at, ImportFile(file, f, at) PROVE Call(f)
      BY <3>1 DEF ImportFile
    <3>2. ImportNothing => Call("none")
      BY DEF ImportNothing
    <3> QED BY <1>7, <3>1, <3>2 DEF ImportCommand
  <2> QED BY <1>2, <2>1, <2>2
<1>8. CASE UNCHANGED vars
  BY <1>1, <1>8, OthersAgree DEF vars, recordVars, journalVars
<1> QED BY <1>3, <1>4, <1>5, <1>6, <1>7, <1>8 DEF Next

\* A finding never leaves the record: compared with a snapshot the user takes later,
\* nothing counts as removed, and nothing as changed or, if the user took the first
\* one too, as added unless the rules were evaluated in between; unless a statement
\* failed.
THEOREM SnapshotsAgreeCorrect == Spec => []SnapshotsAgree
<1>1. Init => SnapshotsInv
  BY FS_EmptySet DEF Init, InitRecords, InitJournal, SnapshotsInv, SnapshotsAgree, NoRows
<1>2. SnapshotsInv /\ [Next]_vars => SnapshotsInv'
  BY SnapshotsKept
<1>3. SnapshotsInv => SnapshotsAgree
  BY DEF SnapshotsInv
<1> QED BY <1>1, <1>2, <1>3, PTL DEF Spec

=============================================================================
