------------------------------ MODULE Ingestion ------------------------------
(***************************************************************************)
(* From the uploaded documents to the generation units: duplicates are        *)
(* dropped (ingest/extractor.ts), each document is cut into sections          *)
(* (ingest/parsers.ts), every fact a section or a JSON entry states is added  *)
(* to the collector, which keeps one item per fact (ingest/analyzer.ts), and  *)
(* the items are cut into units (ingest/planner.ts).                          *)
(*                                                                          *)
(* A step is one line, one JSON entry, or one fact. The code reads all        *)
(* sections of a document before it analyses the first; the facts reach the   *)
(* collector in the same order here. An item's position stands for the       *)
(* number in its id.                                                        *)
(***************************************************************************)
EXTENDS Markdown

CONSTANTS
    Uploads,        \* what clients may upload: sequences of documents
    FieldKind,      \* KIND_BY_JSON_KEY, and requirement for any other key
    NameIn,         \* <<a, b>>: the name a is a part of the name b
    TitleIn,        \* <<a, b>>: so is the title a of the title b,
    TitleStarts,    \* b begins with a
    TitleEnds,      \* b ends with a
    MaxDepth,       \* walkJson: 12
    MaxLeaves,      \* walkJson: 20 000
    MaxItemsPerUnit

\* The field of an entry is the section $.key it is filed under; its detail is a record's
\* other fields, or the path of a leaf, which says the path and the value.
Entry == [array : BOOLEAN, field : Titles, says : Texts, detail : Texts, id : Texts \cup {None},
          convention : BOOLEAN, empty : BOOLEAN, depth : Nat, leaf : Nat]

\* What parses to an object or an array begins with a bracket, and so looks like JSON.
Document == [name : Names, parses : BOOLEAN, lines : Seq(Line), entries : Seq(Entry)]

ASSUME IngestionConstants ==
    /\ Uploads \subseteq Seq(Document)
    /\ FieldKind \in [Titles -> Kinds]
    /\ NameIn \subseteq Names \X Names
    /\ TitleIn \cup TitleStarts \cup TitleEnds \subseteq Titles \X Titles
    /\ {MaxDepth, MaxLeaves} \subseteq Nat /\ MaxItemsPerUnit \in Nat \ {0}

VARIABLES
    uploads,    \* the upload
    docs,       \* the documents kept of it
    doc, line,  \* the document and the line, or entry, that is read next
    stack,      \* parseSections: the open headings, outermost first
    body,       \* parseSections: the lines since the last heading
    queue,      \* the facts of the section or entry just read, still to be added
    items,      \* the collector's items, in the order of their ids
    units,      \* the planned units
    told        \* history: the facts that were added

vars == <<uploads, docs, doc, line, stack, body, queue, items, units, told>>

-----------------------------------------------------------------------------
(* dedupeDocuments: a document is kept unless an earlier one has its bytes.   *)
Content(d) == [parses |-> d.parses, lines |-> d.lines, entries |-> d.entries]

Dedupe_Fault(S) ==      \* EveryDetailIsTold breaks: the name is taken for the content
    Only(S, {i \in DOMAIN S : \A j \in 1..(i - 1) : S[j].name # S[i].name})

Dedupe(S) ==
    Only(S, {i \in DOMAIN S : \A j \in 1..(i - 1) : Content(S[j]) # Content(S[i])})

Init ==
    /\ uploads \in Uploads /\ docs = Dedupe(uploads)
    /\ doc = 1 /\ line = 1 /\ stack = <<>> /\ body = <<>>
    /\ queue = <<>> /\ items = <<>> /\ units = {} /\ told = {}

Reading == doc <= Len(docs) /\ queue = <<>>
ReadingText == Reading /\ ~docs[doc].parses
ReadingJson == Reading /\ docs[doc].parses

Lines == docs[doc].lines
Entries == docs[doc].entries
PathOf(headings) ==
    IF headings = <<>> THEN <<Preamble>> ELSE [k \in DOMAIN headings |-> Lines[headings[k]].title]
From(d, facts) == [k \in DOMAIN facts |-> [fact |-> facts[k], doc |-> d.name]]
Section == From(docs[doc], FactsOf(PathOf(stack), body))

(* A heading closes the sections of its own level and below. What it closes   *)
(* states its facts.                                                          *)
Close_Fault(level) ==   \* StackIsOutline breaks: > for >=
    SubSeq(stack, 1, Max({0} \cup {k \in DOMAIN stack : Lines[stack[k]].level <= level}))
Close(level) ==
    SubSeq(stack, 1, Max({0} \cup {k \in DOMAIN stack : Lines[stack[k]].level < level}))

ReadHeading ==
    /\ ReadingText /\ line <= Len(Lines) /\ Lines[line].level > 0
    /\ queue' = Section /\ body' = <<>>
    /\ stack' = Append(Close(Lines[line].level), line)
    /\ line' = line + 1
    /\ UNCHANGED <<uploads, docs, doc, items, units, told>>

ReadLine ==
    /\ ReadingText /\ line <= Len(Lines) /\ Lines[line].level = 0
    /\ body' = Append(body, Lines[line]) /\ line' = line + 1
    /\ UNCHANGED <<uploads, docs, doc, stack, queue, items, units, told>>

EndOfText ==
    /\ ReadingText /\ line > Len(Lines)
    /\ queue' = Section /\ body' = <<>> /\ stack' = <<>>
    /\ doc' = doc + 1 /\ line' = 1
    /\ UNCHANGED <<uploads, docs, items, units, told>>

-----------------------------------------------------------------------------
(* An element of an array of records is a fact of its own, unless its id is a *)
(* naming convention; anything else is walked down to its leaves.             *)
RecordFact(e) ==
    LET kind == FieldKind[e.field]
        unique == IF e.id = None THEN <<"detail", e.detail>> ELSE <<"id", e.id>>
    IN  Fact(<<kind, "record", <<e.says>>, unique>>, kind,
             DetectPriority(<<e.field>>, {e.says, e.detail}),
             <<e.field>>, {e.says}, {e.says, e.detail}, {e.id} \ {None})

LeafFact(e) ==
    Fact(TextKey("requirement", <<e.says>>), "requirement", 2, <<e.field>>, {e.detail}, {e.says}, {})

Walked(e) == e.depth <= MaxDepth /\ e.leaf <= MaxLeaves

FactsOfEntry(e) ==
    IF e.array THEN IF e.convention THEN <<>> ELSE <<RecordFact(e)>>
    ELSE IF e.empty \/ ~Walked(e) THEN <<>> ELSE <<LeafFact(e)>>

ReadEntry ==
    /\ ReadingJson /\ line <= Len(Entries)
    /\ queue' = From(docs[doc], FactsOfEntry(Entries[line])) /\ line' = line + 1
    /\ UNCHANGED <<uploads, docs, doc, stack, body, items, units, told>>

EndOfJson ==
    /\ ReadingJson /\ line > Len(Entries)
    /\ doc' = doc + 1 /\ line' = 1
    /\ UNCHANGED <<uploads, docs, stack, body, queue, items, units, told>>

-----------------------------------------------------------------------------
(* ItemCollector.add. The sections and documents of an item are text joined   *)
(* by separators, to which a name is added unless the text holds it already.  *)
(* The titles of a path are joined too: where one path's text is found in     *)
(* another's, its first title ends a title, its last one begins one, and those *)
(* between are titles (none of which holds a separator).                      *)
PartOfPath(p, q) ==
    \E k \in 0..(Len(q) - Len(p)) : \A n \in DOMAIN p :
        \/ p[n] = q[k + n]
        \/ Len(p) = 1 /\ <<p[n], q[k + n]>> \in TitleIn
        \/ Len(p) > 1 /\ n = 1 /\ <<p[n], q[k + n]>> \in TitleEnds
        \/ Len(p) > 1 /\ n = Len(p) /\ <<p[n], q[k + n]>> \in TitleStarts

Joined(recorded, new, Part(_, _)) ==
    IF \E k \in DOMAIN recorded : Part(new, recorded[k]) THEN recorded
    ELSE Append(recorded, new)

SameName(a, b) == a = b \/ <<a, b>> \in NameIn

NewItem(f, d) == [key |-> f.key, kind |-> f.kind, title |-> f.title, detail |-> f.detail,
                  priority |-> f.priority, native |-> f.native,
                  sections |-> <<f.section>>, docs |-> <<d>>]

Merge_Fault(item, f, d) ==      \* ItemsTellTheFacts breaks: the first mention's priority stays
    [item EXCEPT !.sections = Joined(@, f.section, PartOfPath),
                 !.docs = Joined(@, d, SameName),
                 !.native = @ \cup f.native]

Merge(item, f, d) ==
    [item EXCEPT !.sections = Joined(@, f.section, PartOfPath),
                 !.docs = Joined(@, d, SameName),
                 !.native = @ \cup f.native,
                 !.priority = IF f.priority < @ THEN f.priority ELSE @]

Collect ==
    /\ queue # <<>>
    /\ LET f == queue[1].fact
           d == queue[1].doc
       IN  /\ items' = IF \E i \in DOMAIN items : items[i].key = f.key
                       THEN [i \in DOMAIN items |->
                               IF items[i].key = f.key THEN Merge(items[i], f, d) ELSE items[i]]
                       ELSE Append(items, NewItem(f, d))
           /\ told' = told \cup {queue[1]}
    /\ queue' = Tail(queue)
    /\ UNCHANGED <<uploads, docs, doc, line, stack, body, units>>

-----------------------------------------------------------------------------
(* planUnitsFromItems. Items of one suite, first document and sections make a *)
(* group; sorted by priority and id it is cut into units.                     *)
SuiteOfKind ==
    [endpoint |-> "api-contract", route |-> "ui-e2e", selector |-> "ui-e2e",
     component |-> "component", env_var |-> "configuration", persona |-> "authorization",
     fixture |-> "test-data", mock |-> "dependency-failure", planned_case |-> "functional",
     risk |-> "risk-regression", gate |-> "release-gate", workload |-> "performance",
     environment |-> "environment", requirement |-> "requirements"]

Structural == {"endpoint", "route", "selector", "persona", "mock", "fixture"}

Classify(item) ==
    IF item.kind \in Structural THEN SuiteOfKind[item.kind]
    ELSE LET words == item.title \cup UNION {Range(p) : p \in Range(item.sections)}
         IN  FirstOf(ThemeOrder, UNION {Themes[w] : w \in words}, SuiteOfKind[item.kind])

GroupOf(i) == <<Classify(items[i]), items[i].docs[1], items[i].sections>>
Mates(i) == {j \in DOMAIN items : GroupOf(j) = GroupOf(i)}

\* An id is CI-, the kind in capitals, and the position: items sort by kind first.
KindsInOrder == <<"component", "endpoint", "environment", "env_var", "fixture", "gate", "mock", "persona",
                  "planned_case", "requirement", "risk", "route", "selector", "workload">>
Key(i) == <<items[i].priority, CHOOSE k \in DOMAIN KindsInOrder : KindsInOrder[k] = items[i].kind, i>>
Before(j, i) ==
    \E n \in 1..3 : Key(j)[n] < Key(i)[n] /\ \A m \in 1..(n - 1) : Key(j)[m] = Key(i)[m]
Slice_Fault(i) == (Cardinality({j \in Mates(i) : Before(j, i)}) + 1) \div MaxItemsPerUnit  \* UnitsAreACut breaks
Slice(i) == Cardinality({j \in Mates(i) : Before(j, i)}) \div MaxItemsPerUnit

PlanUnits ==
    /\ doc > Len(docs) /\ queue = <<>> /\ units = {} /\ items # <<>>
    /\ units' = {{j \in Mates(i) : Slice(j) = Slice(i)} : i \in DOMAIN items}
    /\ UNCHANGED <<uploads, docs, doc, line, stack, body, queue, items, told>>

Done == doc > Len(docs) /\ queue = <<>> /\ (units # {} \/ items = <<>>)
Rest == Done /\ UNCHANGED vars

Next == \/ ReadHeading \/ ReadLine \/ EndOfText \/ ReadEntry \/ EndOfJson
        \/ Collect \/ PlanUnits \/ Rest

Spec == Init /\ [][Next]_vars

-----------------------------------------------------------------------------
(* Types.                                                                      *)
TypeOK ==
    /\ doc \in 1..(Len(docs) + 1) /\ line \in Nat \ {0}
    /\ ReadingText => stack \in Seq(1..Len(Lines)) /\ body \in Seq(Line)
    /\ \A i \in DOMAIN items : items[i].kind \in Kinds /\ items[i].priority \in 0..3
    /\ units \subseteq SUBSET DOMAIN items

(* A section is filed under the headings that enclose it: at every line, those  *)
(* above it with no heading of their own level or higher in between             *)
(* (parsers.ts:11, "sections keyed by their full heading path").                *)
Outline(lines, n) ==
    InOrder({h \in 1..n : /\ lines[h].level > 0
                          /\ \A k \in (h + 1)..n :
                               lines[k].level = 0 \/ lines[k].level > lines[h].level})

StackIsOutline ==
    doc <= Len(docs) /\ ~docs[doc].parses => stack = Outline(Lines, line - 1)

(* However often and wherever a fact is restated, there is one item for it, it  *)
(* has the highest severity and all the native ids it was stated with, its       *)
(* detail is that of one statement, it names only sections and documents that    *)
(* state it, none that it names is found in the text of one before, and what it  *)
(* does not name is: the section "API" is not named behind "API errors", so       *)
(* provenance is kept up to substrings only (analyzer.ts:81-95).                 *)
ItemsTellTheFacts ==
    /\ \A m \in told : \E i \in DOMAIN items : items[i].key = m.fact.key
    /\ \A i, j \in DOMAIN items : items[i].key = items[j].key => i = j
    /\ \A i \in DOMAIN items :
        LET said == {m \in told : m.fact.key = items[i].key}
            sections == items[i].sections
        IN  /\ \E m \in said : m.fact.priority = items[i].priority
            /\ \A m \in said : items[i].priority <= m.fact.priority
            /\ items[i].native = UNION {m.fact.native : m \in said}
            /\ \E m \in said : m.fact.detail = items[i].detail
            /\ Range(sections) \subseteq {m.fact.section : m \in said}
            /\ Range(items[i].docs) \subseteq {m.doc : m \in said}
            /\ \A k, n \in DOMAIN sections : k < n => ~PartOfPath(sections[n], sections[k])
            /\ \A m \in said :
                /\ \E s \in Range(sections) : PartOfPath(m.fact.section, s)
                /\ \E d \in Range(items[i].docs) : SameName(m.doc, d)

(* Once everything is read, each bullet of some length, each row of a table,     *)
(* each entry of a JSON document within the walk's limits, and each plain line    *)
(* within the first 200 characters of a paragraph outside of fences that are      *)
(* closed, is in the detail of an item that tells its section and its document,   *)
(* whichever copy of an upload was kept and whichever statement of the fact was   *)
(* the first. A line between 200 and 1200 characters is, unless it was lost to    *)
(* another text with the same first 200 characters and another detail; what lies  *)
(* beyond 1200 is lost, whatever spec.ts:17-21 says ("covers every detail").      *)
Plain(l) == l.mark = "none" /\ l.level = 0 /\ ~l.pipe /\ ~l.sep

SameSection(lines, i) == {k \in DOMAIN lines : \A m \in (k..i) \cup (i..k) : lines[m].level = 0}
FencesUpTo(lines, i, n) == {k \in SameSection(lines, i) : k <= n /\ lines[k].mark = "fence"}
Paragraph(lines, i) ==
    {k \in DOMAIN lines : \A m \in (k..i) \cup (i..k) :
        lines[m].level = 0 /\ lines[m].mark \notin {"blank", "fence"}}

\* A table starts below a line that cannot belong to another.
RowOfTable(lines, i) ==
    \E h \in SameSection(lines, i) :
        /\ h + 1 < i /\ lines[h].pipe /\ lines[h + 1].sep
        /\ \A k \in (h + 2)..i : lines[k].pipe
        /\ h = 1 \/ ~(lines[h - 1].pipe \/ lines[h - 1].sep)

\* How many characters of the paragraph there are up to line n of it.
CharsUpTo(lines, i, n) ==
    LET P == Paragraph(lines, i)
    IN  Reach(Says(Only(lines, P)))[Cardinality({k \in P : k <= n})]

ProseOfSection(lines, i) ==
    /\ \A k \in Paragraph(lines, i) : Plain(lines[k])
    /\ \A n \in {i, Len(lines)} : Cardinality(FencesUpTo(lines, i, n)) % 2 = 0
    /\ CharsUpTo(lines, i, Len(lines)) > MinParagraph

ProseWithin(lines, i, n) ==
    Plain(lines[i]) /\ ProseOfSection(lines, i) /\ CharsUpTo(lines, i, i) <= n

Bulleted(l) ==
    IF Len(EndpointsIn[l.says]) > 1 THEN Range(EndpointsIn[l.says])
    ELSE IF Length[l.says] >= MinBullet THEN {l.says} ELSE {}

MustTell(lines, i) ==
    LET l == lines[i]
    IN  {text \in Texts \ {None} :
            \/ l.mark = "bullet" /\ text \in Bulleted(l)
            \/ text = l.says /\ (RowOfTable(lines, i) \/ ProseWithin(lines, i, KeyChars))}

\* A detail holds a text that one of its own is, or begins with.
Holds(detail, text) == \E t \in detail : text \in {t, Opening[t]}

CopiesOf(d) == {uploads[c].name : c \in {c \in DOMAIN uploads : Content(uploads[c]) = Content(d)}}

InAnItem(d, path, text) ==
    \E i \in DOMAIN items :
        /\ Holds(items[i].detail, text)
        /\ \E s \in Range(items[i].sections) : PartOfPath(path, s)
        /\ \E a \in CopiesOf(d), b \in Range(items[i].docs) : SameName(a, b)

LostToAnother(d, path, text) ==
    \E m, n \in told : /\ m.doc \in CopiesOf(d) /\ m.fact.section = path /\ text \in m.fact.detail
                      /\ n.fact.key = m.fact.key /\ n.fact.detail # m.fact.detail

TitlesAbove(lines, i) ==
    LET above == Outline(lines, i)
    IN  IF above = <<>> THEN <<Preamble>> ELSE [k \in DOMAIN above |-> lines[above[k]].title]

EveryDetailIsTold ==
    Done => \A u \in DOMAIN uploads :
        LET d == uploads[u]
        IN  IF d.parses
            THEN \A k \in DOMAIN d.entries :
                    LET e == d.entries[k]
                    IN  IF e.array THEN e.convention \/ InAnItem(d, <<e.field>>, e.says)
                        ELSE e.empty \/ e.depth > MaxDepth \/ e.leaf > MaxLeaves
                             \/ InAnItem(d, <<e.field>>, e.says)
            ELSE \A i \in DOMAIN d.lines :
                    LET path == TitlesAbove(d.lines, i)
                    IN  /\ \A text \in MustTell(d.lines, i) : InAnItem(d, path, text)
                        /\ ProseWithin(d.lines, i, DetailChars) =>
                             InAnItem(d, path, d.lines[i].says) \/ LostToAnother(d, path, d.lines[i].says)

(* The units are a partition of the items into as few as the limit allows; the   *)
(* items of a unit share suite, document and sections, and no unit skips an item *)
(* of the group that lies between two of its own in severity                     *)
(* (planner.ts:61-65, 75, 86-92).                                                *)
UnitsAreACut ==
    units # {} =>
        /\ UNION units = DOMAIN items
        /\ \A U, V \in units : U = V \/ U \cap V = {}
        /\ \A U \in units :
            /\ Cardinality(U) <= MaxItemsPerUnit
            /\ \A i, k \in U :
                /\ GroupOf(i) = GroupOf(k)
                /\ \A j \in Mates(i) : Before(i, j) /\ Before(j, k) => j \in U
        /\ \A i \in DOMAIN items :
            LET cut == {U \in units : U \subseteq Mates(i)}
            IN  MaxItemsPerUnit * (Cardinality(cut) - 1) < Cardinality(Mates(i))
=============================================================================
