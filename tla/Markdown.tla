------------------------------ MODULE Markdown ------------------------------
(***************************************************************************)
(* What ingest/parsers.ts finds in the body of one section, and what         *)
(* ingest/analyzer.ts makes of it: the facts that the tables, the bullets and *)
(* the paragraphs of the section state, in the order of the code.             *)
(*                                                                          *)
(* A line is a record: its heading level (0: none), its title, its mark, and  *)
(* whether it holds a pipe or is a separator; what it says is one of Texts,   *)
(* which has a length in characters. The vocabulary that decides kinds,       *)
(* priorities and suites is what Hints, Weight and Themes say of a text or a  *)
(* title. What is left of a text when it is cut is a text too: two texts with *)
(* the same opening begin alike.                                              *)
(*                                                                          *)
(* X_Fault is X with one plausible coding error; see JobService.             *)
(***************************************************************************)
EXTENDS Positions, SequencesExt

CONSTANTS
    Texts,          \* what lines say: bullets, cells, prose, endpoints, values
    Titles,         \* headings, and the keys of JSON documents
    Names,          \* names of documents
    Hints,          \* text or title -> the kinds its words hint at
    Weight,         \* text or title -> the priority of its words, 0 to 2
    Themes,         \* text or title -> the themes of its words
    EndpointsIn,    \* text -> the endpoints it lists
    Length,         \* text -> its characters
    Opening,        \* text -> what a cut leaves of it
    MinBullet,      \* 12 characters
    MinParagraph,   \* more than 40 characters
    BulletTitle,    \* 140 characters of a bullet are its title
    TitleChars,     \* 110 characters of a paragraph are its title,
    KeyChars,       \* 200 its key
    DetailChars     \* and 1200 its detail

\* inferKind's patterns in the order it tries them, after endpoint and route.
Precedence == <<"persona", "mock", "fixture", "environment", "risk", "gate",
                "workload", "env_var", "selector">>
Kinds == {"endpoint", "route", "component", "planned_case", "requirement"} \cup Range(Precedence)
ThemeOrder == <<"accessibility", "performance", "security">>
None == "none"
NoPriority == 4     \* a cell without P0 to P3
Preamble == "(preamble)"    \* the path of what stands before the first heading

ASSUME MarkdownConstants ==
    /\ Hints \in [Texts \cup Titles -> SUBSET Kinds]
    /\ Weight \in [Texts \cup Titles -> 0..2]
    /\ Themes \in [Texts \cup Titles -> SUBSET Range(ThemeOrder)]
    /\ EndpointsIn \in [Texts -> Seq(Texts)]
    /\ Preamble \in Titles
    /\ Length \in [Texts -> Nat \ {0}] /\ Opening \in [Texts -> Texts]
    /\ {MinBullet, MinParagraph, BulletTitle, TitleChars, KeyChars, DetailChars} \subseteq Nat
    /\ KeyChars <= DetailChars

\* A heading has a title and is nothing else. Any other line says something, but for a
\* blank one and for a row of empty cells.
Line == {l \in [level : 0..6, title : Titles \cup {None},
                mark : {"bullet", "fence", "blank", "none"}, pipe : BOOLEAN, sep : BOOLEAN,
                says : Texts \cup {None},
                cols : SUBSET {"id", "priority"}, id : Texts \cup {None}, column : 0..NoPriority] :
         /\ l.level > 0 => l.title \in Titles /\ l.mark = "none"
         /\ l.level > 0 \/ l.mark = "blank" \/ (l.pipe /\ l.mark # "bullet") \/ l.says \in Texts}

-----------------------------------------------------------------------------
(* The first of a sequence of patterns that some word matches.               *)
FirstOf(order, found, default) ==
    IF \E i \in DOMAIN order : order[i] \in found
    THEN order[CHOOSE i \in DOMAIN order :
                 order[i] \in found /\ \A j \in 1..(i - 1) : order[j] \notin found]
    ELSE default

Words(path, text) == Range(path) \cup text

InferKind_Fault(path, text) ==  \* TypeOK breaks: a kind of its own for what is not told
    FirstOf(Precedence, UNION {Hints[w] : w \in Words(path, text)}, "case")

\* An endpoint or a route is told from the text alone, the rest from both.
InferKind(path, text) ==
    LET own == UNION {Hints[t] : t \in text}
    IN  IF "endpoint" \in own THEN "endpoint"
        ELSE IF "route" \in own THEN "route"
        ELSE FirstOf(Precedence, UNION {Hints[w] : w \in Words(path, text)}, "planned_case")

DetectPriority(path, text) ==
    CHOOSE p \in 0..2 : /\ p = 2 \/ \E w \in Words(path, text) : Weight[w] = p
                        /\ \A w \in Words(path, text) : p <= Weight[w]

\* A key is a kind, what it is made of, a text and what tells equal texts apart.
TextKey(kind, text) == <<kind, "text", text, <<>>>>

Fact(key, kind, priority, path, title, detail, native) ==
    [key |-> key, kind |-> kind, priority |-> priority, section |-> path,
     title |-> title, detail |-> detail, native |-> native]

-----------------------------------------------------------------------------
(* How far the lines of a text reach when they are joined by line ends, and   *)
(* its first n characters: the lines that end within, and what is left of one *)
(* that only begins there.                                                    *)
Reach(text) ==
    LET reach[k \in 0..Len(text)] == IF k = 0 THEN -1 ELSE reach[k - 1] + 1 + Length[text[k]]
    IN  reach

Excerpt(text, n) ==
    LET reach == Reach(text)
    IN  [k \in {k \in DOMAIN text : reach[k - 1] < n} |->
            IF reach[k] <= n THEN text[k] ELSE Opening[text[k]]]

Says(run) == [k \in DOMAIN run |-> run[k].says]

-----------------------------------------------------------------------------
(* parseTables: a header is a line with a pipe above a separator; the lines   *)
(* with a pipe that follow are its rows, whatever they are.                   *)
Roles(body) ==
    LET n == Len(body)
        role[i \in 0..n] ==
            IF i = 0 THEN "text"
            ELSE IF role[i - 1] = "head" THEN "separator"
            ELSE IF role[i - 1] \in {"separator", "row"} /\ body[i].pipe THEN "row"
            ELSE IF body[i].pipe /\ i < n /\ body[i + 1].sep THEN "head"
            ELSE "text"
    IN  role

\* The columns are the header's: an id or a priority counts only below its heading.
RowFact(path, head, row) ==
    LET title == {row.says}
        kind == InferKind(path, title)
        native == IF "id" \in head.cols /\ row.id # None THEN {row.id} ELSE {}
    IN  Fact(IF native = {} THEN <<kind, "cells", <<row.says>>, <<head.says, row.id, row.column>>>>
             ELSE <<kind, "id", <<row.says>>, <<row.id>>>>,
             kind, IF "priority" \in head.cols /\ row.column # NoPriority THEN row.column
                   ELSE DetectPriority(path, title),
             path, title, title, native)

TableFacts(path, body) ==
    LET role == Roles(body)
        HeaderOf(i) == CHOOSE h \in 1..i : role[h] = "head" /\ \A k \in (h + 1)..i : role[k] # "head"
        rows == InOrder({i \in DOMAIN body : role[i] = "row" /\ body[i].says # None})
    IN  [k \in DOMAIN rows |-> RowFact(path, body[HeaderOf(rows[k])], body[rows[k]])]

-----------------------------------------------------------------------------
(* A bullet that lists several endpoints states each of them; any other is a  *)
(* requirement, unless it is very short.                                      *)
BulletFact(path, text) ==
    LET kind == InferKind(path, {text})
    IN  Fact(TextKey("requirement", <<text>>), IF kind = "planned_case" THEN "requirement" ELSE kind,
             DetectPriority(path, {text}), path, Range(Excerpt(<<text>>, BulletTitle)), {text}, {})

EndpointFact(path, e) == Fact(TextKey("endpoint", <<e>>), "endpoint", 1, path, {e}, {e}, {})

FactsOfBullet(path, bullet) ==
    IF Len(EndpointsIn[bullet.says]) > 1
    THEN [k \in DOMAIN EndpointsIn[bullet.says] |-> EndpointFact(path, EndpointsIn[bullet.says][k])]
    ELSE IF Length[bullet.says] < MinBullet THEN <<>>
    ELSE <<BulletFact(path, bullet.says)>>

BulletFacts(path, body) ==
    LET bullets == Only(body, {i \in DOMAIN body : body[i].mark = "bullet"})
    IN  FlattenSeq([k \in DOMAIN bullets |-> FactsOfBullet(path, bullets[k])])

-----------------------------------------------------------------------------
(* parseParagraphs: what lies between two fences goes, with the fences; a      *)
(* fence that is never closed stays. The rest is split at blank lines.        *)
Fences(body, S) == {i \in S : body[i].mark = "fence"}

Fenced_Fault(body, i) ==    \* EveryDetailIsTold breaks: from the first fence to the last
    Cardinality(Fences(body, DOMAIN body)) > 1
        /\ \E f, g \in Fences(body, DOMAIN body) : f <= i /\ i <= g

Fenced(body, i) ==
    LET total == Cardinality(Fences(body, DOMAIN body))
        rank == Cardinality(Fences(body, 1..i))   \* itself included
    IN  IF body[i].mark = "fence" THEN rank % 2 = 0 \/ rank < total
        ELSE rank % 2 = 1 /\ rank < total

Break(body, i) == i \notin DOMAIN body \/ body[i].mark = "blank" \/ Fenced(body, i)

IsParagraph(run) ==
    /\ \A k \in DOMAIN run : ~run[k].pipe
    /\ run[1].mark # "bullet"
    /\ ~(Len(run) = 1 /\ run[1].sep)
    /\ Reach(Says(run))[Len(run)] > MinParagraph

ParagraphFact_Fault(path, run) ==   \* EveryDetailIsTold breaks: the title's cut for the detail
    Fact(TextKey("requirement", Excerpt(Says(run), KeyChars)), "requirement",
         DetectPriority(path, Range(Says(run))), path, Range(Excerpt(Says(run), TitleChars)),
         Range(Excerpt(Says(run), TitleChars)), {})

\* Two paragraphs that begin alike are one fact.
ParagraphFact(path, run) ==
    LET text == Says(run)
    IN  Fact(TextKey("requirement", Excerpt(text, KeyChars)), "requirement",
             DetectPriority(path, Range(text)), path, Range(Excerpt(text, TitleChars)),
             Range(Excerpt(text, DetailChars)), {})

ParagraphFacts(path, body) ==
    LET starts == InOrder({i \in DOMAIN body : ~Break(body, i) /\ Break(body, i - 1)})
        End(i) == CHOOSE k \in i..Len(body) :
                     Break(body, k + 1) /\ \A m \in i..k : ~Break(body, m)
        runs == [k \in DOMAIN starts |-> SubSeq(body, starts[k], End(starts[k]))]
        kept == Only(runs, {k \in DOMAIN runs : IsParagraph(runs[k])})
    IN  [k \in DOMAIN kept |-> ParagraphFact(path, kept[k])]

FactsOf(path, body) ==
    TableFacts(path, body) \o BulletFacts(path, body) \o ParagraphFacts(path, body)
=============================================================================
