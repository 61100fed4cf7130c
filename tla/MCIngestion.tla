----------------------------- MODULE MCIngestion -----------------------------
(* All texts of up to MaxLines lines, all pairs of texts of up to two, and some *)
(* longer and some JSON documents.                                              *)
EXTENDS Ingestion

CONSTANT MaxLines

MCTexts == {"rule", "long", "other", "wrap", "short", "cell", "call", "GET", "PUT", "V1", "fence", "---",
            "ru", "part", "bit"}
MCTitles == {"API", "errors", "API errors", Preamble, "$.A", "$.endpoints"}
MCNames == {"api", "api2"}
MCHints == [w \in MCTexts \cup MCTitles |->
              CASE w = "API" -> {"mock", "risk"} [] w = "GET" -> {"endpoint"} [] OTHER -> {}]
MCWeight == [w \in MCTexts \cup MCTitles |->
               CASE w = "API" -> 0 [] w \in {"wrap", "$.endpoints"} -> 1 [] OTHER -> 2]
MCThemes == [w \in MCTexts \cup MCTitles |-> IF w = "API errors" THEN {"security"} ELSE {}]
MCEndpointsIn == [w \in MCTexts |-> IF w = "call" THEN <<"GET", "PUT">> ELSE <<>>]
MCLength == [w \in MCTexts |->
               CASE w = "rule" -> 60 [] w = "long" -> 89 [] w = "other" -> 90 [] w \in {"wrap", "call"} -> 30
                 [] w = "part" -> 20 [] w \in {"cell", "GET", "PUT"} -> 10 [] OTHER -> 3]
MCOpening == [w \in MCTexts |->
                CASE w \in {"long", "other"} -> "part" [] w = "rule" -> "ru" [] OTHER -> "bit"]
MCNameIn == {<<"api", "api2">>}
MCTitleStarts == {<<"API", "API errors">>}
MCTitleEnds == {<<"errors", "API errors">>}
MCTitleIn == MCTitleStarts \cup MCTitleEnds
MCFieldKind == [w \in MCTitles |-> IF w = "$.endpoints" THEN "endpoint" ELSE "requirement"]

Base == [level |-> 0, title |-> None, mark |-> "none", pipe |-> FALSE, sep |-> FALSE,
         says |-> None, cols |-> {}, id |-> None, column |-> NoPriority]
Heading(level, title) == [Base EXCEPT !.level = level, !.title = title]
H1 == Heading(1, "API errors")
H2 == Heading(2, "API")
Blank == [Base EXCEPT !.mark = "blank"]
Plainly(text) == [Base EXCEPT !.says = text]
Fence == [Plainly("fence") EXCEPT !.mark = "fence"]
Bullet == [Base EXCEPT !.mark = "bullet", !.says = "rule"]
Short == [Bullet EXCEPT !.says = "short"]
Part == [Bullet EXCEPT !.says = "part"]
Calls == [Bullet EXCEPT !.says = "call"]
Prose == Plainly("rule")
Wrap == Plainly("wrap")
Row == [Base EXCEPT !.pipe = TRUE, !.says = "cell", !.cols = {"id", "priority"}, !.id = "V1", !.column = 1]
Dashes == [Base EXCEPT !.pipe = TRUE, !.sep = TRUE, !.says = "rule"]
Dash == [Plainly("---") EXCEPT !.sep = TRUE]

Text(name, lines) == [name |-> name, parses |-> FALSE, lines |-> lines, entries |-> <<>>]
Alphabet == {H1, H2, Blank, Fence, Bullet, Prose, Row, Dashes}
UpTo(n, S) == UNION {[1..k -> S] : k \in 1..n}

Leaf == [array |-> FALSE, field |-> "$.A", says |-> "rule", detail |-> "rule", id |-> None,
         convention |-> FALSE, empty |-> FALSE, depth |-> 1, leaf |-> 0]
Record == [Leaf EXCEPT !.array = TRUE, !.field = "$.endpoints", !.id = "V1", !.says = "GET"]
Json(name, entries) == [name |-> name, parses |-> TRUE, lines |-> <<>>, entries |-> entries]
EntryAlphabet == {Leaf, Record, [Record EXCEPT !.convention = TRUE], [Record EXCEPT !.id = None, !.detail = "cell"],
                  [Leaf EXCEPT !.empty = TRUE], [Leaf EXCEPT !.depth = 3], [Leaf EXCEPT !.depth = 2, !.leaf = 2],
                  [Leaf EXCEPT !.leaf = 3]}

MCUploads ==
    {<<Text("api", t)>> : t \in UpTo(MaxLines, Alphabet)}
    \cup {<<Text("api2", s), Text("api", t)>> : s, t \in UpTo(2, Alphabet)}
    \cup {<<Text(a, s), Text(b, t)>> : a, b \in MCNames, s, t \in {<<H2, Bullet>>, <<Bullet>>, <<Wrap, Wrap, Bullet>>}}
    \cup {<<Json("api", e), Text("api2", <<Calls, Short, Calls>>)>> : e \in UpTo(3, EntryAlphabet)}
    \cup {<<Text("api", <<Fence, Row, Fence, Wrap, Wrap, Fence, Bullet, Fence>>)>>,
          <<Text("api", <<Row, Dash, Row, Dash, Row, Wrap, Wrap>>)>>,
          <<Text("api", <<H2, Row, Dashes, Row, H1, Row, Dashes, Row, Bullet, H2, Bullet, Wrap, Blank, Prose>>)>>,
          <<Text("api", <<H1, Heading(2, "API errors"), Bullet, Heading(1, "errors"), H2, Bullet>>)>>}
    \cup {<<Text("api2", s), Text("api", t)>> :
            s, t \in {<<Prose, Plainly(w)>> : w \in {"long", "other"}}
                    \cup {<<Plainly("long")>>, <<Part, H1, Plainly("long"), Prose>>, <<Prose, Prose, Prose>>, <<Wrap, Wrap>>, <<Wrap, Plainly("call")>>}}
=============================================================================
