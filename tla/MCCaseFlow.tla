------------------------------ MODULE MCCaseFlow ------------------------------
(* Answers of up to two objects of every shape, or three plain ones, cut off     *)
(* after any token; of the objects, the first differs from a good one in any two  *)
(* fields and the others are one of a few.                                       *)
EXTENDS CaseFlow

Plain == <<"{", "quote", "text", "quote", "text", "}">>
Brace == <<"{", "quote", "{", "quote", "}">>
Quote == <<"{", "quote", "backslash", "quote", "}", "quote", "}">>
Slash == <<"{", "quote", "backslash", "backslash", "quote", "}">>
Inner == <<"{", "[", "{", "text", "}", "]", "}">>
Broken == <<"{", "junk", "}">>
Shapes == {Plain, Brace, Quote, Slash, Inner, Broken}

Contents == (UNION {[1..n -> Shapes] : n \in 1..2}) \cup {<<Plain, Plain, Plain>>}
Prose == {<<>>, <<"text">>, <<"{", "junk", "}">>, <<"[", "text", "]">>}

MCAnswers == [form : {"wrapped", "renamed", "array"}, prose : Prose, fenced : BOOLEAN,
              objects : Contents, cut : {0}]

-----------------------------------------------------------------------------
MCPriorityOf == [i \in Items |-> IF i = "i1" THEN 0 ELSE 2]

Step == [action |-> "word", result |-> "word"]
Mock == [id |-> "word", url |-> "word", method |-> "word"]
Gap == [field |-> "word", reason |-> "word", action |-> "word"]
Good == [wrongType |-> FALSE, title |-> "word", description |-> "word", steps |-> <<Step>>,
         priority |-> <<2>>, tags |-> {"word"}, suite |-> "word", edge |-> "word",
         selectors |-> <<[purpose |-> "word", value |-> "word"]>>, mocks |-> <<Mock>>,
         assertions |-> <<[target |-> "word"]>>, gaps |-> <<>>, describe |-> "word", testTitle |-> "word",
         file |-> <<"a">>, claims |-> {"i1"}]

Odd == [wrongType |-> {TRUE}, title |-> {"empty", "blank", "mark"}, description |-> {"empty", "blank"},
        steps |-> {<<>>, <<Step, Step, Step>>, <<Step, [Step EXCEPT !.action = "blank"]>>,
                   <<[Step EXCEPT !.result = "empty"]>>, <<[Step EXCEPT !.result = "blank"]>>},
        priority |-> {<<>>, <<1, 0>>, <<9, 0>>}, tags |-> {{}, {"id"}},
        suite |-> {"empty", "blank", "mark", "other"}, edge |-> {"empty", "mark"},
        selectors |-> {<<>>, <<[purpose |-> "null", value |-> "null"]>>, <<[purpose |-> "empty", value |-> "word"]>>,
                       <<[purpose |-> "empty", value |-> "empty"]>>},
        mocks |-> {<<[f \in DOMAIN Mock |-> "null"]>>} \cup {<<[Mock EXCEPT ![f] = "empty"]>> : f \in DOMAIN Mock},
        assertions |-> {<<>>, <<[target |-> "null"]>>, <<[target |-> "empty"]>>,
                        <<[target |-> "empty"], [target |-> "word"]>>},
        gaps |-> {<<Gap>>, <<[f \in DOMAIN Gap |-> "null"]>>} \cup {<<[Gap EXCEPT ![f] = "empty"]>> : f \in DOMAIN Gap},
        describe |-> {"empty"}, testTitle |-> {"empty", "mark"},
        file |-> {<<"empty">>, <<"absent">>, <<"dots">>, <<"tests", "a">>, <<"e2e", "word">>, <<"a", 2>>, <<"long">>, <<"b">>},
        claims |-> {{}, {"i2"}, {"i1", "x"}}]

Off(raw, fields) == UNION {{[raw EXCEPT ![f] = v] : v \in Odd[f]} : f \in fields}
Fields == DOMAIN Odd
One == {Good} \cup Off(Good, Fields)
Two == One \cup UNION {Off(raw, Fields) : raw \in One}
Few == {Good} \cup Off(Good, {"priority", "file", "claims"})

MCRaws == {<<raw>> : raw \in Two}
    \cup {<<raw, other>> : raw \in One, other \in Few}
    \cup {<<raw, other, last>> : raw, other, last \in Few}
=============================================================================
