------------------------------ MODULE ModelOutput ------------------------------
(***************************************************************************)
(* Reading a model's answer (llm/parse.ts): the fence, the whole document,   *)
(* and the scan that salvages the complete objects of a truncated array.     *)
(*                                                                          *)
(* An answer is a sequence of tokens, the ones that the scan tells apart:    *)
(*   "{" "}" "[" "]"   outside or inside a string                            *)
(*   "quote" "backslash"                                                     *)
(*   "key"             the name "testCases" in its quotes                    *)
(*   "fence"           three back-ticks, with a language or not              *)
(*   "junk"            something that JSON does not allow                    *)
(*   "text"            anything else                                         *)
(* JSON.parse is external: it accepts what is complete and has no junk.      *)
(***************************************************************************)
EXTENDS Positions, SequencesExt, FiniteSetsExt

Malformed(text) == Contains(text, "junk")

(* The position of the first t at or after position i, or 0.                 *)
IndexOf(text, t, i) ==
    LET at == {k \in i..Len(text) : text[k] = t}
    IN  IF at = {} THEN 0 ELSE Min(at)

-----------------------------------------------------------------------------
(* salvageObjects(): one token of the scan. body holds the tokens since       *)
(* `start`, and is empty as long as start is -1.                              *)
Began == [depth |-> 0, string |-> FALSE, escaped |-> FALSE, body |-> <<>>, found |-> <<>>]

Taken(s, t) == IF s.body = <<>> THEN <<>> ELSE Append(s.body, t)

InString_Fault(s, t) ==     \* NothingCompleteIsLost breaks: escapes are not seen
    [s EXCEPT !.body = Taken(s, t), !.string = t # "quote"]

InString(s, t) ==
    [s EXCEPT !.body = Taken(s, t),
              !.escaped = ~s.escaped /\ t = "backslash",
              !.string = s.escaped \/ t # "quote"]

Opened(s) ==
    [s EXCEPT !.depth = @ + 1,
              !.body = IF s.depth = 0 THEN <<"{">> ELSE Taken(s, "{")]

Closed(s) ==
    LET body == Taken(s, "}")
    IN  IF s.depth = 1 /\ body # <<>>
        THEN [s EXCEPT !.depth = 0, !.body = <<>>,
                       !.found = IF Malformed(body) THEN @ ELSE Append(@, body)]
        ELSE [s EXCEPT !.depth = @ - 1, !.body = body]

Scanned(s, t) ==
    CASE s.string -> InString(s, t)
      [] ~s.string /\ t = "{" -> Opened(s)
      [] ~s.string /\ t = "}" -> Closed(s)
      [] OTHER -> [s EXCEPT !.body = Taken(s, t), !.string = t = "quote"]

Salvage(text) == FoldLeft(Scanned, Began, text).found

-----------------------------------------------------------------------------
(* What a model may answer: objects, one after the other in an array, alone    *)
(* or under a key of an object, in a fence or not, after some prose or none,   *)
(* and cut off after `cut` tokens.                                             *)
Opening(form) ==
    CASE form = "wrapped" -> <<"{", "key", "[">>
      [] form = "renamed" -> <<"{", "quote", "text", "quote", "[">>
      [] form = "array"   -> <<"[">>
Closing(form) == IF form = "array" THEN <<"]">> ELSE <<"]", "}">>

Document(a) == Opening(a.form) \o FlattenSeq(a.objects) \o Closing(a.form)
Fence(a) == IF a.fenced THEN <<"fence">> ELSE <<>>
Full(a) == a.prose \o Fence(a) \o Document(a) \o Fence(a) \o a.prose
Text(a) == SubSeq(Full(a), 1, a.cut)

(* What is between the first two fences, or everything.                        *)
Candidate(text) ==
    LET first == IndexOf(text, "fence", 1)
        next == IF first = 0 THEN 0 ELSE IndexOf(text, "fence", first + 1)
    IN  IF next = 0 THEN text ELSE SubSeq(text, first + 1, next - 1)

(* JSON.parse(candidate) has an array under testCases.                         *)
IsWhole(a, text) == a.form = "wrapped" /\ text = Document(a) /\ ~Malformed(text)

(* parseBatch(): the objects it finds; none means that it throws.              *)
ParseBatch(a) ==
    LET text == Candidate(Text(a))
        key == IndexOf(text, "key", 1)
        array == IndexOf(text, "[", IF key = 0 THEN 1 ELSE key)
        salvaged == IF array = 0 THEN <<>> ELSE Salvage(SubSeq(text, array, Len(text)))
    IN  IF IsWhole(a, text) THEN a.objects
        ELSE IF salvaged # <<>> THEN salvaged
        ELSE Salvage(text)

-----------------------------------------------------------------------------
(* The reference: the well-formed objects that the answer holds to their end.   *)
EndOf(a, i) ==
    Len(a.prose \o Fence(a) \o Opening(a.form)) + Len(FlattenSeq(SubSeq(a.objects, 1, i)))

CompleteObjects(a) ==
    LET Whole == {i \in DOMAIN a.objects : EndOf(a, i) <= a.cut /\ ~Malformed(a.objects[i])}
    IN  Only(a.objects, Whole)
=============================================================================
