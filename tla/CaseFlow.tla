------------------------------- MODULE CaseFlow -------------------------------
(***************************************************************************)
(* The way of the test cases from a model's answer to the spec files: the     *)
(* answer is parsed (ModelOutput), validated and normalised                   *)
(* (coverage/normalize.ts), reported on (coverage/report.ts) and stored;      *)
(* a code generation job loads what fits the schema (domain/testcase.ts),     *)
(* selects, and plans the files (codegen/planner.ts) that it then generates.  *)
(*                                                                          *)
(* What a text says is left out: it is "empty", "blank" (spaces only), "mark" *)
(* (no Latin letter or digit) or one of Words. An absent field is one with    *)
(* its default, which for most texts is the empty one. Enumerations and       *)
(* numbers, which are always coerced to an allowed value, are left out too.   *)
(* Cases are the objects of one answer; the repair rounds are JobService's.   *)
(*                                                                          *)
(* X_Fault is X with one plausible coding error; see JobService.              *)
(***************************************************************************)
EXTENDS ModelOutput

CONSTANTS
    Words,          \* the readable texts
    Items,          \* the coverage items of the unit
    PriorityOf,     \* item -> 0..3
    UnitSuite,      \* unit.suite
    LongStems,      \* names whose path does not fit into 180 characters
    MaxSteps,       \* steps that the schema allows (40)
    MaxAsked,       \* steps that the model is asked to stay below (12)
    MaxPerFile,     \* options.maxCasesPerFile
    Limits,         \* bound: the values of include.limit, 0 for none
    Answers,        \* bound: the answers of a model, which may be cut off anywhere
    Raws            \* bound: what the objects of an answer may say

\* JSON lists are sequences, and what is kept of a priority are its digits.
IsRaw(raw) ==
    /\ \A list \in {"steps", "priority", "selectors", "mocks", "assertions", "gaps"} :
          raw[list] \in Seq(Range(raw[list]))
    /\ Range(raw.priority) \subseteq 0..9
    /\ \A s \in Range(raw.selectors) : DOMAIN s = {"purpose", "value"}
    /\ \A a \in Range(raw.assertions) : DOMAIN a = {"target"}

ASSUME CaseFlowConstants ==
    /\ {"empty", "blank", "mark"} \cap Words = {} /\ UnitSuite \in Words
    /\ PriorityOf \in [Items -> 0..3]
    /\ {MaxSteps, MaxAsked, MaxPerFile} \subseteq Nat \ {0} /\ MaxAsked <= MaxSteps
    /\ Limits \subseteq Nat
    /\ \A said \in Raws : said \in Seq(Range(said)) /\ \A raw \in Range(said) : IsRaw(raw)

VARIABLES
    phase,      \* the last thing done
    answer,     \* what the model answered
    found,      \* the objects that the parser made of it
    raws,       \* what these objects say
    cases,      \* the test cases of the job, as stored
    report,     \* its coverage report
    source,     \* the cases that the code generation job has loaded
    include,    \* its selection: suites, priorities, limit
    selected,   \* the cases selected, in order
    plans,      \* the files planned
    files       \* path -> the cases of the file generated there

vars == <<phase, answer, found, raws, cases, report, source, include, selected, plans, files>>

Nothing == [form |-> "none"]    \* before, and once it matters no more
Anything == [suites |-> {}, priorities |-> {}, limit |-> 0]
NoReport == [covered |-> {}, p0 |-> FALSE]

-----------------------------------------------------------------------------
(* JavaScript on texts: trim(), and a || b.                                  *)
Trim(t) == IF t = "blank" THEN "empty" ELSE t
Or(t, other) == IF t = "empty" THEN other ELSE t

(* RawBatch: what makes safeParse reject the whole batch.                     *)
Rejected(raw) ==
    \/ raw.wrongType \/ raw.title = "empty"
    \/ \E s \in Range(raw.steps) : "empty" \in {s.action, s.result}

(* A null among these reaches a callback that reads a member of it.           *)
Throws(raw) ==
    \E f \in {"selectors", "mocks", "assertions", "gaps"} : \E part \in Range(raw[f]) :
        "null" \in Range(part)

-----------------------------------------------------------------------------
(* normalizeTestCase(), field by field.                                       *)
Priority(digits) ==
    LET small == {i \in DOMAIN digits : digits[i] <= 3}
    IN  IF small = {} THEN 2 ELSE digits[Min(small)]

(* The steps that say something, numbered, or a single one made of the title. *)
Usable(steps) ==
    Only(steps, {i \in DOMAIN steps : "empty" \notin {Trim(steps[i].action), Trim(steps[i].result)}})

Steps_Fault(raw) ==         \* ObedientCasesSurvive breaks: numbered from 0
    LET usable == Usable(raw.steps)
    IN  [i \in DOMAIN usable |-> [index |-> i - 1, action |-> usable[i].action]]

Steps(raw) ==
    LET usable == Usable(raw.steps)
    IN  IF usable = <<>> THEN <<[index |-> 1, action |-> Trim(raw.title)]>>
        ELSE [i \in DOMAIN usable |-> [index |-> i, action |-> Trim(usable[i].action)]]

(* Tags in kebab case without the machine's ids, or else two derived ones.    *)
Slug(t) == IF t \in Words THEN t ELSE "empty"
Tags(raw) ==
    LET clean == raw.tags \cap Words
        derived == {Or(raw.suite, UnitSuite), raw.edge} \ {"empty"}
    IN  IF clean # {} THEN clean ELSE {Slug(t) : t \in derived}

With(seq, field) == Only(seq, {i \in DOMAIN seq : seq[i][field] # "empty"})

Covers_Fault(raw) == raw.claims     \* TypeOK breaks: ids of other units pass
Covers(raw) == raw.claims \cap Items

NormalizeTestCase(raw, n) ==
    [id |-> n, title |-> Trim(raw.title),
     description |-> Trim(Or(raw.description, raw.title)),
     priority |-> Priority(raw.priority),
     tags |-> Tags(raw), steps |-> Steps(raw),
     suite |-> Or(Trim(raw.suite), UnitSuite),
     selectors |-> With(raw.selectors, "value"), mocks |-> raw.mocks,
     assertions |-> With(raw.assertions, "target"), gaps |-> raw.gaps,
     describe |-> raw.describe, testTitle |-> raw.testTitle,
     file |-> IF raw.file = <<"absent">> THEN <<"tests", "e2e", UnitSuite>> ELSE raw.file,
     covers |-> Covers(raw)]

(* TestCase.safeParse: what the schema asks of a case, beyond types. What the  *)
(* normalisation never leaves empty (preconditions, results) is left out.     *)
Valid(c) ==
    /\ "empty" \notin {c.title, c.description, c.suite, c.describe, c.testTitle} \cup c.tags
    /\ Len(c.steps) \in 1..MaxSteps
    /\ \A s \in Range(c.steps) : s.index > 0 /\ s.action # "empty"
    /\ Len(c.assertions) >= 1
    /\ \A f \in {"selectors", "mocks", "assertions", "gaps"} : \A part \in Range(c[f]) :
          "empty" \notin Range(part)
    /\ c.file # <<"empty">>

(* buildCoverageReport()                                                      *)
Report(cs) ==
    LET covered == {i \in Items : \E c \in Range(cs) : i \in c.covers}
    IN  [covered |-> covered, p0 |-> \A i \in Items : PriorityOf[i] = 0 => i \in covered]

-----------------------------------------------------------------------------
(* filterCases(): the selected cases, most severe first.                      *)
Chosen(c, in) ==
    /\ in.suites = {} \/ c.suite \in in.suites
    /\ in.priorities = {} \/ c.priority \in in.priorities
MoreSevere(c, d) == c.priority < d.priority \/ (c.priority = d.priority /\ c.id < d.id)
UpTo(n, seq) == IF n > 0 /\ n < Len(seq) THEN SubSeq(seq, 1, n) ELSE seq

\* The k-th is the one that k - 1 others are more severe than.
BySeverity(S) ==
    [k \in 1..Cardinality(S) |-> CHOOSE c \in S : Cardinality({d \in S : MoreSevere(d, c)}) = k - 1]

FilterCases_Fault(cs, in) ==    \* SuiteHasTheSelected breaks: cut before sorted
    BySeverity(Range(UpTo(in.limit, Only(cs, {i \in DOMAIN cs : Chosen(cs[i], in)}))))

FilterCases(cs, in) ==
    UpTo(in.limit, BySeverity({c \in Range(cs) : Chosen(c, in)}))

(* A path is the names it consists of and the part appended to it;            *)
(* sanitizeSpecPath() pins names with and without tests/ under the same path,   *)
(* replaces a name of dots by the suite's, and cuts a long one, which then has  *)
(* no suffix any more.                                                          *)
SpecPath(file, suite) ==
    IF file[1] = "dots" THEN <<suite>>
    ELSE IF file[1] \in LongStems THEN <<file[1]>>
    ELSE IF file[1] = "tests" THEN Tail(file)
    ELSE file
PartPath(path, k) == IF k = 1 \/ path[1] \in LongStems THEN path ELSE Append(path, k)
PathOf(c) == SpecPath(c.file, c.suite)

(* planFiles(): the cases of a path in order, MaxPerFile to a plan.            *)
Group(cs, path) == Only(cs, {i \in DOMAIN cs : PathOf(cs[i]) = path})

Parts_Fault(n) ==           \* CoverageReachesTheSuite breaks: a last, short part is lost
    {k \in 1..n : k = 1 \/ k * MaxPerFile <= n}
Parts(n) == {k \in 1..n : (k - 1) * MaxPerFile < n}
Part(group, k) == SubSeq(group, (k - 1) * MaxPerFile + 1, Min({k * MaxPerFile, Len(group)}))

PlanFiles(cs) ==
    UNION {{[path |-> PartPath(path, k), cases |-> Part(Group(cs, path), k)] :
                k \in Parts(Len(Group(cs, path)))} : path \in {PathOf(c) : c \in Range(cs)}}

-----------------------------------------------------------------------------
Init ==
    /\ phase = "asked"
    /\ \E a \in Answers : \E n \in 0..Len(Full(a)) : answer = [a EXCEPT !.cut = n]
    /\ found = <<>> /\ raws = <<>> /\ cases = <<>> /\ report = NoReport
    /\ source = <<>> /\ include = Anything /\ selected = <<>>
    /\ plans = {} /\ files = <<>>

(* A step that finds nothing throws, and the unit or the job fails.           *)
Goes(p, seq) == phase' = IF seq = <<>> THEN "failed" ELSE p

Parse ==
    /\ phase = "asked"
    /\ found' = ParseBatch(answer) /\ Goes("parsed", found')
    /\ answer' = Nothing
    /\ UNCHANGED <<raws, cases, report, source, include, selected, plans, files>>

(* runOnce(): one object that is off the schema, or that the normalisation     *)
(* stumbles over, takes its whole batch with it.                               *)
Normalize ==
    /\ phase = "parsed"
    /\ raws' \in {said \in Raws : Len(said) = Len(found)}
    /\ cases' = IF \E r \in Range(raws') : Rejected(r) \/ Throws(r) THEN <<>>
                ELSE [n \in DOMAIN raws' |-> NormalizeTestCase(raws'[n], n)]
    /\ Goes("normalized", cases')
    /\ found' = <<>>
    /\ UNCHANGED <<answer, report, source, include, selected, plans, files>>

(* The job ends: the report, and the cases on disk.                            *)
Finish ==
    /\ phase = "normalized"
    /\ report' = Report(cases) /\ phase' = "stored"
    /\ UNCHANGED <<answer, found, raws, cases, source, include, selected, plans, files>>

(* loadSourceCases(): what does not fit the schema is left out, and nobody told. *)
Load ==
    /\ phase = "stored"
    /\ source' = Only(cases, {i \in DOMAIN cases : Valid(cases[i])}) /\ Goes("loaded", source')
    /\ UNCHANGED <<answer, found, raws, cases, report, include, selected, plans, files>>

Select ==
    /\ phase = "loaded"
    /\ \E suites \in {{}} \cup {{c.suite} : c \in Range(source)},
          priorities \in {{}} \cup {{c.priority} : c \in Range(source)}, limit \in Limits :
        include' = [suites |-> suites, priorities |-> priorities, limit |-> limit]
    /\ selected' = FilterCases(source, include') /\ Goes("selected", selected')
    /\ raws' = <<>>
    /\ UNCHANGED <<answer, found, cases, report, source, plans, files>>

Plan ==
    /\ phase = "selected"
    /\ plans' = PlanFiles(selected) /\ phase' = "planned"
    /\ UNCHANGED <<answer, found, raws, cases, report, source, include, selected, files>>

(* The files of the plans that were generated, in any order: of two plans with *)
(* one path, the one that is over last stays.                                  *)
Generate ==
    /\ phase = "planned"
    /\ \E done \in (SUBSET plans) \ {{}} :
        files' \in {f \in [{p.path : p \in done} -> {p.cases : p \in done}] :
                        \A path \in DOMAIN f : [path |-> path, cases |-> f[path]] \in done}
    /\ phase' = "generated"
    /\ UNCHANGED <<answer, found, raws, cases, report, source, include, selected, plans>>

Rest == phase \in {"generated", "failed"} /\ UNCHANGED vars

Next == Parse \/ Normalize \/ Finish \/ Load \/ Select \/ Plan \/ Generate \/ Rest

Spec == Init /\ [][Next]_vars

-----------------------------------------------------------------------------
(* Types; in particular a case claims only items that its unit was asked for.  *)
TypeOK ==
    /\ phase \in {"asked", "parsed", "normalized", "stored", "loaded", "selected",
                  "planned", "generated", "failed"}
    /\ \A c \in Range(cases) : c.covers \subseteq Items /\ c.priority \in 0..3
    /\ report \in [covered : SUBSET Items, p0 : BOOLEAN]
    /\ Range(source) \subseteq Range(cases) /\ Range(selected) \subseteq Range(source)
    /\ \A p \in plans : Len(p.cases) \in 1..MaxPerFile
    /\ DOMAIN files \subseteq {p.path : p \in plans}

(* "Handles code fences, leading/trailing prose and truncated arrays without    *)
(* discarding partial results" (parse.ts:43-47): of every answer the parser     *)
(* gets the well-formed objects that are complete in it, in order, and nothing   *)
(* else. A bracket in the prose before an array under another key is taken for   *)
(* the array (parse.ts:60-61); of such an answer this is not said.               *)
Misleading(a) == a.form = "renamed" /\ "[" \in Range(a.prose)

NothingCompleteIsLost ==
    [][phase = "asked" /\ ~Misleading(answer) => found' = CompleteObjects(answer)]_vars

(* An answer that keeps to the schema it was asked to keep to (llm/schema.ts),  *)
(* with something readable in each required text, keeps its cases all the way   *)
(* to code generation, where an invalid case is dropped without a word          *)
(* (service.ts:123-126). It may lack steps and tags worth keeping, or a suite,   *)
(* and claim items of other units. One object that is worse than that takes its   *)
(* whole batch with it, and of such a batch this is not said.                     *)
Obedient(raw) ==
    /\ ~raw.wrongType /\ ~Throws(raw)
    /\ {raw.title, raw.edge, raw.describe, raw.testTitle} \subseteq Words
    /\ {raw.description, raw.suite} \subseteq Words \cup {"empty"}
    /\ Len(raw.steps) <= MaxAsked /\ \A s \in Range(raw.steps) : "empty" \notin {s.action, s.result}
    /\ \E a \in Range(raw.assertions) : a.target # "empty"
    /\ \A s \in Range(raw.selectors) : s.purpose # "empty"
    /\ \A part \in Range(raw.mocks) \cup Range(raw.gaps) : "empty" \notin Range(part)
    /\ raw.file # <<"empty">>

ObedientCasesSurvive ==
    phase \in {"loaded", "failed"} /\ cases # <<>> =>
        \A n \in DOMAIN raws : Obedient(raws[n]) => cases[n] \in Range(source)

(* The suite has what was selected (planner.ts:30-87): each selected case is in  *)
(* exactly one plan, and the limit leaves out no case that is more severe than   *)
(* one it keeps (planner.ts:44).                                                 *)
SuiteHasTheSelected ==
    phase = "planned" =>
        /\ \A c \in Range(selected) : Cardinality({p \in plans : c \in Range(p.cases)}) = 1
        /\ \A c \in Range(source) : Chosen(c, include) /\ c \notin Range(selected) =>
              /\ include.limit = Len(selected)
              /\ \A d \in Range(selected) : d.priority <= c.priority

(* What the coverage report calls covered ("measurable rather than asserted",    *)
(* report.ts:18) is in the end tested: with a whole selection, every case valid, *)
(* every file generated and no two of them under one path, each covered item has *)
(* a spec file with a case that claims it.                                       *)
CoverageReachesTheSuite ==
    (/\ phase = "generated" /\ include = Anything /\ source = cases
     /\ Cardinality(DOMAIN files) = Cardinality(plans)) =>
        \A i \in report.covered : \E path \in DOMAIN files :
            \E c \in Range(files[path]) : i \in c.covers
=============================================================================
