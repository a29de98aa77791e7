------------------------------- MODULE Scores --------------------------------
(***************************************************************************)
(* One LiveBench answer is written, piece by piece, and graded once by the *)
(* script of its category, as score-run.sh has it; if the script fails or  *)
(* takes too long the answer is recorded as wrong.  Questions is a         *)
(* sequence of                                                             *)
(*   task      what the script is called with as --task                    *)
(*   truth     the ground truth                                            *)
(*   value     for math_comp, the text of the right choice, or <<>>        *)
(*   pieces    what an answer is put together from                         *)
(*   size      how many pieces an answer has at most                       *)
(*   right     the right answer, as the question may ask for it, or <<>>   *)
(*   spoilers  tokens after which the right answer may legitimately fail   *)
(*   evidence  the ways to write the whole right answer, each a sequence   *)
(*             of texts that stand in it one behind the other; none for a  *)
(*             task whose script gives full marks for less                 *)
(***************************************************************************)
EXTENDS ScoreMath, ScoreLanguage, ScoreReasoning, ScoreTables, ScoreInstructions

CONSTANT Questions

\* Responses, pieces and truths are texts, but for the truth that is a list of
\* instructions, and every part of a zebra puzzle's truth has a word (the list is
\* never empty: score-reasoning.py splits the truth at its commas).
ASSUME QuestionsAssumption ==
    \A i \in DOMAIN Questions :
        LET q == Questions[i]
        IN  /\ q.size \in Nat
            /\ q.pieces \subseteq Texts
            /\ IF q.task = "instruction_following" THEN q.truth \in Seq(ToSet(q.truth))
                                                   ELSE q.truth \in Texts
            /\ q.task = "zebra_puzzle" => Without(q.truth, {","}) # <<>>

\* The truth of a connections puzzle lists its words, one token each, between
\* commas: there are some, none is blank and no two are the same.
ASSUME PuzzlesAssumption ==
    \A i \in DOMAIN Questions :
        LET truth == Questions[i].truth
            words == Without(truth, {","})
        IN  Questions[i].task = "connections" =>
                /\ words # <<>> /\ IsInjective(words) /\ ToSet(words) \cap Blank = {}
                /\ Split(truth, ",") = [j \in DOMAIN words |-> <<words[j]>>]

VARIABLES
    question,    \* which of the questions is answered
    pieces,      \* how many pieces the response has
    response,    \* the response written so far
    recorded     \* the score recorded for it, and where it comes from

vars == <<question, pieces, response, recorded>>

Asked == Questions[question]
Unscored == [by |-> "nobody", score |-> 0]

Init ==
    /\ question \in DOMAIN Questions
    /\ pieces = 0
    /\ response = <<>>
    /\ recorded = Unscored

Write ==
    /\ recorded = Unscored
    /\ pieces < Asked.size
    /\ \E piece \in Asked.pieces : response' = response \o piece
    /\ pieces' = pieces + 1
    /\ UNCHANGED <<question, recorded>>

\* main of every script: thoughts are taken off, the task's grader is called.
Said == StripThink(response)

Record(scores) ==
    /\ recorded = Unscored
    /\ \E s \in scores : recorded' = [by |-> "script", score |-> s]
    /\ UNCHANGED <<question, pieces, response>>

GradeMath ==
    LET scores ==
            CASE Asked.task = "olympiad" -> {ScoreOlympiad(Said, ParseIntegers(Asked.truth))}
              [] Asked.task = "AMPS_Hard" ->
                    {ScoreAmpsHard(Said, Asked.truth, sympy) : sympy \in BOOLEAN}
              [] Asked.task = "math_comp" -> {ScoreMathComp(Said, Asked.truth, Asked.value)}
    IN  Asked.task \in {"olympiad", "AMPS_Hard", "math_comp"} /\ Record(scores)

GradeLanguage ==
    LET scores ==
            CASE Asked.task = "connections" -> {ScoreConnections(Said, Split(Asked.truth, ","))}
              [] Asked.task = "plot_unscrambling" -> PlotScores(Said, Asked.truth)
              [] Asked.task = "typos" -> {ScoreTypos(Said, Asked.truth)}
    IN  Asked.task \in {"connections", "plot_unscrambling", "typos"} /\ Record(scores)

GradeReasoning ==
    LET scores ==
            CASE Asked.task = "spatial" -> {ScoreSpatial(Said, Asked.truth[1])}
              [] Asked.task = "web_of_lies_v2" -> {ScoreWebOfLies(Said, Asked.truth)}
              [] Asked.task = "zebra_puzzle" -> {ScoreZebra(Said, Without(Asked.truth, {","}))}
    IN  Asked.task \in {"spatial", "web_of_lies_v2", "zebra_puzzle"} /\ Record(scores)

\* The harness does not hand over the question: its format shows in the truth.
GradeTables ==
    LET scores ==
            CASE Asked.task = "cta" -> {ScoreCta(Said, Asked.truth)}
              [] Asked.task = "tablejoin" -> {ScoreTableJoin(Said, Asked.truth)}
              [] Asked.task = "tablereformat" -> {ScoreTableReformat(Said, Asked.truth, "none")}
    IN  Asked.task \in {"cta", "tablejoin", "tablereformat"} /\ Record(scores)

\* The truth is the sequence of instructions.
GradeInstructions ==
    LET scores ==
            {ScoreInstructionFollowing(Said, Asked.truth, detected) : detected \in BOOLEAN}
    IN  Asked.task = "instruction_following" /\ Record(scores)

\* A file is missing, the script crashes, prints nonsense or is killed in time.
ScriptFails ==
    /\ recorded = Unscored
    /\ recorded' = [by |-> "harness", score |-> 0]
    /\ UNCHANGED <<question, pieces, response>>

Next ==
    \/ Write
    \/ GradeMath \/ GradeLanguage \/ GradeReasoning \/ GradeTables \/ GradeInstructions
    \/ ScriptFails

Spec == Init /\ [][Next]_vars

-----------------------------------------------------------------------------
(* Properties                                                              *)

Graded == recorded.by = "script"

\* Every variable has its type: responses are made of their question's pieces,
\* no score is negative.
TypeOK ==
    /\ question \in DOMAIN Questions
    /\ pieces \in 0 .. Asked.size
    /\ ToSet(response) \subseteq UNION {ToSet(p) : p \in Asked.pieces}
    /\ recorded.by \in {"nobody", "script", "harness"}
    /\ recorded.score \in Nat
    /\ recorded.by # "script" => recorded.score = 0

\* A score is a fraction of the full score, as each script's header says, but
\* for connections, where the groups of the answer are counted against those
\* of the truth: there it is at most the share of the truth's words that the
\* response has, counted as often as they stand in it.
ScoresAreFractions ==
    LET words == Without(Asked.truth, {","})
        said == Only(response, ToSet(words))
    IN  Graded => recorded.score <=
            IF Asked.task = "connections" THEN Max({Full, Round4(Len(said), Len(words))})
                                          ELSE Full

\* Tags, fences, stars and braces opened in a text are closed in it, one after
\* the other, and \boxed is never without its brace.
OneAfterTheOther(text, open, close) ==
    \A i \in DOMAIN text :
        LET depth == Count(SubSeq(text, 1, i), open) - Count(SubSeq(text, 1, i), close)
        IN  depth \in {0, 1} /\ (i = Len(text) => depth = 0)

WellFormed(text) ==
    /\ At(text, "<think>") = {}
    /\ OneAfterTheOther(text, "<solution>", "</solution>")
    /\ OneAfterTheOther(text, "{", "}")
    /\ \A t \in {"**", "fence", "$"} : Count(text, t) % 2 = 0 /\ ~Occurs(<<t, t>>, text)
    /\ \A i \in At(text, "boxed") : i + 1 \in At(text, "{")

\* The right answer, given in the asked form at the end of a response, scores
\* full marks whatever well-formed text stands before it, earlier answers and
\* thoughts included: the last answer counts.
RightAnswerScoresFull ==
    LET before == SubSeq(response, 1, Len(response) - Len(Asked.right))
    IN  /\ Graded
        /\ Asked.right # <<>> /\ IsSuffix(Asked.right, response)
        /\ WellFormed(StripThink(before)) /\ ToSet(before) \cap Asked.spoilers = {}
        => recorded.score = Full

\* parts stand in text one behind the other: where the first k end at the earliest.
InOrder(parts, text) ==
    LET end[k \in 0 .. Len(parts)] ==
            IF k = 0 THEN 0
            ELSE LET n == Len(parts[k])
                 IN  Min({Len(text) + 1}
                         \cup {e \in end[k - 1] + n .. Len(text) :
                                  SubSeq(text, e - n + 1, e) = parts[k]})
    IN  end[Len(parts)] <= Len(text)

\* Full marks for an olympiad, AMPS_Hard, typos, spatial, web_of_lies, zebra,
\* cta, tablejoin or tablereformat answer take a text that, thoughts and line
\* breaks aside, has every part of the right answer in it, in its order.  More may
\* stand between and around the parts: several scripts look for the answer within
\* the text.  Not so the other tasks, which this leaves out: in connections one
\* right group given as often as there are groups is enough
\* (score-language.py:207), in math_comp a longer number with the digits in it
\* (score-math.py:412) or a box that only starts with the letter (:352), and
\* plots and instructions have many right answers.
FullScoreNeedsTheAnswer ==
    Graded /\ recorded.score = Full /\ Asked.evidence # {} =>
        \E parts \in Asked.evidence :
            InOrder(parts, Without(StripThink(response), {"nl"}))

\* The one-row edit distance of score-math.py and the table of score-language.py
\* are the same, and for sequences a little longer than the truth also what the
\* cheapest alignment of the two costs.
Alignments(s, t) ==
    {a \in (SUBSET DOMAIN s) \X (SUBSET DOMAIN t) : Cardinality(a[1]) = Cardinality(a[2])}

CheapestAlignment(s, t) ==
    LET nth(S, k) == CHOOSE x \in S : Cardinality({y \in S : y <= x}) = k
        cost(I, J) == Len(s) + Len(t) - 2 * Cardinality(I)
                      + Cardinality({k \in 1 .. Cardinality(I) : s[nth(I, k)] # t[nth(J, k)]})
    IN  Min({cost(a[1], a[2]) : a \in Alignments(s, t)})

EditDistancesAgree ==
    Asked.task \in {"olympiad", "plot_unscrambling"} /\ recorded = Unscored =>
        /\ RowDistance(response, Asked.truth) = TableDistance(Asked.truth, response)
        /\ Len(response) <= Len(Asked.truth) + 1 =>
               RowDistance(response, Asked.truth) = CheapestAlignment(response, Asked.truth)

\* The scripts' own copies of the \boxed extractor find the same text wherever
\* every \boxed has its brace.
BoxedCopiesAgree ==
    (\A i \in At(response, "boxed") : i + 1 \in At(response, "{")) /\ recorded = Unscored =>
        LET box == LastBoxed(response)
            last == [i \in DOMAIN box |-> Without(box[i], {"$"})]
        IN  /\ BoxedText(response) = last
            /\ ExtractBoxed(response) = NonEmpty([i \in DOMAIN box |-> Strip(box[i])])

\* Of values that are not falsy the score of a join is the share of common
\* pairs: twice their number over the pairs of both, in hundredths.
Pairs(d) == {<<k, d[k]>> : k \in DOMAIN d}

JoinScoreIsDice ==
    Graded /\ Asked.task = "tablejoin" =>
        \A dict \in ToSet(DictOf(Asked.truth)) :
            LET llm == Pairs(CleanJoin(StripThink(response)))
                true == Pairs(dict)
                both == Cardinality(llm) + Cardinality(true)
            IN  both > 0 /\ (\A p \in llm \cup true : p[2] \notin Falsy) =>
                   recorded.score = 100 * Nearest(200 * Cardinality(llm \cap true), both)

\* Partial credit for part of a puzzle or of the instructions never reaches half
\* of the full score, unless there are so many parts that four decimals cannot
\* tell: only an answer that is right in all of them gets more.
PartialCreditIsBelowHalf ==
    Graded /\ Asked.task \in {"zebra_puzzle", "instruction_following"} =>
        \/ recorded.score = Full
        \/ 2 * recorded.score < Full
        \/ 2 * recorded.score = Full /\ Len(Asked.truth) >= Full
=============================================================================
