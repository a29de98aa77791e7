--------------------------- MODULE ScoreReasoning ----------------------------
(***************************************************************************)
(* score-reasoning.py: answers to spatial, web_of_lies_v2 and zebra_puzzle *)
(* questions.                                                              *)
(***************************************************************************)
EXTENDS ScoreText

\* <solution> tags on one line, or else what two closing tags enclose.
TaggedOnOneLine(text) ==
    LET proper == Between(text, "<solution>", "</solution>", {"nl"})
    IN  IF proper # <<>> THEN proper ELSE Between(text, "</solution>", "</solution>", {"nl"})

-----------------------------------------------------------------------------
(* spatial                                                                 *)

WordToNumber == [one |-> "1", two |-> "2", three |-> "3"]
FuzzyShapes == {"tetrahedra", "tetrahedron", "triangle", "square"}

\* **text** of at least one token, none of them stars.
BoldTexts(text) ==
    Spans(text, 1, 1, [s \in At(text, "**") |->
        {e \in At(text, "**") : s + 1 < e /\ \A k \in s + 1 .. e - 1 : text[k] # "**"}])

\* A short text, of at most two words, that has the shape's name in it.
FuzzyMatch(word, shape) ==
    shape \in FuzzyShapes /\ shape \in ToSet(word) /\ Len(Without(word, Blank)) <= 2

ScoreSpatial(text, truth) ==
    LET bold == BoldTexts(text)
        words == {Strip(bold[i]) : i \in {j \in DOMAIN bold : j > Len(bold) - 3}}
        boxed == LastBoxed(text)
        right ==
            \/ text = <<truth>>
            \/ \E word \in words :
                  \/ word = <<truth>>
                  \/ \E n \in DOMAIN WordToNumber : word = <<n>> /\ WordToNumber[n] = truth
                  \/ FuzzyMatch(word, truth)
            \/ boxed # <<>> /\ Without(boxed[1], {"}"}) = <<truth>>
    IN  IF right THEN Full ELSE 0

-----------------------------------------------------------------------------
(* web_of_lies_v2: three words out of yes, no, unknown                     *)

Verdict3 == {"yes", "no", "unknown"}

Join(words) ==
    [i \in 1 .. (IF words = <<>> THEN 0 ELSE 2 * Len(words) - 1) |->
        IF i % 2 = 0 THEN "," ELSE words[(i + 1) \div 2]]

\* The last three such words in bold.
FromBold(text) ==
    LET bold == FlattenSeq(Between(text, "**", "**", {"nl"}))
    IN  Join(LastTokens(Only(bold, Verdict3), 3))

\* Of the triples of such words, the one whose first occurrence is last.
FromScan(text) ==
    LET triple(i) == SubSeq(text, i, i + 4)
        isTriple(i) == /\ {text[i], text[i + 2], text[i + 4]} \subseteq Verdict3
                       /\ text[i + 1] = "," /\ text[i + 3] = ","
        starts == {i \in 1 .. Len(text) - 4 : isTriple(i)}
        firsts == {i \in starts : \A j \in starts : triple(j) = triple(i) => i <= j}
    IN  IF starts = {} THEN <<>> ELSE triple(Max(firsts))

ParsedTriple(text) ==
    LET tagged == TaggedOnOneLine(text)
        early == IF tagged # <<>> THEN <<Last(tagged)>> ELSE NonEmpty(<<FromBold(text)>>)
        boxed == LastBoxed(text)
    IN  IF early # <<>> /\ (early[1] = <<>> \/ Strip(early[1]) # <<>>) THEN early[1]
        ELSE IF boxed # <<>> THEN boxed[1]
        ELSE IF early # <<>> THEN early[1]
        ELSE FromScan(text)

\* "unknown" counts twice, since "no" is in it.
ScoreWebOfLies(text, truth) ==
    LET answer == ParsedTriple(text)
        mentions == Count(answer, "yes") + Count(answer, "no") + 2 * Count(answer, "unknown")
        right == answer = truth \/ (mentions = 3 /\ Occurs(truth, answer))
    IN  IF right THEN Full ELSE 0

-----------------------------------------------------------------------------
(* zebra_puzzle: half of the score for all parts, half for the share       *)

ZebraAnswer(text, parts) ==
    LET boxed == LastBoxed(text)
        last == Last(Split(Strip(text), "nl"))
        tagged == TaggedOnOneLine(text)
        matches == IF tagged # <<>> THEN tagged
                   ELSE IF boxed # <<>> THEN <<Without(boxed[1], {"}"})>>
                   ELSE IF Count(last, ",") = parts - 1 THEN <<last>> ELSE <<>>
        words == FlattenSeq([i \in DOMAIN matches |-> Split(matches[i], ",")])
    IN  IF Len(matches) > 1 THEN LastTokens(words, parts) ELSE words

\* A slip for ScoresAreFractions: the two halves are added whole.
WholeHalves(correct, total) ==
    Round4((IF correct = total THEN total ELSE 0) + correct, total)

ZebraFormula(correct, total) ==
    Round4((IF correct = total THEN total ELSE 0) + correct, 2 * total)

\* A part is right if its word occurs in the answer's part.
ScoreZebra(text, truth) ==
    LET answer == ZebraAnswer(text, Len(truth))
        correct == {i \in DOMAIN truth : i <= Len(answer) /\ Occurs(<<truth[i]>>, answer[i])}
    IN  IF answer = <<>> THEN 0 ELSE ZebraFormula(Cardinality(correct), Len(truth))
=============================================================================
