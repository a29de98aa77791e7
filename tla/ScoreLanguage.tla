---------------------------- MODULE ScoreLanguage ----------------------------
(***************************************************************************)
(* score-language.py: answers to connections, plot_unscrambling and typos  *)
(* questions.                                                              *)
(***************************************************************************)
EXTENDS ScoreText

CONSTANT GroupSize   \* words in a group of a connections puzzle; 4 in the code

ASSUME GroupSizeAssumption == GroupSize \in Nat \ {0}

\* The full table of the edit distance.
TableDistance(s, t) ==
    LET dp[cell \in (0 .. Len(s)) \X (0 .. Len(t))] ==
            LET i == cell[1]
                j == cell[2]
            IN  IF i = 0 THEN j
                ELSE IF j = 0 THEN i
                ELSE IF s[i] = t[j] THEN dp[<<i - 1, j - 1>>]
                ELSE 1 + Min({dp[<<i - 1, j>>], dp[<<i, j - 1>>], dp[<<i - 1, j - 1>>]})
    IN  dp[<<Len(s), Len(t)>>]

\* last_boxed_only_string and remove_boxed of this script: "\boxed " anywhere
\* takes what follows its last occurrence, up to a dollar; otherwise the braces
\* count from the last \boxed, which one must follow at once.
BoxedText(text) ==
    LET boxes == At(text, "boxed")
        spaced == {p \in boxes : p + 1 \in At(text, " ")}
        last == Max(boxes)
        closings == Closings(text, last)
    IN  IF spaced # {}
        THEN <<Split(SubSeq(text, Max(spaced) + 2, Len(text)), "$")[1]>>
        ELSE IF boxes # {} /\ closings # {} /\ last + 1 \in At(text, "{")
        THEN <<Without(SubSeq(text, last + 2, Min(closings) - 1), {"$"})>>
        ELSE <<>>

-----------------------------------------------------------------------------
(* connections                                                             *)

\* group_words: words in sets, a new one as soon as the last is full.
GroupWords(words) ==
    LET groups[i \in 0 .. Len(words)] ==
            IF i = 0 THEN << {} >>
            ELSE LET g == groups[i - 1]
                     w == Strip(words[i])
                 IN  IF Cardinality(Last(g)) = GroupSize THEN Append(g, {w})
                     ELSE Append(Front(g), Last(g) \cup {w})
    IN  groups[Len(words)]

\* <solution> tags: on one line, across lines, and both again for a pair of
\* closing tags; then \boxed.
SolutionMatches(text) ==
    LET joined == Without(text, {"nl"})
        attempts == NonEmpty(<<Between(text, "<solution>", "</solution>", {"nl"}),
                               Between(joined, "<solution>", "</solution>", {}),
                               Between(text, "</solution>", "</solution>", {"nl"}),
                               Between(joined, "</solution>", "</solution>", {})>>)
        boxed == BoxedText(text)
    IN  IF attempts # <<>> THEN attempts[1]
        ELSE [i \in DOMAIN boxed |-> Without(boxed[i], {"}"})]

\* A slip for RightAnswerScoresFull: of several matches the first words count.
FirstWords(matches, expected) ==
    LET words == FlattenSeq([i \in DOMAIN matches |-> Split(Without(matches[i], {"nl"}), ",")])
    IN  IF Len(matches) > 1 THEN SubSeq(words, 1, Min({expected, Len(words)})) ELSE words

\* The words of one match as they are; of several, the last ones together.
SolutionWords(matches, expected) ==
    LET words == FlattenSeq([i \in DOMAIN matches |-> Split(Without(matches[i], {"nl"}), ",")])
    IN  IF Len(matches) > 1 THEN LastTokens(words, expected) ELSE words

\* connections_process_results_old: the best of the bold texts, where a group
\* counts if one of the answer contains it.
ScoreBold(text, groups) ==
    LET bold == Between(Without(text, {"nl"}), "**", "**", {})
        correct(b) == {i \in DOMAIN groups :
                          \E g \in ToSet(GroupWords(Split(b, ","))) : groups[i] \subseteq g}
    IN  IF bold = <<>> THEN 0
        ELSE Round4(Max({Cardinality(correct(b)) : b \in ToSet(bold)}), Len(groups))

\* Groups of the answer that are groups of the truth, repeated ones included.
ScoreConnections(text, truth) ==
    LET groups == GroupWords(truth)
        matches == SolutionMatches(text)
        answer == GroupWords(SolutionWords(matches, Len(truth)))
        correct == Only(answer, ToSet(groups))
    IN  IF matches = <<>> THEN ScoreBold(text, groups)
        ELSE Round4(Len(correct), Len(groups))

-----------------------------------------------------------------------------
(* plot_unscrambling: a sentence is a token, its full stop included.       *)

PlotTags == {"<PLOT_SUMMARY>", "</PLOT_SUMMARY>"}

\* From the first opening tag to the last closing one, or to the end.
PlotSummary(text) ==
    LET opens == At(text, "<PLOT_SUMMARY>")
        closes == {e \in At(text, "</PLOT_SUMMARY>") : Min(opens) < e}
    IN  IF opens = {} THEN text
        ELSE SubSeq(text, Min(opens) + 1, IF closes = {} THEN Len(text) ELSE Max(closes) - 1)

\* A tag sticks to the sentence behind it.
Sentences(text) ==
    LET pieces[i \in 0 .. Len(text)] ==
            IF i = 0 THEN << <<>> >>
            ELSE LET piece == Append(Last(pieces[i - 1]), text[i])
                 IN  Front(pieces[i - 1]) \o (IF text[i] \in PlotTags THEN <<piece>>
                                                                     ELSE <<piece, <<>> >>)
    IN  Without(pieces[Len(text)], {<<>>, <<"</PLOT_SUMMARY>">>})

\* get_close_matches: an equal sentence is the closest, and if there is none
\* some sentence always is.  What counts is where it stands first.
Orderings(truth, answer) ==
    LET first(s) == Min({j \in DOMAIN answer : answer[j] = s})
        closest(s) == IF <<s>> \in ToSet(answer) THEN {first(<<s>>)}
                      ELSE {first(x) : x \in ToSet(answer)}
    IN  IF answer = <<>> THEN {<<>>}
        ELSE {o \in [DOMAIN truth -> DOMAIN answer] :
                 \A i \in DOMAIN truth : o[i] \in closest(truth[i])}

PlotScores(text, truth) ==
    LET n == Len(truth)
        inOrder == [i \in DOMAIN truth |-> i]
    IN  IF n = 0 THEN {0}
        ELSE {Round4(n - TableDistance(inOrder, o), n) :
                 o \in Orderings(truth, Sentences(PlotSummary(text)))}

-----------------------------------------------------------------------------
(* typos: the corrected text must occur, line breaks being blanks.         *)

\* Between the last two dashes of the first line with two of them.
BetweenDashes(text) ==
    LET lines == SelectSeq(Split(text, "nl"), LAMBDA l : Count(l, "---") >= 2)
        dashes == At(lines[1], "---")
        close == Max(dashes)
    IN  IF lines = <<>> THEN text
        ELSE SubSeq(lines[1], Max(dashes \ {close}) + 1, close - 1)

\* A slip for FullScoreNeedsTheAnswer: the answer must occur in the truth.
TyposInTruth(text, truth) ==
    LET matches == Between(text, "<solution>", "</solution>", {"nl"})
        answer == IF matches # <<>> THEN Last(matches)
                  ELSE BetweenDashes(Without(text, {"<solution>", "</solution>"}))
    IN  IF Occurs(Without(answer, {"nl"}), truth) THEN Full ELSE 0

ScoreTypos(text, truth) ==
    LET matches == Between(text, "<solution>", "</solution>", {"nl"})
        answer == IF matches # <<>> THEN Last(matches)
                  ELSE BetweenDashes(Without(text, {"<solution>", "</solution>"}))
    IN  IF Occurs(truth, Without(answer, {"nl"})) THEN Full ELSE 0
=============================================================================
