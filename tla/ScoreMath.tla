------------------------------ MODULE ScoreMath ------------------------------
(***************************************************************************)
(* score-math.py: answers to olympiad, AMPS_Hard and math_comp questions.  *)
(* The scripts look at the last 20, 50 or 200 characters of an answer;     *)
(* here at its last TailLength tokens.  A digit is a number of an olympiad *)
(* answer (whose numbers stand apart) and one of the digits of another's.  *)
(***************************************************************************)
EXTENDS ScoreText

CONSTANT TailLength

\* The group of the last \boxed that a brace follows; nothing when it is left open.
ExtractBoxed(text) ==
    LET open(p) == {i \in At(text, "{") : p < i /\ \A k \in p + 1 .. i - 1 : text[k] \in Blank}
        boxes == {p \in At(text, "boxed") : open(p) # {}}
        brace == Min(open(Max(boxes)))
        closings == Closings(text, brace)
    IN  IF boxes = {} \/ closings = {} THEN <<>>
        ELSE NonEmpty(<<Strip(SubSeq(text, brace + 1, Min(closings) - 1))>>)

\* The last <solution>, or the last text between reversed tags.
SolutionTags(text) ==
    LET proper == Between(text, "<solution>", "</solution>", {})
        matches == IF proper # <<>> THEN proper
                   ELSE Between(text, "</solution>", "<solution>", {})
    IN  IF matches = <<>> THEN <<>> ELSE NonEmpty(<<Strip(Last(matches))>>)

-----------------------------------------------------------------------------
(* olympiad                                                                *)

\* The first number of each comma-separated part that has one.
ParseIntegers(text) ==
    LET parts == Split(text, ",")
        numbers == NonEmpty([i \in DOMAIN parts |-> Only(parts[i], Digits)])
    IN  [i \in DOMAIN numbers |-> numbers[i][1]]

\* A slip for EditDistancesAgree: the cell overwritten last is taken for the diagonal.
NextCellLeft(row, diagonal, j, same) ==
    [dp |-> [row EXCEPT ![j] = IF same THEN diagonal
                               ELSE 1 + Min({diagonal, row[j], row[j - 1]})],
     diagonal |-> row[j - 1]]

\* One step of the one-row table: the cell's old value is the next diagonal.
NextCell(row, diagonal, j, same) ==
    [dp |-> [row EXCEPT ![j] = IF same THEN diagonal
                               ELSE 1 + Min({diagonal, row[j], row[j - 1]})],
     diagonal |-> row[j]]

\* The row of the i-th element of s, from the row above it.
NextRow(above, i, s, t) ==
    LET cells[j \in 0 .. Len(t)] ==
            IF j = 0 THEN [dp |-> [above EXCEPT ![0] = i], diagonal |-> above[0]]
            ELSE NextCell(cells[j - 1].dp, cells[j - 1].diagonal, j, s[i] = t[j])
    IN  cells[Len(t)].dp

RowDistance(s, t) ==
    LET rows[i \in 0 .. Len(s)] ==
            IF i = 0 THEN [j \in 0 .. Len(t) |-> j] ELSE NextRow(rows[i - 1], i, s, t)
    IN  IF s = <<>> THEN Len(t) ELSE IF t = <<>> THEN Len(s) ELSE rows[Len(s)][Len(t)]

\* The last of the longest runs of numbers separated by commas.
LastSequence(text) ==
    LET s == Without(text, {"nl"})
        IsRun(a, b) == /\ b - a \in {2 * k : k \in 1 .. Len(s)}
                       /\ \A i \in a .. b : IF (i - a) % 2 = 0 THEN s[i] \in Digits
                                                               ELSE s[i] = ","
        ends == {b \in DOMAIN s : \E a \in 1 .. b : IsRun(a, b)}
        starts == {a \in DOMAIN s : IsRun(a, Max(ends))}
    IN  IF ends = {} THEN <<>> ELSE ParseIntegers(SubSeq(s, Min(starts), Max(ends)))

AfterAnswer(text) ==
    LET marks == At(text, "answer:")
    IN  IF marks = {} THEN <<>>
        ELSE ParseIntegers(Split(SubSeq(text, Max(marks) + 1, Len(text)), "nl")[1])

ExtractedIntegers(text) ==
    LET boxed == ExtractBoxed(text)
        found == NonEmpty(<<AfterAnswer(text),
                            IF boxed = <<>> THEN <<>> ELSE ParseIntegers(boxed[1]),
                            ParseIntegers(LastLine(text)),
                            LastSequence(text)>>)
    IN  IF found = <<>> THEN <<>> ELSE found[1]

\* A slip for TypeOK: the distance is divided by the truth's length.
OlympiadOverTruth(text, truth) ==
    LET answer == ExtractedIntegers(text)
    IN  IF answer = <<>> THEN 0
        ELSE Round4(Len(truth) - RowDistance(answer, truth), Len(truth))

ScoreOlympiad(text, truth) ==
    LET answer == ExtractedIntegers(text)
        longest == Max({Len(answer), Len(truth)})
    IN  IF answer = <<>> THEN 0
        ELSE Round4(longest - RowDistance(answer, truth), longest)

-----------------------------------------------------------------------------
(* AMPS_Hard                                                               *)

NormalizeFinal(text) ==
    LET last == Last(Split(text, "="))
    IN  Strip(StripOf(Strip(last), {"$"}))

\* Between $$ on the line, or else between $.
InDollars(line) ==
    LET double == {i \in At(line, "$") : i + 1 \in At(line, "$")}
        wide == Spans(line, 2, 2, [s \in double |-> {e \in double : s + 2 <= e}])
        narrow == Spans(line, 1, 1, [s \in At(line, "$") |->
                     {e \in At(line, "$") : s + 1 < e /\ \A k \in s + 1 .. e - 1 : line[k] # "$"}])
    IN  IF wide # <<>> THEN <<Last(wide)>>
        ELSE IF narrow # <<>> THEN <<Last(narrow)>> ELSE <<>>

\* SymPy, where it is installed, knows when two expressions have one value.
Equivalent(sympy, a, b) ==
    sympy /\ Len(a) = 1 /\ Len(b) = 1 /\ {a[1], b[1]} \subseteq {"x", "x'"}

ScoreAmpsHard(text, truth, sympy) ==
    LET lastLine == Last(Split(Strip(text), "nl"))
        boxed == ExtractBoxed(text)
        dollars == InDollars(lastLine)
        fromBox == IF boxed = <<>> THEN <<>> ELSE NormalizeFinal(boxed[1])
        fromLine == IF dollars = <<>> THEN <<>> ELSE NormalizeFinal(dollars[1])
        answer == IF fromBox # <<>> THEN fromBox ELSE fromLine
        right == IF answer = <<>> THEN Occurs(truth, LastTokens(text, TailLength))
                 ELSE answer = truth \/ Equivalent(sympy, answer, truth)
    IN  IF right THEN Full ELSE 0

-----------------------------------------------------------------------------
(* math_comp: one of the letters A to E, or a number                       *)

Letters == {"A", "B", "C", "D", "E"}
Bracketed == [A |-> "(A)", B |-> "(B)", C |-> "(C)", D |-> "(D)", E |-> "(E)"]

\* `value` is the text of the right choice if the question is at hand, else <<>>.
ScoreAmc(text, letter, value) ==
    LET solution == SolutionTags(text)
        boxed == ExtractBoxed(text)
        last == LastLine(text)
        choices == Only(last, {Bracketed[l] : l \in Letters})
        right ==
            \/ solution # <<>> /\ ToSet(Without(solution[1], {" "})) = {letter}
            \/ Occurs(<<letter, letter, letter, letter>>, text)
            \/ boxed # <<>> /\ boxed[1][1] = letter
            \/ value # <<>> /\ Occurs(value, LastTokens(text, TailLength + Len(value)))
            \/ last = <<letter>>
            \/ choices # <<>> /\ choices[1] = Bracketed[letter]
    IN  IF right THEN Full ELSE 0

\* Without leading zeros.
Number(digits) ==
    LET nonzero == {i \in DOMAIN digits : digits[i] # "0"}
    IN  IF nonzero = {} THEN <<>> ELSE SubSeq(digits, Min(nonzero), Len(digits))

Integer(digits) == IF Number(digits) = <<>> THEN <<"0">> ELSE Number(digits)

ScoreAime(text, truth) ==
    LET solution == SolutionTags(text)
        answer == Without(solution[1], {" "})
        tail == LastTokens(text, TailLength)
        right ==
            \/ /\ solution # <<>>
               /\ \/ Cardinality(ToSet(answer)) = 1 /\ Occurs(truth, answer)
                  \/ answer = truth
                  \/ Number(answer) = Number(truth)
            \/ Occurs(truth, tail)
            \/ Occurs(Integer(truth), tail)
    IN  IF right THEN Full ELSE 0

ScoreMathComp(text, truth, value) ==
    IF \E l \in Letters : truth = <<l>> THEN ScoreAmc(text, truth[1], value)
    ELSE ScoreAime(text, truth)
=============================================================================
