-------------------------- MODULE ScoreInstructions --------------------------
(***************************************************************************)
(* score-instructions.py: one checker per kind of instruction and the      *)
(* score made of them.  An instruction is its id and its keyword arguments *)
(* (those that are None are not in the function).  "***" separates         *)
(* paragraphs, twice that responses, "par" is an empty line, "*" one star. *)
(***************************************************************************)
EXTENDS ScoreText

Arg(args, name, default) == IF name \in DOMAIN args THEN args[name] ELSE default

Compare(count, relation, n) == IF relation = "less than" THEN count < n ELSE count >= n

\* The words that the texts write in capitals, and how they look without.
LowerCase == [HELLO |-> "hello", A |-> "a", P |-> "p", S |-> "s", Dear |-> "dear"]
AllCapitals == {"HELLO", "A", "P", "S"}
Uncased == Digits \cup {" ", "nl", "par", ",", ".", "!", "*", "***", "-", "quote",
                        "[", "]", "<<", ">>", "{", "}", ":", "fence"}

Lower(text) ==
    [i \in DOMAIN text |-> IF text[i] \in DOMAIN LowerCase THEN LowerCase[text[i]] ELSE text[i]]
IsUpper(text) == ToSet(text) \ Uncased # {} /\ ToSet(text) \ Uncased \subseteq AllCapitals
IsLower(text) == ToSet(text) \ Uncased # {} /\ ToSet(text) \cap DOMAIN LowerCase = {}

\* str.split(): what stands between blanks.
Words(text) ==
    NonEmpty(Split([i \in DOMAIN text |-> IF text[i] = "nl" THEN " " ELSE text[i]], " "))

Until(text, stops) ==
    LET at == {i \in DOMAIN text : text[i] \in stops}
    IN  IF at = {} THEN text ELSE SubSeq(text, 1, Min(at) - 1)

LStrip(text, tokens) ==
    LET kept == {i \in DOMAIN text : text[i] \notin tokens}
    IN  IF kept = {} THEN <<>> ELSE SubSeq(text, Min(kept), Len(text))

-----------------------------------------------------------------------------
(* keywords, letters, language                                             *)

KeywordsExistence(text, args) ==
    \A word \in Arg(args, "keywords", {}) : Occurs(word, Lower(text))

\* Forbidden as words: \b on both sides.
KeywordsForbiddenWords(text, args) ==
    LET lower == Lower(text)
        Outside(i) == i \notin DOMAIN text \/ text[i] \in Uncased \ Digits
    IN  \A i \in DOMAIN text :
           lower[i] \in Arg(args, "forbidden_words", {}) => ~(Outside(i - 1) /\ Outside(i + 1))

KeywordsFrequency(text, args) ==
    "keyword" \in DOMAIN args =>
        Compare(Count(Lower(text), args.keyword), Arg(args, "relation", "at least"),
                Arg(args, "frequency", 1))

KeywordsLetterFrequency(text, args) ==
    "letter" \in DOMAIN args =>
        Compare(Count(Lower(text), args.letter), Arg(args, "let_relation", "at least"),
                Arg(args, "let_frequency", 1))

\* What langdetect says, where it is installed; it may take a text for another's.
ResponseLanguage(detected, args) == "language" \in DOMAIN args => detected

-----------------------------------------------------------------------------
(* length                                                                  *)

\* A sentence ends at marks with a blank or nothing behind them.
NumberSentences(text, args) ==
    LET s == Strip(text)
        Marks == {".", "!"}
        cut(i) == \E j \in i .. Len(s) : /\ \A k \in i .. j : s[k] \in Marks
                                         /\ j = Len(s) \/ s[j + 1] \in Blank
        pieces == Split([i \in DOMAIN s |-> IF cut(i) THEN "cut" ELSE s[i]], "cut")
        sentences == SelectSeq(pieces, LAMBDA p : Strip(p) # <<>>)
    IN  Compare(Len(sentences), Arg(args, "relation", "at least"), Arg(args, "num_sentences", 1))

\* Between "***"; an empty one does not count at the ends and fails in between.
NumberParagraphs(text, args) ==
    LET paragraphs == StrippedPieces(text, "***")
        n == Len(paragraphs)
        empty == {i \in 1 .. n : paragraphs[i] = <<>>}
    IN  empty \subseteq {1, n} /\ n - Cardinality(empty) = Arg(args, "num_paragraphs", 1)

NumberWords(text, args) ==
    Compare(Len(Words(text)), Arg(args, "relation", "at least"), Arg(args, "num_words", 1))

\* Empty paragraphs are not counted, but the nth is taken from all of them.
NthParagraphFirstWord(text, args) ==
    LET paragraphs == StrippedPieces(text, "par")
        nth == Arg(args, "nth_paragraph", 1)
        word == LStrip(LStrip(Until(paragraphs[nth], Blank), {"apostrophe"}), {"quote"})
    IN  "first_word" \in DOMAIN args =>
           /\ Len(NonEmpty(paragraphs)) = Arg(args, "num_paragraphs", 1)
           /\ nth <= Len(paragraphs)
           /\ paragraphs[nth] # <<>>
           /\ Lower(Until(word, {".", ",", "!", "apostrophe", "quote"})) = <<args.first_word>>

-----------------------------------------------------------------------------
(* detectable content and format                                           *)

\* "p.s." with a blank in it or without; the marker "P.P.S." is looked for as it is.
Postscript(text, args) ==
    LET marker == Arg(args, "postscript_marker", <<"P", ".", "S", ".">>)
        gaps == {<<>>, <<" ">>, <<"nl">>}
    IN  IF marker = <<"P", ".", "P", ".", "S">>
        THEN \E g, h \in gaps : Occurs(<<"p", ".">> \o g \o <<"p", ".">> \o h \o <<"s">>, Lower(text))
        ELSE IF marker = <<"P", ".", "S", ".">>
        THEN \E g \in gaps : Occurs(<<"p", ".">> \o g \o <<"s", ".">>, Lower(text))
        ELSE Occurs(Lower(marker), Lower(text))

NumberPlaceholders(text, args) ==
    Len(Between(text, "[", "]", {"nl"})) >= Arg(args, "num_placeholders", 1)

\* On one line from its first "<<" to its last ">>", with something in it.
Title(text) ==
    \E line \in ToSet(Split(text, "nl")) :
       LET first == Min(At(line, "<<"))
           closes == {e \in At(line, ">>") : first + 1 < e}
           inner == SubSeq(line, first + 1, Max(closes) - 1)
       IN  /\ At(line, "<<") # {} /\ closes # {}
           /\ \E k \in DOMAIN inner :
                 /\ inner[k] \notin Blank
                 /\ ToSet(SubSeq(inner, 1, k)) # {"<<"}
                 /\ ToSet(SubSeq(inner, k, Len(inner))) # {">>"}

\* JSON, once in fences or not; of JSON, dictionaries.
JsonFormat(text) ==
    LET s == Strip(text)
        After(prefix, t) == IF IsPrefix(prefix, t) THEN SubSeq(t, Len(prefix) + 1, Len(t)) ELSE t
        opened == After(<<"fence">>, After(<<"fence", "json">>, s))
        value == IF IsSuffix(<<"fence">>, opened) THEN Front(opened) ELSE opened
    IN  DictOf(value) # <<>>

\* ^\s*\*[^\*].*$: a bare star takes the next line for its text.
StarBullets(text) ==
    LET lines == Split(text, "nl")
        n == Len(lines)
        bullets[i \in 1 .. n + 2] ==
            LET line == LStrip(lines[i], {" "})
            IN  IF i > n THEN 0
                ELSE IF line = <<"*">> THEN IF i < n THEN 1 + bullets[i + 2] ELSE 0
                ELSE (IF line # <<>> /\ line[1] = "*" /\ line[2] # "*" THEN 1 ELSE 0)
                     + bullets[i + 1]
    IN  bullets[1]

DashBullets(text) == Len(SelectSeq(Lines(text), LAMBDA l : l[1] = "-"))

NumberBulletLists(text, args) ==
    StarBullets(text) + DashBullets(text) = Arg(args, "num_bullets", 1)

\* The section name, a number behind it.
MultipleSections(text, args) ==
    LET name == Arg(args, "section_spliter", "Section")
        numbered(i) == i + 1 \in DOMAIN text /\
                       \/ text[i + 1] \in Digits
                       \/ text[i + 1] \in Blank /\ i + 2 \in DOMAIN text /\ text[i + 2] \in Digits
    IN  Cardinality({i \in At(text, name) : numbered(i)}) >= Arg(args, "num_sections", 1)

\* *text* and **text**, each kind counted by itself.
Highlights(text) ==
    LET stars == At(text, "*")
        double == {i \in stars : i + 1 \in stars}
        Plain(a, b) == \A k \in a .. b : text[k] \notin {"nl", "*"}
        single == Spans(text, 1, 1, [s \in stars |-> {e \in stars : s < e /\ Plain(s + 1, e - 1)}])
        bold == Spans(text, 2, 2, [s \in double |-> {e \in double : s + 2 <= e /\ Plain(s + 2, e - 1)}])
        Said(spans) == Len(SelectSeq(spans, LAMBDA t : Strip(t) # <<>>))
    IN  Said(single) + Said(bold)

NumberHighlightedSections(text, args) == Highlights(text) >= Arg(args, "num_highlights", 1)

-----------------------------------------------------------------------------
(* start, end, combination, case, punctuation                              *)

EndChecker(text, args) ==
    "end_phrase" \in DOMAIN args =>
        IsSuffix(Lower(Strip(args.end_phrase)), Lower(StripOf(Strip(text), {"quote"})))

Quotation(text) ==
    LET s == Strip(text) IN Len(s) > 1 /\ s[1] = "quote" /\ s[Len(s)] = "quote"

\* Six stars, from the left, become one token.
SixStars(text) ==
    LET from[i \in 1 .. Len(text) + 2] ==
            IF i > Len(text) THEN <<>>
            ELSE IF {i, i + 1} \subseteq At(text, "***") THEN <<"******">> \o from[i + 2]
            ELSE <<text[i]>> \o from[i + 1]
    IN  from[1]

TwoResponses(text) ==
    LET responses == StrippedPieces(SixStars(text), "******")
        valid == NonEmpty(responses)
    IN  /\ \A i \in DOMAIN responses : responses[i] = <<>> => i \in {1, Len(responses)}
        /\ Len(valid) = 2 /\ valid[1] # valid[2]

RepeatPrompt(text, args) ==
    "prompt_to_repeat" \in DOMAIN args => IsPrefix(Strip(args.prompt_to_repeat), Strip(text))

CapitalWordFrequency(text, args) ==
    Compare(Len(SelectSeq(Words(text), IsUpper)), Arg(args, "capital_relation", "at least"),
            Arg(args, "capital_frequency", 1))

NoComma(text) == Count(text, ",") = 0

-----------------------------------------------------------------------------
(* CHECKERS; an instruction of another kind is not followed.               *)

Followed(text, instruction, detected) ==
    LET args == instruction.args
    IN  CASE instruction.id = "keywords:existence" -> KeywordsExistence(text, args)
          [] instruction.id = "keywords:forbidden_words" -> KeywordsForbiddenWords(text, args)
          [] instruction.id = "keywords:frequency" -> KeywordsFrequency(text, args)
          [] instruction.id = "keywords:letter_frequency" -> KeywordsLetterFrequency(text, args)
          [] instruction.id = "language:response_language" -> ResponseLanguage(detected, args)
          [] instruction.id = "length_constraints:number_sentences" -> NumberSentences(text, args)
          [] instruction.id = "length_constraints:number_paragraphs" -> NumberParagraphs(text, args)
          [] instruction.id = "length_constraints:number_words" -> NumberWords(text, args)
          [] instruction.id = "length_constraints:nth_paragraph_first_word" ->
                NthParagraphFirstWord(text, args)
          [] instruction.id = "detectable_content:number_placeholders" -> NumberPlaceholders(text, args)
          [] instruction.id = "detectable_content:postscript" -> Postscript(text, args)
          [] instruction.id = "detectable_format:number_bullet_lists" -> NumberBulletLists(text, args)
          [] instruction.id = "detectable_format:constrained_response" -> TRUE
          [] instruction.id = "detectable_format:number_highlighted_sections" ->
                NumberHighlightedSections(text, args)
          [] instruction.id = "detectable_format:multiple_sections" -> MultipleSections(text, args)
          [] instruction.id = "detectable_format:json_format" -> JsonFormat(text)
          [] instruction.id = "detectable_format:title" -> Title(text)
          [] instruction.id = "combination:two_responses" -> TwoResponses(text)
          [] instruction.id = "combination:repeat_prompt" -> RepeatPrompt(text, args)
          [] instruction.id = "startend:end_checker" -> EndChecker(text, args)
          [] instruction.id = "startend:quotation" -> Quotation(text)
          [] instruction.id = "change_case:capital_word_frequency" -> CapitalWordFrequency(text, args)
          [] instruction.id = "change_case:english_capital" -> IsUpper(text)
          [] instruction.id = "change_case:english_lowercase" -> IsLower(text)
          [] instruction.id = "punctuation:no_comma" -> NoComma(text)
          [] OTHER -> FALSE

\* A slip for PartialCreditIsBelowHalf: the share alone is the score.
ShareFollowed(text, instructions, detected) ==
    LET n == Len(instructions)
        followed == {i \in 1 .. n : Followed(text, instructions[i], detected)}
    IN  IF n = 0 THEN Full ELSE Round4(Cardinality(followed), n)

\* Half of the score for all instructions, half for the share of those followed.
ScoreInstructionFollowing(text, instructions, detected) ==
    LET n == Len(instructions)
        followed == {i \in 1 .. n : Followed(text, instructions[i], detected)}
        all == IF Cardinality(followed) = n THEN n ELSE 0
    IN  IF n = 0 THEN Full ELSE Round4(all + Cardinality(followed), 2 * n)
=============================================================================
