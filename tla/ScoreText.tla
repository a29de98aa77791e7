------------------------------ MODULE ScoreText ------------------------------
(***************************************************************************)
(* What the LiveBench scoring scripts                                      *)
(* (src/priv/groves/livebench/scripts/score-*.py) have in common.  A text  *)
(* is a sequence of tokens: words, numbers, tags, braces ("boxed" is the   *)
(* command \boxed, "nl" a newline).  Regular expressions become operators  *)
(* on the positions of tokens.  \text{...} wrappers, which every script    *)
(* takes off, are part of the token they wrap.                             *)
(***************************************************************************)
EXTENDS Integers, SequencesExt

Texts == Seq(STRING)

\* round() to the nearest integer of n/d, of two equally near the even one.  (A
\* decimal tie whose float is not one, as that of 0.025, Python rounds by the float.)
Nearest(n, d) ==
    LET up == (2 * n + d) \div (2 * d)
        tie == (2 * n + d) % (2 * d) = 0
    IN  IF tie /\ up % 2 = 1 THEN up - 1 ELSE up

\* Scores are kept in ten-thousandths, the precision of round(score, 4).
Full == 10000
Round4(n, d) == Nearest(Full * n, d)

Blank == {" ", "nl"}
Digits == {"0", "1", "2", "3", "4", "5", "6", "7", "8", "9"}

-----------------------------------------------------------------------------
(* Python's string methods                                                 *)

At(text, t) == {i \in DOMAIN text : text[i] = t}
Count(text, t) == Cardinality(At(text, t))

Without(text, tokens) ==
    LET kept[i \in 0 .. Len(text)] ==
            IF i = 0 THEN <<>>
            ELSE IF text[i] \in tokens THEN kept[i - 1] ELSE Append(kept[i - 1], text[i])
    IN  kept[Len(text)]

Only(text, tokens) == Without(text, ToSet(text) \ tokens)
NonEmpty(texts) == Without(texts, { <<>> })

StripOf(text, tokens) ==
    LET kept == {i \in DOMAIN text : text[i] \notin tokens}
    IN  IF kept = {} THEN <<>> ELSE SubSeq(text, Min(kept), Max(kept))
Strip(text) == StripOf(text, Blank)

Occurs(part, text) ==
    \E i \in 0 .. Len(text) - Len(part) : SubSeq(text, i + 1, i + Len(part)) = part

\* The texts between the separators, empty ones included.
Split(text, sep) ==
    LET pieces[i \in 0 .. Len(text)] ==
            IF i = 0 THEN << <<>> >>
            ELSE LET before == pieces[i - 1]
                 IN  IF text[i] = sep THEN Append(before, <<>>)
                     ELSE Append(Front(before), Append(Last(before), text[i]))
    IN  pieces[Len(text)]

StrippedPieces(text, sep) ==
    LET pieces == Split(text, sep) IN [i \in DOMAIN pieces |-> Strip(pieces[i])]

Lines(text) == NonEmpty(StrippedPieces(text, "nl"))
LastLine(text) == IF Lines(text) = <<>> THEN <<>> ELSE Last(Lines(text))

LastTokens(text, n) == IF n < Len(text) THEN SubSeq(text, Len(text) - n + 1, Len(text))
                                        ELSE text

-----------------------------------------------------------------------------
(* re.findall of a non-greedy group                                        *)

\* The texts between a start and the nearest of its ends, from left to right,
\* the delimiters being `open` and `close` tokens long; ends[s] is where the one
\* that starts at s may end.
Spans(text, open, close, ends) ==
    LET found[i \in 1 .. Len(text) + 2] ==
            LET here == {s \in DOMAIN ends : s >= i /\ ends[s] # {}}
            IN  IF here = {} THEN <<>>
                ELSE LET s == Min(here)
                         e == Min(ends[s])
                     IN  <<SubSeq(text, s + open, e - 1)>> \o found[e + close]
    IN  found[1]

\* open(.*?)close, where `.` is none of the barrier: {"nl"} without re.DOTALL.
Between(text, open, close, barrier) ==
    Spans(text, 1, 1, [s \in At(text, open) |->
        {e \in At(text, close) : s < e /\ \A k \in s + 1 .. e - 1 : text[k] \notin barrier}])

\* strip_think_tags of every script: what the model says to itself is not
\* graded, unless it never stops.
StripThink(text) ==
    LET kept[i \in 1 .. Len(text) + 1] ==
            LET ends == {e \in At(text, "</think>") : i < e}
            IN  IF i > Len(text) THEN <<>>
                ELSE IF text[i] = "<think>" /\ ends # {} THEN kept[Min(ends) + 1]
                ELSE <<text[i]>> \o kept[i + 1]
    IN  kept[1]

\* The last <solution>, across lines, or else the whole text.
LastSolution(text) ==
    LET matches == Between(text, "<solution>", "</solution>", {})
    IN  IF matches = <<>> THEN text ELSE Strip(Last(matches))

\* literal_eval and json.loads: "{" key ":" value "," ... "}", a key given twice
\* having its last value.  At most one dictionary, none if the text is another.
DictOf(text) ==
    LET s == Strip(text)
        entries == Split(SubSeq(s, 2, Len(s) - 1), ",")
        Given(k) == {i \in DOMAIN entries : Strip(entries[i])[1] = k}
        keys == {Strip(entries[i])[1] : i \in DOMAIN entries}
    IN  IF Len(s) < 2 \/ s[1] # "{" \/ s[Len(s)] # "}" THEN <<>>
        ELSE IF Strip(SubSeq(s, 2, Len(s) - 1)) = <<>> THEN << [k \in {} |-> ""] >>
        ELSE IF \A i \in DOMAIN entries :
                    /\ Len(Strip(entries[i])) = 3 /\ Strip(entries[i])[2] = ":"
                    /\ ToSet(entries[i]) \cap {"{", "}"} = {}
        THEN << [k \in keys |-> Strip(entries[Max(Given(k))])[3]] >>
        ELSE <<>>

-----------------------------------------------------------------------------
(* \boxed{...}                                                             *)

\* Where the braces opened since position i are all closed.
Closings(text, i) ==
    {e \in At(text, "}") :
        i <= e /\ Count(SubSeq(text, i, e), "{") = Count(SubSeq(text, i, e), "}")}

\* A slip for BoxedCopiesAgree: the first \boxed counts.
FirstBoxed(text) ==
    LET boxes == At(text, "boxed")
        braces == {i \in At(text, "{") : i > Min(boxes)}
        closings == Closings(text, Min(braces))
    IN  IF boxes = {} \/ braces = {} \/ closings = {} THEN <<>>
        ELSE <<SubSeq(text, Min(braces) + 1, Min(closings) - 1)>>

\* last_boxed_only_string and remove_boxed of the reasoning and table scripts:
\* the group after the last \boxed, whatever stands between them.
LastBoxed(text) ==
    LET boxes == At(text, "boxed")
        braces == {i \in At(text, "{") : i > Max(boxes)}
        closings == Closings(text, Min(braces))
    IN  IF boxes = {} \/ braces = {} \/ closings = {} THEN <<>>
        ELSE <<SubSeq(text, Min(braces) + 1, Min(closings) - 1)>>
=============================================================================
