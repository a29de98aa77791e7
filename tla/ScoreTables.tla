----------------------------- MODULE ScoreTables -----------------------------
(***************************************************************************)
(* score-tables.py: answers to cta, tablejoin and tablereformat questions. *)
(* Dictionaries, JSON lines and rows of cells are written with the tokens  *)
(* "{", "}", ":" and ","; "fence" is three backquotes.  Of pandas only the *)
(* reading of separated values and of JSON lines is modelled, by what it   *)
(* does with lines of the wrong width or kind.                             *)
(***************************************************************************)
EXTENDS ScoreText

-----------------------------------------------------------------------------
(* cta: the cleaned answer ends with the cleaned truth, or is empty with   *)
(* it: text[-0:] is the whole text                                         *)

NonWord == Blank \cup {"{", "}", "**", ",", "$", ":"}

ScoreCta(text, truth) ==
    LET answer == LastSolution(text)
        boxed == LastBoxed(answer)
        inBox == boxed # <<>> /\ Occurs(<<"boxed", "{">>, answer)
        clean == Without(IF inBox THEN boxed[1] ELSE answer, NonWord)
        right == Without(truth, NonWord)
    IN  IF IsSuffix(right, clean) /\ (right = <<>> => clean = <<>>) THEN Full ELSE 0

-----------------------------------------------------------------------------
(* tablejoin: F1 of the pairs of a dictionary                              *)

Falsy == {"None", "0", "''"}

\* The last of the texts between such an opening and a fence.
Fenced(text, opening) ==
    LET width == Len(opening)
        starts == {i \in 1 .. Len(text) - width + 1 : SubSeq(text, i, i + width - 1) = opening}
        found == Spans(text, width, 1, [s \in starts |-> {e \in At(text, "fence") : s + width <= e}])
    IN  IF found = <<>> THEN <<>> ELSE <<Last(found)>>

CleanJoin(text) ==
    LET s == LastSolution(text)
        flat == Without(s, {"nl"})
        attempts == Fenced(flat, <<"fence", "python">>) \o Fenced(flat, <<"fence", "json">>)
                    \o Fenced(flat, <<"fence">>) \o LastBoxed(flat) \o <<s>>
        dicts == IF DictOf(s) # <<>> THEN DictOf(s) ELSE DictOf(attempts[1])
    IN  IF dicts = <<>> THEN [k \in {} |-> ""]
        ELSE LET d == dicts[1] IN [k \in {j \in DOMAIN d : d[j] # "None"} |-> d[k]]

\* A slip for JoinScoreIsDice: a wrong value is a false positive only.
JoinScoreOneSided(llm, truth) ==
    LET known == {k \in DOMAIN llm : k \in DOMAIN truth /\ truth[k] \notin Falsy}
        tp == {k \in known : llm[k] = truth[k]}
        missing == {k \in DOMAIN truth : k \notin DOMAIN llm \/ llm[k] \in Falsy}
        n == 2 * Cardinality(tp)
        d == n + Cardinality(DOMAIN llm \ tp) + Cardinality(missing)
    IN  IF tp = {} THEN 0 ELSE 100 * Nearest(100 * n, d)

\* A wrong value is a false positive and a false negative; a key of the truth
\* whose value is falsy is one it does not have.  In hundredths.
JoinScore(llm, truth) ==
    LET known == {k \in DOMAIN llm : k \in DOMAIN truth /\ truth[k] \notin Falsy}
        tp == {k \in known : llm[k] = truth[k]}
        missing == {k \in DOMAIN truth : k \notin DOMAIN llm \/ llm[k] \in Falsy}
        n == 2 * Cardinality(tp)
        d == n + Cardinality(DOMAIN llm \ tp) + Cardinality(known \ tp) + Cardinality(missing)
    IN  IF tp = {} THEN 0 ELSE 100 * Nearest(100 * n, d)

ScoreTableJoin(text, truth) ==
    LET true == DictOf(truth)
    IN  IF true = <<>> THEN 0 ELSE JoinScore(CleanJoin(text), true[1])

-----------------------------------------------------------------------------
(* tablereformat: the table read from the answer equals the true one.  A   *)
(* table is its columns, as read, and its rows.                            *)

\* What the text looks like, if the question does not say what it asks for.
AutoDetectFormat(text) ==
    LET lines == Split(Strip(text), "nl")
        firsts == {NonEmpty(lines)[i] : i \in 1 .. Min({3, Len(NonEmpty(lines))})}
    IN  IF Len(lines) > 1 /\ \A l \in firsts : Strip(l)[1] = "{" THEN "jsonl"
        ELSE IF Len(lines) > 1 /\ Count(lines[1], ",") > 0 THEN "csv"
        ELSE "none"

Column(fields, j) == IF j \in DOMAIN fields THEN Strip(fields[j]) ELSE <<>>

\* pd.read_csv of lines: fields that the first row has more than the header are
\* an index on its left, cells that a row lacks are empty, a row that is wider
\* than all before it is an error.
ReadCsv(lines) ==
    LET fields(i) == Split(lines[i], ",")
        width == Len(fields(1))
        index == IF Len(lines) = 1 THEN 0 ELSE Max({0, Len(fields(2)) - width})
    IN  IF lines = <<>> \/ \E i \in 2 .. Len(lines) : Len(fields(i)) > width + index THEN <<>>
        ELSE << [columns |-> [j \in 1 .. width |-> Strip(fields(1)[j])],
                 rows |-> [i \in 1 .. Len(lines) - 1 |->
                              [j \in 1 .. width |-> Column(fields(i + 1), index + j)]]] >>

\* A table of dictionaries; a key that a line lacks is an empty cell.
Table(dicts) ==
    LET columns == SetToSeq(UNION {DOMAIN dicts[i] : i \in DOMAIN dicts})
        cell(d, c) == IF c \in DOMAIN d THEN <<d[c]>> ELSE <<>>
    IN  [columns |-> [j \in DOMAIN columns |-> <<columns[j]>>],
         rows |-> [i \in DOMAIN dicts |-> [j \in DOMAIN columns |-> cell(dicts[i], columns[j])]]]

ReadJsonl(lines) ==
    IF lines = <<>> \/ \E i \in DOMAIN lines : DictOf(lines[i]) = <<>> THEN <<>>
    ELSE <<Table([i \in DOMAIN lines |-> DictOf(lines[i])[1]])>>

ReadTable(format, text) ==
    IF format = "csv" THEN ReadCsv(Lines(text)) ELSE ReadJsonl(Lines(text))

\* read_sep_table_from_text: from the header on, without as many last lines as
\* it takes to read the rest.
CsvFromText(text, header) ==
    LET lines == Lines(text)
        heads == {i \in DOMAIN lines : lines[i] = header}
        upTo(n) == ReadCsv(SubSeq(lines, Min(heads), n))
        readable == {n \in Min(heads) .. Len(lines) : upTo(n) # <<>>}
    IN  IF heads = {} THEN <<>> ELSE upTo(Max(readable))

\* read_jsonl_table_from_text: the lines that are dictionaries with every column.
JsonlFromText(text, columns) ==
    LET Kept(l) == /\ l # <<>> /\ l[1] = "{" /\ DictOf(l) # <<>>
                   /\ \A c \in ToSet(columns) : Occurs(c, l)
        kept == SelectSeq(Split(text, "nl"), Kept)
    IN  ReadJsonl(kept)

FromText(format, text, truth) ==
    IF format = "csv" THEN CsvFromText(text, Lines(truth)[1])
                      ELSE JsonlFromText(text, ReadTable(format, truth)[1].columns)

\* check_table_reformat: the same columns in any order, the same rows in order.
CheckTableReformat(table, true) ==
    /\ Len(table.rows) = Len(true.rows)
    /\ Len(table.columns) = Len(true.columns)
    /\ ToSet(table.columns) = ToSet(true.columns)
    /\ \A i \in DOMAIN table.rows :
          \A j \in DOMAIN table.columns : \A k \in DOMAIN true.columns :
             table.columns[j] = true.columns[k] => table.rows[i][j] = true.rows[i][k]

\* The last <solution>, in it the last fenced JSON, else all but the fences and
\* the rest of a first line that starts with one; then without an introduction.
CleanReformat(text) ==
    LET s == LastSolution(text)
        json == Fenced(s, <<"fence", "json", "nl">>)
        firstLine == Split(s, "nl")[1]
        opened == s # <<>> /\ s[1] = "fence" /\ Count(s, "nl") > 0
        unfenced == Without(IF opened THEN SubSeq(s, Len(firstLine) + 2, Len(s)) ELSE s, {"fence"})
        clean == Strip(IF json # <<>> THEN json[1] ELSE unfenced)
    IN  IF clean # <<>> /\ clean[1] = "Here is the table:"
        THEN Strip(SubSeq(clean, 2, Len(clean))) ELSE clean

\* Read as it is, or else, when that fails or is wrong, searched for the table.
ScoreTableReformat(text, truth, asked) ==
    LET format == IF asked # "none" THEN asked ELSE AutoDetectFormat(truth)
        true == ReadTable(format, truth)
        clean == CleanReformat(text)
        attempts == ReadTable(format, clean) \o FromText(format, clean, truth)
        right == /\ format # "none" /\ true # <<>>
                 /\ \E i \in DOMAIN attempts : CheckTableReformat(attempts[i], true[1])
    IN  IF right THEN Full ELSE 0
=============================================================================
