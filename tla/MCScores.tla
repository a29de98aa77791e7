------------------------------ MODULE MCScores -------------------------------
EXTENDS Scores

\* A question; its pieces are `words` of one token, longer `texts` and the right
\* answer.
Ask(task, truth, words, texts, size, right, spoilers, evidence) ==
    [task |-> task, truth |-> truth, value |-> <<>>, size |-> size,
     pieces |-> {<<w>> : w \in words} \cup texts \cup ({right} \ {<<>>}),
     right |-> right, spoilers |-> spoilers, evidence |-> evidence]

Tagged(text) == <<"<solution>">> \o text \o <<"</solution>">>
Boxed(text) == <<"boxed", "{">> \o text \o <<"}">>
Thought(text) == <<"<think>">> \o text \o <<"</think>">>

Yes == <<"yes", ",", "no", ",", "yes">>
Group == <<"a", ",", "b">>
Groups == <<"a", ",", "b", ",", "c", ",", "d">>
Others == <<"a", ",", "c", ",", "b", ",", "d">>
Pairs2 == <<"{", "j", ":", "x", ",", "k", ":", "y", "}">>
Csv == <<"p", ",", "q", "nl", "1", ",", "2", "nl", "3", ",", "4">>
Jsonl == <<"{", "j", ":", "x", "}", "nl", "{", "j", ":", "y", "}">>

MathQuestions == <<
    Ask("olympiad", <<"1", ",", "2">>, {"1", "2", ",", "nl", "answer:"},
        {Boxed(<<"1">>), <<"2", ",", "2", ",">>}, 4,
        <<"answer:", "1", ",", "2">>, {}, { << <<"1">>, <<",">>, <<"2">> >> }),
    Ask("AMPS_Hard", <<"x">>, {"x", "$", "y", "x'", "="}, {Boxed(<<"y">>)}, 5,
        Boxed(<<"x">>), {}, { << <<"x">> >>, << <<"x'">> >> }),
    Ask("AMPS_Hard", <<"x">>, {"x", "boxed", "{", "}", "nl"}, {}, 5,
        Boxed(<<"x">>), {}, { << <<"x">> >> }),
    Ask("math_comp", <<"A">>, {"A", "(A)", "(B)", "nl", "<solution>"},
        {Tagged(<<"A">>), Tagged(<<"B">>), Boxed(<<"A">>)}, 4,
        Tagged(<<"A">>), {}, {}),
    [Ask("math_comp", <<"B">>, {"B", "1", "/", "(A)", "nl"}, {Boxed(<<"C">>)}, 4,
         <<"1", "/", "2">>, {}, {}) EXCEPT !.value = <<"1", "/", "2">>],
    Ask("math_comp", <<"0", "2">>, {"0", "2", "1", " ", "</solution>"}, {Tagged(<<"2">>), Tagged(<<"1">>)}, 4,
        Tagged(<<"0", "2">>), {}, {})>>

LanguageQuestions == <<
    Ask("connections", Groups, {"a", ",", "<solution>", "nl"},
        {Tagged(Groups), Tagged(Others), <<"**">> \o Groups \o <<"**">>, Groups \o <<",">>,
         <<"boxed", " ">>, Tagged(Group), Tagged(Group \o <<",">> \o Group \o <<",">> \o Group)}, 4,
        Tagged(Groups), {}, {}),
    Ask("plot_unscrambling", <<"s1.", "s2.", "s3.">>,
        {"s1.", "s2.", "s3.", "<PLOT_SUMMARY>", "</PLOT_SUMMARY>"}, {}, 4,
        <<"<PLOT_SUMMARY>", "s1.", "s2.", "s3.", "</PLOT_SUMMARY>">>, {"<PLOT_SUMMARY>"}, {}),
    Ask("typos", <<"the", "cat">>, {"the", "cat", "teh", "nl", "---"},
        {Tagged(<<"teh", "cat">>), Thought(<<"the", "cat">>)}, 4,
        Tagged(<<"the", "cat">>), {}, { << <<"the", "cat">> >> })>>

ReasoningQuestions == <<
    Ask("spatial", <<"2">>, {"2", "two", "**", "cube"}, {Boxed(<<"2">>), Thought(<<"2">>)}, 4,
        <<"**", "2", "**">>, {}, { << <<"2">> >>, << <<"two">> >> }),
    Ask("spatial", <<"square">>, {"square", "**", "a", "nl"}, {Boxed(<<"cube">>)}, 5,
        <<"**", "square", "**">>, {}, { << <<"square">> >> }),
    Ask("web_of_lies_v2", Yes, {"unknown", ",", "yes"},
        {Yes, Tagged(Yes), Tagged(<<"no">>), <<"**", "no", "**">>}, 4,
        Tagged(Yes), {}, { << <<"yes">>, <<"no">>, <<"yes">> >> }),
    Ask("zebra_puzzle", <<"red", ",", "dog">>, {"red", ",", "dog", "nl"},
        {Tagged(<<"red", ",", "cat">>), Boxed(<<"dog", ",", "dog">>)}, 4,
        Tagged(<<"red", ",", "dog">>), {}, { << <<"red">>, <<"dog">> >> })>>

TableQuestions == <<
    Ask("cta", <<"place">>, {"birth", "place", " ", "name"},
        {Boxed(<<"name">>), Tagged(<<"name">>), Thought(<<"place">>)}, 4,
        Tagged(<<"place">>), {}, { << <<"place">> >> }),
    Ask("tablejoin", Pairs2, {"fence", "json", "python", "}"},
        {Pairs2, <<"{", "j", ":", "y">>, <<",", "k", ":", "y">>, Tagged(<<"{", "k", ":", "y", "}">>)}, 4,
        Tagged(Pairs2), {}, { << <<"j", ":", "x">>, <<"k", ":", "y">> >>,
                              << <<"k", ":", "y">>, <<"j", ":", "x">> >> }),
    Ask("tablejoin", <<"{", "j", ":", "0", ",", "k", ":", "y", "}">>, {"}", "nl"},
        {<<"{", "j", ":", "0">>, <<"{", "j", ":", "None">>, <<",", "k", ":", "y">>, <<",", "i", ":", "x">>}, 5,
        <<>>, {}, { << <<"j", ":", "0">>, <<"k", ":", "y">> >> }),
    Ask("tablereformat", Csv, {"Here is the table:"},
        {<<"fence", "nl">>, <<"note", "nl">>, <<"p", ",", "q", "nl">>, <<"1", ",", "2", "nl">>, <<"3", ",", "4", "nl">>,
         <<"0", ",">>}, 4,
        Tagged(Csv), {}, { << <<"p">>, <<"q">>, <<"1">>, <<"2">>, <<"3">>, <<"4">> >>,
                           << <<"q">>, <<"p">>, <<"2">>, <<"1">>, <<"4">>, <<"3">> >> }),
    Ask("tablereformat", Jsonl, {"nl", "note", "fence", "json"},
        {<<"{", "j", ":", "x", "}", "nl">>, <<"{", "j", ":", "y", "}", "nl">>, Tagged(<<"note">>)}, 4,
        <<"nl">> \o Jsonl, {"<solution>", "fence", "{"},
        { << <<"j", ":", "x">>, <<"j", ":", "y">> >> })>>

Instructions(list, words, texts, size) ==
    Ask("instruction_following", list, words, texts, size, <<>>, {}, {})
None == [a \in {} |-> ""]

InstructionQuestions == <<
    Instructions(<<>>, {"hello"}, {}, 2),
    Instructions(<<[id |-> "keywords:existence", args |-> [keywords |-> {<<"hello">>}]],
                   [id |-> "keywords:forbidden_words", args |-> [forbidden_words |-> {"dear"}]],
                   [id |-> "keywords:frequency", args |-> [keyword |-> "hello", frequency |-> 2]],
                   [id |-> "change_case:english_lowercase", args |-> None],
                   [id |-> "punctuation:no_comma", args |-> None]>>,
                 {"hello", "HELLO", "dear", " ", ","}, {}, 5),
    Instructions(<<[id |-> "keywords:letter_frequency",
                    args |-> [letter |-> "a", let_relation |-> "less than", let_frequency |-> 2]],
                   [id |-> "change_case:english_capital", args |-> None],
                   [id |-> "change_case:capital_word_frequency", args |-> [capital_frequency |-> 2]],
                   [id |-> "length_constraints:number_words",
                    args |-> [num_words |-> 3, relation |-> "less than"]],
                   [id |-> "language:response_language", args |-> [language |-> "en"]]>>,
                 {"A", "a", " ", "HELLO"}, {}, 5),
    Instructions(<<[id |-> "length_constraints:number_sentences", args |-> [num_sentences |-> 2]],
                   [id |-> "startend:quotation", args |-> None],
                   [id |-> "startend:end_checker", args |-> [end_phrase |-> <<"hello", "!">>]],
                   [id |-> "no:such_instruction", args |-> None]>>,
                 {"hello", ".", "!", " ", "quote"}, {}, 5),
    Instructions(<<[id |-> "length_constraints:number_paragraphs", args |-> [num_paragraphs |-> 2]],
                   [id |-> "combination:two_responses", args |-> None],
                   [id |-> "combination:repeat_prompt", args |-> [prompt_to_repeat |-> <<"a">>]]>>,
                 {"a", "b", "***", "nl"}, {<<"***", "***">>}, 5),
    Instructions(<<[id |-> "length_constraints:nth_paragraph_first_word",
                    args |-> [num_paragraphs |-> 2, nth_paragraph |-> 2, first_word |-> "dear"]],
                   [id |-> "detectable_format:constrained_response", args |-> None]>>,
                 {"Dear", "hello", "par", " ", ","}, {}, 5),
    Instructions(<<[id |-> "detectable_content:postscript",
                    args |-> [postscript_marker |-> <<"P", ".", "P", ".", "S">>]],
                   [id |-> "detectable_content:postscript", args |-> None],
                   [id |-> "detectable_format:json_format", args |-> None]>>,
                 {"P", ".", "S", " "}, {<<"fence", "json">>, <<"{", "j", ":", "x", "}">>}, 5),
    Instructions(<<[id |-> "detectable_format:title", args |-> None],
                   [id |-> "detectable_content:number_placeholders", args |-> [num_placeholders |-> 2]],
                   [id |-> "detectable_format:multiple_sections", args |-> [num_sections |-> 1]]>>,
                 {"<<", ">>", "[", "]", "1"}, {<<"Section">>, <<"a", "nl">>}, 4),
    Instructions(<<[id |-> "detectable_format:number_bullet_lists", args |-> [num_bullets |-> 2]],
                   [id |-> "detectable_format:number_highlighted_sections",
                    args |-> [num_highlights |-> 2]]>>,
                 {"*", "-", "nl", "a"}, {}, 6)>>

MCQuestions == MathQuestions \o LanguageQuestions \o ReasoningQuestions \o TableQuestions
               \o InstructionQuestions
=============================================================================
