---------------------------- MODULE MCTokenizer -----------------------------
(* Frames for the texts: what matters at the level of blocks, in a block,  *)
(* in a start tag, in raw text, in a block's name and in declarations.     *)
EXTENDS Tokenizer

Blocks ==
    {<<"<", "s", "c", "r">>, <<"<", "/", "s", "c", "r">>, <<"<", "t", "e", "m">>, <<"<", "/", "T", "e", "m">>,
     <<"<", "b">>, <<"<">>, <<">">>, <<" ">>, <<"/">>, <<"<", "!", "-", "-">>, <<"-", "-", ">">>, <<"W", "~">>}

Inner ==
    {<<"<", "a">>, <<"<", "/", "a">>, <<"<", "b">>, <<"<", "t", "i", "t">>, <<"<", "/", "t", "i", "t">>,
     <<"<", "/", "t", "e", "m">>, <<">">>, <<" ">>, <<"/">>, <<"{", "{">>, <<"}", "}">>, <<" ", "v", "-", "p">>,
     <<"<", "!", "-", "-">>, <<"-", "-", ">">>, <<"W", "~">>}

Attribute ==
    {<<" ">>, <<":">>, <<".">>, <<"=">>, <<"\"">>, <<"'">>, <<"v", "-", "p">>, <<"v", "-">>, <<"l">>, <<"x">>, <<"[">>, <<"]">>,
     <<"/">>, <<">">>}

Raw ==
    {<<"<", "s", "c", "r">>, <<"<", "s", "t", "y">>, <<"<", "t", "e", "x">>, <<"<", "/", "S", "C", "r">>,
     <<"<", "/", "s", "t", "y">>, <<"<", "/", "t", "e", "x">>, <<"<", "s">>, <<">">>, <<" ">>, <<"<">>, <<"/">>,
     <<"{", "{">>, <<"}", "}">>}

Declared ==
    {<<"<", "!">>, <<"<", "?">>, <<"[">>, <<"C", "A", "[">>, <<"]">>, <<"]", ">">>, <<"<", "/">>, <<"-">>, <<"-", "-">>,
     <<">">>, <<"<", "b">>, <<"W", "~">>}

Escaped == {<<"<">>, <<"/">>, <<"s", "c", "r">>, <<"t", "e", "M">>, <<">">>, <<" ">>, <<"W", "~">>, <<"<", "/", "t", "e", "m", ">">>}

Child == {<<"{", "{">>, <<"}", "}">>, <<"<", "!", "-", "-">>, <<"-", "-", ">">>, <<"W", "~">>, <<"<", "a", ">">>}

\* In and behind a block's name: a character of two bytes in it, or a "<".
Wide == {<<"<", "/", "b", "W", "~">>, <<"b">>, <<"<">>, <<"/">>, <<">">>, <<" ">>}

Halved == {<<"<", "/", "b", "<", "b">>, <<"<", "/", "b">>, <<"<", "b">>, <<"/">>, <<">">>, <<" ">>}

Frame(before, pieces, after) == [before |-> before, pieces |-> pieces, after |-> after]

OpenScript == <<"<", "s", "c", "r", ">">>
OpenTemplate == <<"<", "t", "e", "m", ">">>
OpenForeign == <<"<", "t", "e", "m", " ", "l", "=", "p", ">">>

Texts ==
    {Frame(<<"<", "b", "W", "~">>, Wide, <<>>), Frame(<<"<", "b">>, Halved, <<>>),
     Frame(<<>>, Blocks, <<>>), Frame(<<>>, Declared, <<>>), Frame(OpenScript, Escaped, <<">">>),
     Frame(<<"<", "s", "c", "r", " ", "<", "/", "a", ">">>, Child, <<"<", "/", "s", "c", "r", ">">>),
     Frame(OpenForeign, Escaped, <<">">>), Frame(OpenTemplate, Inner, <<>>), Frame(OpenTemplate, Raw, <<">">>),
     Frame(<<"<", "t", "e", "m", " ">>, Attribute, <<>>),
     Frame(OpenTemplate \o <<"<", "a", " ">>, Attribute, <<">", "{", "{", "}", "}">>)}
=============================================================================
