---------------------------- MODULE MCPipeRunner ----------------------------
(* The pipe runner with the processors of PSI-Toolkit and two languages.   *)
EXTENDS PipeRunner, MCCompletion

MCLangRank == en :> 1 @@ pl :> 2

MCFactories ==
    "read" :> {reader} @@ "write" :> {writer} @@ "guess-language" :> {guesser} @@
    "tokenize" :> {tokenizer} @@ "segment" :> {segmenter} @@
    "lemmatize" :> {lamerlemma, morfologik} @@ "morfologik" :> {morfologik} @@
    "parse" :> {puddle, link} @@ "puddle" :> {puddle} @@ "detok" :> {detok} @@
    "link-parser" :> {link} @@ "a1" :> {a1} @@ "a2" :> {a2} @@ "spell" :> {}

MCName == DOMAIN MCFactories

element(name, lang) == [name |-> name, lang |-> lang]

bare(names) == [i \in DOMAIN names |-> element(names[i], NoLang)]

MCHasLangOption == {tokenizer, segmenter, lamerlemma, puddle, link, detok}

MCContinuation == [p \in Processor |-> IF p = writer THEN <<>> ELSE bare(<<"write">>)]

MCTxtReader == element("read", NoLang)
MCLangGuesser == element("guess-language", NoLang)

MCRequirementsMet == Promise \ {promise(lamerlemma, en)}

MCSettings == {[ofToolkit(<<>>, <<>>, m) EXCEPT !.request = <<>>] : m \in Missing}

\* One language, several, none; aliases; every element out of place; no pipeline.
Pipelines ==
    {bare(p) : p \in {
        <<"lemmatize", "write">>, <<"puddle">>, <<"tokenize", "parse">>, <<"morfologik", "segment">>,
        <<"read", "tokenize", "segment">>, <<"guess-language", "puddle">>, <<"puddle", "guess-language">>,
        <<"detok">>, <<"a2", "a1">>, <<"a1">>, <<"link-parser">>,
        <<"write", "tokenize">>, <<"tokenize", "read", "write">>, <<"read">>, <<"write">>, <<>>, <<"spell">>}}
    \cup
    {<<element("tokenize", pl)>>, <<element("lemmatize", pl), element("write", NoLang)>>,
     <<element("lemmatize", en)>>, <<element("parse", pl)>>, <<element("morfologik", en)>>,
     <<element("tokenize", en), element("puddle", pl)>>, <<element("detok", en), element("puddle", NoLang)>>,
     <<element("a1", NoLang), element("puddle", en)>>}

MCCommands ==
    {[elements |-> p, options |-> o, lines |-> 2] :
        p \in Pipelines, o \in {{}, {"line-by-line"}, {"list-languages"}, {"information"}}}
=============================================================================
