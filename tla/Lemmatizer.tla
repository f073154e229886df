----------------------------- MODULE Lemmatizer -----------------------------
(***************************************************************************)
(* A lemmatizer: LemmatizerAnnotator (common/lemmatizer_annotator.hpp),    *)
(* the WorkerOutputIterator through which its results reach the lattice,   *)
(* and LamerLemma (tools/lemmatizers/lamerlemma), which looks a word up.   *)
(*                                                                         *)
(* The results for a token come as calls: a normalization, its lemmata,    *)
(* the lexemes of a lemma and the forms of a lexeme.  Each call adds an    *)
(* edge over the last one of the level above, or merges into one that is   *)
(* there already; a word is looked up as it is, with its tail and with its *)
(* head in lower case, and homonyms meet in the same edges.  Corrections,  *)
(* which the iterator would take as well, come from no lemmatizer.         *)
(***************************************************************************)
EXTENDS Traversal

LOCAL INSTANCE SequencesExt

CONSTANTS
    T, term, word,     \* the categories of tokens, normalizations and lemmata
    LowerCase,         \* the case converter, character by character
    Dictionary,        \* the entries for a word: lemma, lexemes and their forms
    LevelTag,          \* the tags of the four levels
    LemmatizerTags     \* those of the lemmatizer and its tagset

Levels == <<"normalization", "lemma", "lexeme", "form">>

levelOf(kind) == CHOOSE i \in DOMAIN Levels : Levels[i] = kind

ASSUME LemmatizerAssumption ==
    /\ LowerCase \in [Char -> Char]
    /\ DOMAIN Dictionary \subseteq Seq(Char)
    /\ LevelTag \in [{"normalization", "lemma", "lexeme", "form"} -> Tag]
    /\ LemmatizerTags \in Collection

-----------------------------------------------------------------------------
(* The words that are looked up.                                           *)

lowered(w) == [i \in DOMAIN w |-> LowerCase[w[i]]]

\* Whether the converter would change it.
isTouched(w) == lowered(w) # w

tailConverted(w) == <<Head(w)>> \o lowered(Tail(w))

headConverted(w) == lowered(<<Head(w)>>) \o Tail(w)

\* lemmatizeSingleWord(): the word, and what the conversions make of it.
lookedUp(w) ==
    <<w>> \o (IF isTouched(Tail(w)) THEN <<tailConverted(w)>> ELSE <<>>)
          \o (IF isTouched(<<Head(w)>>) THEN <<headConverted(w)>> ELSE <<>>)

-----------------------------------------------------------------------------
(* LamerLemma::lemmatize(), up to a level.                                 *)

entries(w) == IF w \in DOMAIN Dictionary THEN Dictionary[w] ELSE <<>>

Call_(kind, category, t) ==
    [kind |-> kind, item |-> [category |-> category, text |-> t]]

formCalls(w, lexeme) ==
    [i \in DOMAIN lexeme.forms |-> Call_("form", lexeme.forms[i], w)]

lexemeCalls(w, lemma, lexeme, level) ==
    <<Call_("lexeme", lexeme.pos, <<lemma, lexeme.pos>>)>>
    \o (IF level > 2 THEN formCalls(w, lexeme) ELSE <<>>)

lemmaCalls(w, entry, level) ==
    FoldLeft(LAMBDA calls, lexeme : calls \o lexemeCalls(w, entry.lemma, lexeme, level),
             <<Call_("lemma", word, entry.lemma)>>,
             IF level > 1 THEN entry.lexemes ELSE <<>>)

lemmatize(w, level) ==
    IF level = 0 \/ entries(w) = <<>> THEN <<>>
    ELSE FoldLeft(LAMBDA calls, entry : calls \o lemmaCalls(w, entry, level),
                  <<Call_("normalization", term, w)>>, entries(w))

\* All the calls for one token.
analysis(w, level) ==
    FoldLeft(LAMBDA calls, x : calls \o lemmatize(x, level), <<>>, lookedUp(w))

-----------------------------------------------------------------------------
(* WorkerOutputIterator.                                                   *)

NoOutput == [token |-> NoEdge, last |-> <<>>, calls |-> <<>>]

\* The last normalization and lemma are the token at first; there is no last
\* lexeme.
outputFor(token, calls) ==
    IF calls = <<>> THEN NoOutput
    ELSE [token |-> token, last |-> <<token, token, NoEdge>>, calls |-> calls]

lemmatizeTags(kind) == {LevelTag[kind]} \cup LemmatizerTags

\* The edge is the last of its level, and of those below it.
lastAfter(last, kind, edge) ==
    [i \in DOMAIN last |-> IF i >= levelOf(kind) THEN edge ELSE last[i]]

\* The last edge of the level above.
lastAbove(output, kind) ==
    IF kind = "normalization" THEN output.token ELSE output.last[levelOf(kind) - 1]
=============================================================================
