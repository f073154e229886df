----------------------------- MODULE MCWorkers -----------------------------
(* Small instances of Workers: a line or two of three- and one-byte         *)
(* characters, one of them with a lower case; a dictionary with homonyms,   *)
(* two lexemes of one lemma name, and a lexicon of frames of lexemes.       *)
EXTENDS Workers

LOCAL INSTANCE TLC

CONSTANTS
    a, u, A, sp, nl,
    symTag, discarded, frag, txt, token, normalization, lemma, lexeme, form, tagset,
    valency, terminal, selected, pl, parse,
    F, L,                  \* fragments and texts
    p, q, r, o,            \* lemmata
    n, v, n1, n2, v1,      \* parts of speech, and with attributes
    nf, vf                 \* with those of a frame

MCChar == {a, u, A, sp, nl}

MCCategory == {F, L, T, B, term, word, n, v, n1, n2, v1, nf, vf}

MCPlaneTag == {pl, parse}

MCLowestScore == -1

MCTag == {symTag, discarded, frag, txt, token, normalization, lemma, lexeme, form, tagset,
          valency, terminal, selected, pl, parse}

MCWidth == [c \in MCChar |-> IF c = u THEN 3 ELSE 1]

MCLowerCase == [c \in MCChar |-> IF c = A THEN a ELSE c]

Noun(forms) == [pos |-> n, forms |-> forms]

Entry(l, lexemes) == [lemma |-> l, lexemes |-> lexemes]

\* Twice the same lemma and a homonym of it; two parts of speech; entries for
\* a word as it is and for what its conversions make of it.
MCDictionary ==
    (<<a>> :> <<Entry(p, <<Noun(<<n1, n2>>)>>), Entry(p, <<Noun(<<n1>>)>>),
                Entry(q, <<Noun(<<n1>>)>>)>>) @@
    (<<A>> :> <<Entry(q, <<Noun(<<n2>>)>>)>>) @@
    (<<u>> :> <<Entry(r, <<Noun(<<n1>>), [pos |-> v, forms |-> <<v1>>]>>)>>) @@
    (<<A, a>> :> <<Entry(r, <<Noun(<<n1>>)>>)>>) @@
    (<<a, A>> :> <<Entry(q, <<Noun(<<n1>>)>>)>>) @@
    (<<u, a>> :> <<Entry(o, <<Noun(<<n1>>)>>)>>)

MCLevelTag ==
    [normalization |-> normalization, lemma |-> lemma, lexeme |-> lexeme, form |-> form]

Item(category) == [category |-> category, text |-> NoText]

OfLexeme(category, l, pos) == [category |-> category, text |-> <<l, pos>>]

\* One lexeme has a frame for each use, one a single frame, one a frame that
\* adds nothing, so that its item is that of the lexeme; q has none.
MCLexicon ==
    (OfLexeme(n, p, n) :> <<OfLexeme(nf, p, n), OfLexeme(vf, p, n)>>) @@
    (OfLexeme(v, r, v) :> <<OfLexeme(vf, r, v)>>) @@
    (OfLexeme(n, o, n) :> <<OfLexeme(n, o, n)>>)

\* The attributes of a frame go before those of a form.
MCjoinedCategory ==
    [pair \in {n1, n2, v1} \X {nf, vf} |-> IF pair[2] = vf THEN vf ELSE pair]

\* As in the configuration of the joiner; in the plane of the forms; without
\* a plane.
ParseTags == {terminal, parse, pl}

SamePlaneTags == {terminal, pl}

PlainTags == {terminal}

\* Without limits, with all the levels of the lemmatizer.
Analysed(outer, outTags, withBlank) ==
    [hard |-> 0, soft |-> 0, level |-> 3, outer |-> outer, outTags |-> outTags,
     rightText |-> TRUE, withBlank |-> withBlank, wholeText |-> FALSE]

\* With limits, without a lemmatizer.
Limited(hard, soft) ==
    [Analysed("none", SamePlaneTags, FALSE) EXCEPT !.hard = hard, !.soft = soft, !.level = 0]

\* A blank between words, two lines with an empty one between them, a newline
\* inside a paragraph; each level and kind of join; limits of the exact length
\* of a segment, inside a character, both in effect at once, and too small.
MCCases ==
    {<<<<<<a, sp, A>>>>, Analysed("extended", ParseTags, TRUE)>>,
     <<<<<<u>>, <<>>, <<a>>>>, Analysed("outer", SamePlaneTags, FALSE)>>,
     <<<<<<A, A>>>>, Analysed("none", ParseTags, FALSE)>>,
     <<<<<<u, A>>>>, [Analysed("none", SamePlaneTags, FALSE) EXCEPT !.rightText = FALSE]>>,
     <<<<<<a>>>>, [Analysed("outer", ParseTags, FALSE) EXCEPT !.wholeText = TRUE]>>,
     <<<<<<a>>>>, [Analysed("extended", SamePlaneTags, FALSE) EXCEPT !.level = 2]>>,
     <<<<<<A>>>>, [Analysed("extended", SamePlaneTags, FALSE) EXCEPT !.level = 1]>>,
     <<<<<<a, u, a>>>>, Limited(3, 0)>>,
     <<<<<<u, a, u>>>>, Limited(5, 0)>>,
     <<<<<<a, sp, sp, u>>>>, Limited(0, 2)>>,
     <<<<<<a, a, sp, u, sp, a>>>>, Limited(4, 2)>>,
     <<<<<<a, u>>>>, Limited(2, 0)>>}

OneCase == {<<<<<<A, A>>>>, Analysed("outer", SamePlaneTags, FALSE)>>}

PlainCase == {<<<<<<A>>>>, Analysed("outer", PlainTags, FALSE)>>}

MCFragItem == Item(F)

MCTextItem == Item(L)

MCFragTags == {frag}

MCTextTags == {txt, pl}

MCTokenTags == {token, pl}

MCLemmatizerTags == {tagset}

MCLexiconMask == {{lexeme, tagset, pl}}

MCLexiconTags == {valency, tagset}

MCLeftMask == {{form, tagset}}

MCRightMask == {{valency, tagset}}

TokenMask == {{token}}

FormMask == {{form}}

FrameMask == {{valency}}

MCSelectedTags == {selected, token}
=============================================================================
