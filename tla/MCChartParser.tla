---------------------------- MODULE MCChartParser ----------------------------
(* Small instances of ChartParser: every grammar over a handful of rules,     *)
(* with cycles, a rule that leads back to its own category, two rules that    *)
(* differ in their score, and ambiguity; two or three words.                  *)
EXTENDS ChartParser

CONSTANTS
    a, sp, symTag, discarded, token, terminal, gobio, aux, pl,
    T, B, x, y, z

MCChar == {a, sp}

MCCategory == {T, B, x, y, z}

MCTag == {symTag, discarded, token, terminal, gobio, aux, pl}

MCPlaneTag == {pl}

MCLowestScore == -1

MCRules ==
    <<[rhs |-> <<x>>, lhs |-> y, score |-> 0],
      [rhs |-> <<y>>, lhs |-> x, score |-> 1],
      [rhs |-> <<x>>, lhs |-> y, score |-> -1],
      [rhs |-> <<x, y>>, lhs |-> z, score |-> 0],
      [rhs |-> <<y, x>>, lhs |-> x, score |-> 0],
      [rhs |-> <<z>>, lhs |-> z, score |-> 0],
      [rhs |-> <<y, z>>, lhs |-> x, score |-> 0]>>

Word(from, to, tags) ==
    [from |-> from, to |-> to, item |-> [category |-> T, text |-> NoText],
     tags |-> {token} \cup tags, over |-> <<>>, score |-> 0]

BlankAt(from) ==
    [Word(from, from + 1, {pl}) EXCEPT !.item.category = B]

\* A terminal over a token, with a lemma or without a text of its own.
Terminal(from, to, c, t, token_) ==
    [from |-> from, to |-> to, item |-> [category |-> c, text |-> t],
     tags |-> {terminal, gobio}, over |-> <<token_>>, score |-> 0]

\* Two words next to each other, the second one ambiguous.
Adjacent ==
    [text |-> <<a, a>>,
     input |-> <<Word(0, 1, {pl}), Word(1, 2, {pl}),
                 Terminal(0, 1, x, NoText, 1), Terminal(1, 2, y, a, 2),
                 Terminal(1, 2, x, NoText, 2)>>]

\* A blank between two words.
Apart ==
    [text |-> <<a, sp, a>>,
     input |-> <<Word(0, 1, {pl}), BlankAt(1), Word(2, 3, {pl}),
                 [Terminal(0, 1, y, NoText, 1) EXCEPT !.score = -1],
                 Terminal(2, 3, x, a, 3)>>]

\* Three words, the last behind a blank; one token has no plane.
Three ==
    [text |-> <<a, a, sp, a>>,
     input |-> <<Word(0, 1, {}), Word(1, 2, {pl}), BlankAt(2), Word(3, 4, {pl}),
                 Terminal(0, 1, y, a, 1), Terminal(1, 2, x, NoText, 2),
                 Terminal(3, 4, y, NoText, 4)>>]

\* The combinator's own limits: one level, up to the largest integer, which the
\* instance has small so that a parse can reach it.
Unlimited ==
    [levels |-> <<[threshold |-> MaxInt, score |-> -100]>>, specs |-> <<>>,
     absolute |-> 100]

\* Two levels; some edges between vertices, by their distance.
Limited ==
    [levels |-> <<[threshold |-> 2, score |-> -100], [threshold |-> 6, score |-> 0]>>,
     specs |-> <<[argument |-> 1, limit |-> 3]>>, absolute |-> 1]

Parsed(input, grammar, limits) ==
    [text |-> input.text, input |-> input.input, grammar |-> grammar, limits |-> limits]

MCCharts ==
    {Parsed(input, grammar, limits) :
        input \in {Adjacent, Apart, Three}, grammar \in SUBSET DOMAIN MCRules,
        limits \in {Unlimited, Limited}}

MCInputMask == {{token}, {terminal}, {gobio}, {aux}}

MCParseTags == {gobio, aux}

\* Completeness is proved of tokenized charts; these are.
ASSUME ChartsTokenized == \A c \in Charts : isTokenized(c)
=============================================================================
