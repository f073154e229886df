----------------------------- MODULE MCLattice -----------------------------
(* Small instances of the lattice for TLC. *)
EXTENDS Lattice

CONSTANTS a, b, x, symTag, discarded, token, pl

Word == [category |-> x, text |-> NoText]

MCLowestScore == -9

MCTag == {symTag, discarded, token, pl}

ShortStrings == {<<a>>, <<a, a>>}

\* Words over one or two characters, in and out of a language plane, and an
\* annotation under the item of an implicit symbol, which converts the symbol
\* into an explicit edge.
IndexAnnotations ==
    {<<Word, {token}>>, <<Word, {token, pl}>>, <<SymbolItem(a), {token}>>}

IndexMasks == {{{token, pl}}, {{symTag}, {discarded}}}

SymbolMasks == {{{symTag}}}

OneString == {<<a, a>>}
MCCorrections == {<<b>>, <<a, b>>}
CorrectionAnnotations == {<<SymbolItem(a), {symTag, token}>>}
=============================================================================
