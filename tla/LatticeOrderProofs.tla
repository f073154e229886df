------------------------- MODULE LatticeOrderProofs -------------------------
(***************************************************************************)
(* Proof that the lattice stays a dag, which topological_sort in           *)
(* VertexIterator needs and only addEdge()'s callers can see to: what they *)
(* keep is an order of the edges and the text together, in which every     *)
(* character leads to the next.                                            *)
(***************************************************************************)
EXTENDS LatticeProofs

\* The steps one can make from vertex to vertex.
Links == {<<getEdgeSource(d), getEdgeTarget(d)>> : d \in Edges}

TextSteps == {<<v, v + 1>> : v \in 0 .. Len(text) - 1}

\* Nobody can walk for ever: some vertex of every set has no step back into it.
HasSinks(steps) ==
    \A S \in SUBSET Int : S # {} => \E v \in S : \A w \in S : <<v, w>> \notin steps

Ordered == HasSinks(TextSteps \cup Links)

\* The edges that outEdges(v, symbolMask) goes through, besides the implicit one.
SymbolIndex == addTagMaskIndex_(symbolMask)[symbolMask]

symbolEdges(v) == {e \in SymbolIndex : edges[e].from = v}

\* Corrections: a replacement walks the range character by character and can be
\* rejoined when it runs out of range; an insertion so far is a chain of loose
\* vertices that can only be entered at the place of the insertion.
Chain(chain, here, at) ==
    /\ \A v \in chain : v < 0
    /\ at \in chain \cup {here}
    /\ \A link \in Links : link[2] \in chain => link[1] \in chain \cup {here}
    /\ getEdgeTarget(firstSymbolOutEdge(here)) \notin chain

LoopOrdered ==
    /\ call.op = "replace" =>
          /\ 0 <= call.at /\ call.at <= call.to /\ call.to <= Len(text)
          /\ walkable(call.at, call.to)
          /\ rejoinable(call.to) \/ Len(call.rest) <= call.to - call.at
    /\ call.op = "insert" =>
          /\ rejoinable(call.here)
          /\ \E chain \in SUBSET Int : Chain(chain, call.here, call.at)

OrderInv == Ordered /\ LoopOrdered

-----------------------------------------------------------------------------
(* Relations without endless walks.                                        *)

LEMMA FewerSteps ==
    ASSUME NEW old, HasSinks(old), NEW new, new \subseteq old
    PROVE  HasSinks(new)
BY DEF HasSinks

\* One more step out of a closed set's complement into it.
LEMMA ForwardStep ==
    ASSUME NEW steps, HasSinks(steps), NEW after \in SUBSET Int, NEW from, NEW to,
           to \in after, from \notin after,
           \A v \in after : \A w \in Int : <<v, w>> \in steps => w \in after
    PROVE  HasSinks(steps \cup {<<from, to>>})
<1> SUFFICES ASSUME NEW S \in SUBSET Int, S # {}
             PROVE  \E v \in S : \A w \in S : <<v, w>> \notin steps \cup {<<from, to>>}
    BY DEF HasSinks
<1>1. CASE S \cap after # {}
    <2>1. S \cap after \in SUBSET Int
        OBVIOUS
    <2>2. PICK v \in S \cap after : \A w \in S \cap after : <<v, w>> \notin steps
        BY <1>1, <2>1 DEF HasSinks
    <2>3. \A w \in S : <<v, w>> \notin steps /\ <<v, w>> # <<from, to>>
        BY <2>2
    <2> QED BY <2>2, <2>3
<1>2. CASE S \cap after = {}
    <2>1. PICK v \in S : \A w \in S : <<v, w>> \notin steps
        BY DEF HasSinks
    <2>2. \A w \in S : <<v, w>> # <<from, to>>
        BY <1>2
    <2> QED BY <2>1, <2>2
<1> QED BY <1>1, <1>2

\* A step past characters, to where one can get from behind them (an erasure).
LEMMA ShortcutStep ==
    ASSUME NEW steps, HasSinks(steps), NEW from \in Int, NEW to \in Int, from < to, NEW target,
           \A v \in from .. to - 1 : <<v, v + 1>> \in steps,
           <<to, target>> \in steps
    PROVE  HasSinks(steps \cup {<<from, target>>})
<1> SUFFICES ASSUME NEW S \in SUBSET Int, S # {}
             PROVE  \E v \in S : \A w \in S : <<v, w>> \notin steps \cup {<<from, target>>}
    BY DEF HasSinks
<1>1. CASE from \in S /\ target \in S
    <2> DEFINE T == S \cup (from + 1 .. to)
    <2>1. T \in SUBSET Int /\ T # {}
        OBVIOUS
    <2>2. PICK v \in T : \A w \in T : <<v, w>> \notin steps
        <3> HIDE DEF T
        <3> QED BY <2>1 DEF HasSinks
    <2>3. ASSUME v \in from .. to
          PROVE  FALSE
        <3>1. CASE v = to
            BY <1>1, <2>2, <3>1
        <3>2. CASE v # to
            <4>1. v \in from .. to - 1 /\ v + 1 \in T
                BY <2>3, <3>2
            <4> QED BY <2>2, <4>1
        <3> QED BY <3>1, <3>2
    <2>4. v \in S /\ v # from
        BY <2>3
    <2> QED BY <2>2, <2>4
<1>2. CASE ~(from \in S /\ target \in S)
    <2>1. PICK v \in S : \A w \in S : <<v, w>> \notin steps
        BY DEF HasSinks
    <2> QED BY <1>2, <2>1
<1> QED BY <1>1, <1>2

\* A step from a chain one can only enter at here, to where here leads (an insertion).
LEMMA DetourStep ==
    ASSUME NEW steps, HasSinks(steps), NEW chain, NEW here \in Int,
           NEW at \in chain \cup {here}, NEW target, target \notin chain,
           <<here, target>> \in steps,
           \A v, w : <<v, w>> \in steps /\ w \in chain => v \in chain \cup {here}
    PROVE  HasSinks(steps \cup {<<at, target>>})
<1> SUFFICES ASSUME NEW S \in SUBSET Int, S # {}
             PROVE  \E v \in S : \A w \in S : <<v, w>> \notin steps \cup {<<at, target>>}
    BY DEF HasSinks
<1>1. CASE at \in S /\ target \in S
    <2> DEFINE T == (S \ chain) \cup {here}
    <2>1. T \in SUBSET Int /\ T # {}
        OBVIOUS
    <2>2. PICK v \in T : \A w \in T : <<v, w>> \notin steps
        <3> HIDE DEF T
        <3> QED BY <2>1 DEF HasSinks
    <2>3. v # here
        BY <1>1, <2>2
    <2>4. v \in S /\ v \notin chain
        BY <2>3
    <2>5. \A w \in S : <<v, w>> \notin steps
        BY <2>2, <2>3, <2>4
    <2> QED BY <2>3, <2>4, <2>5
<1>2. CASE ~(at \in S /\ target \in S)
    <2>1. PICK v \in S : \A w \in S : <<v, w>> \notin steps
        BY DEF HasSinks
    <2> QED BY <1>2, <2>1
<1> QED BY <1>1, <1>2

\* A set of numbers that is bounded has a greatest element.
LEMMA GreatestBelow ==
    ASSUME NEW S \in SUBSET Int, S # {}, NEW bound \in Int, \A v \in S : v <= bound
    PROVE  \E v \in S : \A w \in S : w <= v
<1> DEFINE distances == {bound - v : v \in S}
<1>1. distances \in SUBSET Nat /\ distances # {}
    <2>1. \A v \in S : bound - v \in Nat
        OBVIOUS
    <2> QED BY <2>1
<1>2. PICK m \in distances : \A n \in distances : m <= n
    <2> HIDE DEF distances
    <2> QED BY <1>1, LeastNatural
<1>3. PICK v \in S : m = bound - v
    BY <1>2
<1>4. ASSUME NEW w \in S PROVE w <= v
    <2>1. m <= bound - w
        BY <1>2
    <2> QED BY <1>3, <2>1
<1> QED BY <1>4

\* The text grows: its new characters lead on from the end of the old one, where no
\* edge is yet.
LEMMA AppendedSteps ==
    ASSUME NEW links, NEW n \in Nat, NEW m \in Nat, n <= m,
           \A v, w \in Int : <<v, w>> \in links => v <= n,
           HasSinks({<<v, v + 1>> : v \in 0 .. n - 1} \cup links)
    PROVE  HasSinks({<<v, v + 1>> : v \in 0 .. m - 1} \cup links)
<1> DEFINE old == {<<v, v + 1>> : v \in 0 .. n - 1} \cup links
           new == {<<v, v + 1>> : v \in 0 .. m - 1} \cup links
<1> SUFFICES ASSUME NEW S \in SUBSET Int, S # {}
             PROVE  \E v \in S : \A w \in S : <<v, w>> \notin new
    BY DEF HasSinks
<1>1. CASE S \cap (n + 1 .. m) # {}
    <2> DEFINE T == S \cap (n + 1 .. m)
    <2>1. T \in SUBSET Int /\ T # {} /\ \A v \in T : v <= m
        BY <1>1
    <2>2. PICK v \in T : \A w \in T : w <= v
        <3> HIDE DEF T
        <3>1. m \in Int
            OBVIOUS
        <3>2. PICK bound \in Int : \A v \in T : v <= bound
            BY <2>1, <3>1
        <3> QED BY <2>1, <3>2, GreatestBelow
    <2>3. ASSUME NEW w \in S, <<v, w>> \in new
          PROVE  FALSE
        <3>1. <<v, w>> \notin links
            BY <2>2
        <3>2. w = v + 1 /\ v \in 0 .. m - 1
            BY <2>3, <3>1
        <3>3. w \in T
            BY <2>2, <3>2
        <3> QED BY <2>2, <3>2, <3>3
    <2> QED BY <2>2, <2>3
<1>2. CASE S \cap (n + 1 .. m) = {}
    <2>1. PICK v \in S : \A w \in S : <<v, w>> \notin old
        BY DEF HasSinks
    <2>2. ASSUME NEW w \in S, <<v, w>> \in new
          PROVE  FALSE
        <3>1. <<v, w>> \notin links
            BY <2>1
        <3>2. w = v + 1 /\ v \in 0 .. m - 1
            BY <2>2, <3>1
        <3>3. v \notin 0 .. n - 1
            BY <2>1, <3>2
        <3>4. w \in n + 1 .. m
            BY <3>2, <3>3
        <3> QED BY <1>2, <3>4
    <2> QED BY <2>1, <2>2
<1> QED BY <1>1, <1>2

-----------------------------------------------------------------------------
(* What addEdge() does to the order.                                       *)

\* The ends of the edges are vertices, and an edge is a link between them.
LEMMA LinkFacts ==
    ASSUME LatticeInv
    PROVE  /\ Links \subseteq Vertices \X Vertices
           /\ \A d \in Edges : <<getEdgeSource(d), getEdgeTarget(d)>> \in Links
           /\ Vertices \subseteq Int
BY DescriptorFields, VerticesAreIntegers DEF Links, LatticeInv

\* A step that adds at most one edge adds at most one link.
LEMMA LinksGrow ==
    ASSUME LatticeInv, OnlyGrow, NEW from, NEW to,
           \A v \in implicitOutEdges' : v \in implicitOutEdges \/ (v = from /\ to = from + 1),
           \A e \in DOMAIN edges' :
              e \in DOMAIN edges \/ (edges'[e].from = from /\ edges'[e].to = to)
    PROVE  Links' \subseteq Links \cup {<<from, to>>}
<1> SUFFICES ASSUME NEW d \in Edges'
             PROVE  <<getEdgeSource(d), getEdgeTarget(d)>>' \in Links \cup {<<from, to>>}
    BY DEF Links
<1>1. CASE \E v \in implicitOutEdges' : d = Implicit(v)
    <2>1. PICK v \in implicitOutEdges' : d = Implicit(v)
        BY <1>1
    <2>2. d.kind = "implicit" /\ d.at = v
        BY <2>1 DEF Implicit
    <2>3. getEdgeSource(d)' = v /\ getEdgeTarget(d)' = v + 1
        BY <2>2 DEF getEdgeSource, getEdgeTarget, isExplicit
    <2>4. CASE v \in implicitOutEdges
        <3>1. d \in Edges /\ getEdgeSource(d) = v /\ getEdgeTarget(d) = v + 1
            BY <2>1, <2>2, <2>4 DEF Edges, getEdgeSource, getEdgeTarget, isExplicit
        <3> QED BY <2>3, <3>1 DEF Links
    <2>5. CASE v = from /\ to = from + 1
        BY <2>3, <2>5
    <2> QED BY <2>4, <2>5
<1>2. CASE \E e \in DOMAIN edges' : d = Explicit(e)
    <2>1. PICK e \in DOMAIN edges' : d = Explicit(e)
        BY <1>2
    <2>2. d.kind = "explicit" /\ d.at = e
        BY <2>1 DEF Explicit
    <2>3. getEdgeSource(d)' = edges'[e].from /\ getEdgeTarget(d)' = edges'[e].to
        BY <2>2 DEF getEdgeSource, getEdgeTarget, isExplicit
    <2>4. CASE e \in DOMAIN edges
        <3>1. /\ d \in Edges /\ getEdgeSource(d) = edges[e].from
              /\ getEdgeTarget(d) = edges[e].to
            BY <2>1, <2>2, <2>4 DEF Edges, getEdgeSource, getEdgeTarget, isExplicit
        <3>2. edges'[e].from = edges[e].from /\ edges'[e].to = edges[e].to
            BY <2>4 DEF OnlyGrow
        <3> QED BY <2>3, <3>1, <3>2 DEF Links
    <2>5. CASE edges'[e].from = from /\ edges'[e].to = to
        BY <2>3, <2>5
    <2> QED BY <2>4, <2>5
<1> QED BY <1>1, <1>2 DEF Edges

\* What addEdge() leaves of the symbols, and the one edge it may add.
Additions(from, to) ==
    /\ \A v \in implicitOutEdges' : v \in implicitOutEdges \/ (v = from /\ to = from + 1)
    /\ \A v \in implicitOutEdges : v \in implicitOutEdges' \/ v = from
    /\ \A e \in DOMAIN edges' :
          e \in DOMAIN edges \/ (edges'[e].from = from /\ edges'[e].to = to)
    /\ SymbolIndex \subseteq SymbolIndex'
    /\ \A e \in SymbolIndex' : e \in SymbolIndex \/ edges'[e].from = from

\* Looking up a symbol does not change what can be found.
LEMMA IndexLookedUp ==
    ASSUME LatticeInv, UNCHANGED edges, NEW looked \in BOOLEAN,
           indexedTagMasks' = indexAfterLookUp(looked)
    PROVE  SymbolIndex' = SymbolIndex
<1>1. CASE symbolMask \in DOMAIN indexedTagMasks
    BY <1>1 DEF SymbolIndex, indexAfterLookUp, addTagMaskIndex_
<1>2. CASE symbolMask \notin DOMAIN indexedTagMasks
    BY <1>2 DEF SymbolIndex, indexAfterLookUp, addTagMaskIndex_, With
<1> QED BY <1>1, <1>2

LEMMA MergeAdditions ==
    ASSUME LatticeInv, LatticeInv', OnlyGrow, NEW e \in DOMAIN edges, NEW tags, NEW sequence,
           NEW score, NEW looked \in BOOLEAN, NEW to,
           MergeIntoEdge(e, tags, sequence, score, indexAfterLookUp(looked))
    PROVE  Additions(edges[e].from, to)
<1>1. /\ indexedTagMasks' = indexAfterLookUp(looked)
      /\ UNCHANGED implicitVars
      /\ DOMAIN edges' = DOMAIN edges
      /\ \A f \in DOMAIN edges : f # e => edges'[f] = edges[f]
    BY DEF MergeIntoEdge
<1>2. \A f \in DOMAIN edges : edges'[f].from = edges[f].from
    BY DEF OnlyGrow
<1>3. SymbolIndex \subseteq DOMAIN edges
    BY IndexAdded, SymbolMask DEF LatticeInv, GoodIndex, SymbolIndex
<1>4. CASE symbolMask \in DOMAIN indexedTagMasks \/ looked
    <2>1. SymbolIndex' = SymbolIndex
        <3>1. CASE symbolMask \in DOMAIN indexedTagMasks
            BY <1>1, <3>1 DEF SymbolIndex, indexAfterLookUp, addTagMaskIndex_
        <3>2. CASE symbolMask \notin DOMAIN indexedTagMasks
            BY <1>1, <1>4, <3>2 DEF SymbolIndex, indexAfterLookUp, addTagMaskIndex_, With
        <3> QED BY <3>1, <3>2
    <2> QED BY <1>1, <2>1 DEF Additions, implicitVars
<1>5. CASE symbolMask \notin DOMAIN indexedTagMasks /\ ~looked
    <2>1. indexedTagMasks' = indexedTagMasks
        BY <1>1, <1>5 DEF indexAfterLookUp
    <2>2. SymbolIndex = {f \in DOMAIN edges : matches(edges[f].tags, symbolMask)}
        BY <1>5 DEF SymbolIndex, addTagMaskIndex_, With
    <2>3. SymbolIndex' = {f \in DOMAIN edges : matches(edges'[f].tags, symbolMask)}
        BY <1>1, <1>5, <2>1 DEF SymbolIndex, addTagMaskIndex_, With
    <2>4. \A f \in DOMAIN edges : edges[f].tags \subseteq edges'[f].tags
        BY DEF OnlyGrow
    <2>5. SymbolIndex \subseteq SymbolIndex'
        BY <2>2, <2>3, <2>4 DEF matches
    <2>6. \A f \in SymbolIndex' : f \in SymbolIndex \/ edges'[f].from = edges[e].from
        BY <1>1, <1>2, <2>2, <2>3
    <2> QED BY <1>1, <2>5, <2>6 DEF Additions, implicitVars
<1> QED BY <1>4, <1>5

LEMMA ImplicitAdditions ==
    ASSUME LatticeInv, NEW from, NEW to, NEW item, NEW tags, NEW implicit,
           implicit \subseteq implicitOutEdges, implicitOutEdges \ implicit \subseteq {from},
           InsertImplicitEdge(from, to, item, tags, implicit)
    PROVE  Additions(from, to)
<1>1. /\ from + 1 = to
      /\ implicitOutEdges' = implicit \cup {from}
      /\ indexedTagMasks' = indexAfterLookUp(TRUE)
      /\ edges' = edges
    BY DEF InsertImplicitEdge, becomesImplicit
<1>2. SymbolIndex' = SymbolIndex
    BY <1>1, IndexLookedUp
<1> QED BY <1>1, <1>2 DEF Additions

\* An edge inserted into the graph comes after all the others in its indices.
LEMMA ExplicitAdditions ==
    ASSUME LatticeInv, NEW from, NEW to, NEW item, NEW tags, NEW sequence, NEW score,
           NEW implicit, implicit \subseteq implicitOutEdges,
           implicitOutEdges \ implicit \subseteq {from}, NEW looked \in BOOLEAN,
           InsertExplicitEdge(from, to, item, tags, sequence, score, implicit, looked)
    PROVE  /\ Additions(from, to)
           /\ implicitOutEdges' = implicit
           /\ SymbolIndex' \subseteq SymbolIndex \cup {Len(edges) + 1}
<1> DEFINE n     == Len(edges) + 1
           index == indexAfterLookUp(looked \/ tags = {Symbol})
<1>1. /\ implicitOutEdges' = implicit
      /\ indexedTagMasks' = indexEdge(index, n, tags)
      /\ edges' = Append(edges, [from |-> from, to |-> to, item |-> item, tags |-> tags,
                                score |-> score,
                                partitions |-> <<[tags |-> tags, sequence |-> sequence,
                                                  score |-> score]>>])
    BY DEF InsertExplicitEdge
<1>2. /\ edges \in Seq(EdgeEntry) /\ n \in Nat /\ DOMAIN edges' = DOMAIN edges \cup {n}
      /\ edges'[n].from = from /\ edges'[n].to = to /\ edges'[n].tags = tags
      /\ \A e \in DOMAIN edges : edges'[e] = edges[e]
    <2>1. edges \in Seq(EdgeEntry)
        BY DEF LatticeInv, LatticeTypeOK
    <2> QED BY <1>1, <2>1
<1>3. SymbolIndex \subseteq SymbolIndex' /\ SymbolIndex' \subseteq SymbolIndex \cup {n}
    <2>1. CASE symbolMask \in DOMAIN index
        <3>1. SymbolIndex = index[symbolMask]
            <4>1. CASE symbolMask \in DOMAIN indexedTagMasks
                BY <4>1 DEF SymbolIndex, indexAfterLookUp, addTagMaskIndex_
            <4>2. CASE symbolMask \notin DOMAIN indexedTagMasks
                BY <2>1, <4>2 DEF SymbolIndex, indexAfterLookUp
            <4> QED BY <4>1, <4>2
        <3> HIDE DEF index
        <3>2. symbolMask \in DOMAIN indexedTagMasks'
            BY <1>1, <2>1 DEF indexEdge
        <3>3. SymbolIndex' = indexedTagMasks'[symbolMask]
            BY <3>2 DEF SymbolIndex, addTagMaskIndex_
        <3>4. indexedTagMasks'[symbolMask] \in {index[symbolMask], index[symbolMask] \cup {n}}
            BY <1>1, <2>1 DEF indexEdge
        <3> QED BY <3>1, <3>3, <3>4
    <2>2. CASE symbolMask \notin DOMAIN index
        <3>1. symbolMask \notin DOMAIN indexedTagMasks
            BY <2>2 DEF indexAfterLookUp, addTagMaskIndex_
        <3> HIDE DEF index
        <3>2. symbolMask \notin DOMAIN indexedTagMasks'
            BY <1>1, <2>2 DEF indexEdge
        <3>3. SymbolIndex = {e \in DOMAIN edges : matches(edges[e].tags, symbolMask)}
            BY <3>1 DEF SymbolIndex, addTagMaskIndex_, With
        <3>4. SymbolIndex' = {e \in DOMAIN edges' : matches(edges'[e].tags, symbolMask)}
            BY <3>2 DEF SymbolIndex, addTagMaskIndex_, With
        <3> QED BY <1>2, <3>3, <3>4
    <2> QED BY <2>1, <2>2
<1>4. Additions(from, to)
    BY <1>1, <1>2, <1>3 DEF Additions
<1> QED BY <1>1, <1>3, <1>4

LEMMA InsertAdditions ==
    ASSUME LatticeInv, NEW from, NEW to, NEW item, NEW tags, NEW sequence, NEW score,
           NEW implicit, implicit \subseteq implicitOutEdges,
           implicitOutEdges \ implicit \subseteq {from}, NEW looked \in BOOLEAN,
           InsertEdge(from, to, item, tags, sequence, score, implicit, looked)
    PROVE  Additions(from, to)
<1>1. CASE InsertImplicitEdge(from, to, item, tags, implicit)
    BY <1>1, ImplicitAdditions
<1>2. CASE InsertExplicitEdge(from, to, item, tags, sequence, score, implicit, looked)
    BY <1>2, ExplicitAdditions
<1> QED BY <1>1, <1>2 DEF InsertEdge

\* addEdge(), whatever it does.
LEMMA AddEdgeAdditions ==
    ASSUME LatticeInv, LatticeInv', OnlyGrow,
           NEW from, NEW to, NEW item, NEW givenTags, NEW sequence, NEW score,
           NEW lookedUp \in BOOLEAN,
           addEdge(from, to, item, givenTags, sequence, score, lookedUp)
    PROVE  Additions(from, to)
<1> DEFINE tags   == inheritedTags(givenTags, sequence)
           key    == <<from, to, item>>
           hit    == isoplanarEdge(key, tags)
           looked == lookedUp \/ (hit # NoEdge /\ isRange(sequence))
           after  == lookedUp \/ (forwards(from, to) /\ looked)
           alone  == mergedTags({Symbol}, tags)
<1>1. \/ /\ indexedTagMasks' = indexAfterLookUp(after)
         /\ UNCHANGED <<implicitVars, edges>>
      \/ InsertEdge(from, to, item, tags, sequence, score, implicitOutEdges, looked)
      \/ /\ hit # NoEdge /\ isExplicit(hit)
         /\ MergeIntoEdge(hit.at, tags, sequence, score, indexAfterLookUp(looked))
      \/ InsertEdge(from, to, item, alone, sequence, score, implicitOutEdges \ {from}, looked)
    BY DEF addEdge
<1>2. hit # NoEdge => \E i \in DOMAIN registered(key) : hit = registered(key)[i]
    BY IsoplanarHit DEF LatticeInv
<1>3. /\ looked \in BOOLEAN /\ after \in BOOLEAN
      /\ implicitOutEdges \ {from} \subseteq implicitOutEdges
      /\ implicitOutEdges \ implicitOutEdges \subseteq {from}
      /\ implicitOutEdges \ (implicitOutEdges \ {from}) \subseteq {from}
    BY DEF isRange, forwards
<1> HIDE DEF tags, hit, looked, after, alone
<1>4. CASE indexedTagMasks' = indexAfterLookUp(after) /\ UNCHANGED <<implicitVars, edges>>
    <2>1. SymbolIndex' = SymbolIndex
        BY <1>3, <1>4, IndexLookedUp
    <2> QED BY <1>4, <2>1 DEF Additions, implicitVars
<1>5. CASE InsertEdge(from, to, item, tags, sequence, score, implicitOutEdges, looked)
    BY <1>3, <1>5, InsertAdditions
<1>6. CASE /\ hit # NoEdge /\ isExplicit(hit)
           /\ MergeIntoEdge(hit.at, tags, sequence, score, indexAfterLookUp(looked))
    <2>1. hit.at \in DOMAIN edges /\ edges[hit.at].from = from
        BY <1>2, <1>6, RegisteredFacts DEF LatticeInv, getEdgeSource
    <2>2. Additions(edges[hit.at].from, to)
        BY <1>3, <1>6, <2>1, MergeAdditions
    <2> QED BY <2>1, <2>2
<1>7. CASE InsertEdge(from, to, item, alone, sequence, score, implicitOutEdges \ {from}, looked)
    BY <1>3, <1>7, InsertAdditions
<1> QED BY <1>1, <1>4, <1>5, <1>6, <1>7

\* The edges a look-up goes through are edges of the graph.
LEMMA SymbolEdgesExist ==
    ASSUME LatticeInv
    PROVE  SymbolIndex \subseteq DOMAIN edges
BY IndexAdded, SymbolMask DEF LatticeInv, GoodIndex, SymbolIndex

LEMMA FirstSymbol ==
    ASSUME NEW v
    PROVE  firstSymbolOutEdge(v) = IF v \in implicitOutEdges THEN Implicit(v)
                                   ELSE FirstOf(symbolEdges(v))
BY DEF firstSymbolOutEdge, FirstOut, symbolEdges, SymbolIndex

\* A symbol edge that is found leads on from where it was looked for.
LEMMA SymbolLink ==
    ASSUME LatticeInv, NEW v, firstSymbolOutEdge(v) # NoEdge
    PROVE  /\ firstSymbolOutEdge(v) \in Edges
           /\ <<v, getEdgeTarget(firstSymbolOutEdge(v))>> \in Links
<1> DEFINE d == firstSymbolOutEdge(v)
<1>1. d \in Edges
    BY FirstSymbolIsEdge DEF LatticeInv
<1>2. getEdgeSource(d) = v
    <2>1. CASE v \in implicitOutEdges
        BY <2>1, FirstSymbol DEF getEdgeSource, Implicit, isExplicit
    <2>2. CASE v \notin implicitOutEdges
        <3>1. d = FirstOf(symbolEdges(v))
            BY <2>2, FirstSymbol
        <3>2. symbolEdges(v) \subseteq DOMAIN edges
            BY SymbolEdgesExist DEF symbolEdges
        <3>3. PICK e \in symbolEdges(v) : d = Explicit(e)
            BY <3>1, <3>2, FirstOfIsEdge DEF LatticeInv
        <3> QED BY <3>3 DEF getEdgeSource, Explicit, isExplicit, symbolEdges
    <2> QED BY <2>1, <2>2
<1> QED BY <1>1, <1>2 DEF Links

\* An edge that stays leads where it led.
LEMMA TargetKept ==
    ASSUME LatticeInv, OnlyGrow, NEW d, d \in Edges
    PROVE  getEdgeTarget(d)' = getEdgeTarget(d)
<1>1. CASE \E v \in implicitOutEdges : d = Implicit(v)
    BY <1>1 DEF Implicit, isExplicit, getEdgeTarget
<1>2. CASE \E e \in DOMAIN edges : d = Explicit(e)
    BY <1>2 DEF Explicit, isExplicit, getEdgeTarget, OnlyGrow
<1> QED BY <1>1, <1>2 DEF Edges

\* The first symbol edge out of a vertex other than the source of an addition.
LEMMA FirstElsewhere ==
    ASSUME LatticeInv, OnlyGrow, NEW from, NEW to, Additions(from, to), NEW v, v # from
    PROVE  firstSymbolOutEdge(v)' = firstSymbolOutEdge(v)
<1>1. v \in implicitOutEdges' <=> v \in implicitOutEdges
    BY DEF Additions
<1>2. symbolEdges(v)' = symbolEdges(v)
    <2>1. \A e \in SymbolIndex : e \in DOMAIN edges /\ edges'[e].from = edges[e].from
        BY SymbolEdgesExist DEF OnlyGrow
    <2>2. symbolEdges(v)' = {e \in SymbolIndex' : edges'[e].from = v}
        BY DEF symbolEdges
    <2> QED BY <2>1, <2>2 DEF symbolEdges, Additions
<1>3. firstSymbolOutEdge(v)' = IF v \in implicitOutEdges' THEN Implicit(v)
                               ELSE FirstOf(symbolEdges(v)')
    BY DEF firstSymbolOutEdge, FirstOut, symbolEdges, SymbolIndex, Implicit, FirstOf, Explicit, NoEdge
<1> QED BY <1>1, <1>2, <1>3, FirstSymbol

\* The first symbol edge out of a vertex stays the first when edges are only inserted
\* into the graph.
LEMMA FirstStays ==
    ASSUME LatticeInv, OnlyGrow, UNCHANGED implicitOutEdges,
           SymbolIndex \subseteq SymbolIndex',
           SymbolIndex' \subseteq SymbolIndex \cup {Len(edges) + 1},
           NEW v, firstSymbolOutEdge(v) # NoEdge
    PROVE  firstSymbolOutEdge(v)' = firstSymbolOutEdge(v)
<1>1. firstSymbolOutEdge(v)' = IF v \in implicitOutEdges THEN Implicit(v)
                               ELSE FirstOf(symbolEdges(v)')
    BY DEF firstSymbolOutEdge, FirstOut, symbolEdges, SymbolIndex, Implicit, FirstOf, Explicit, NoEdge
<1>2. CASE v \in implicitOutEdges
    BY <1>1, <1>2, FirstSymbol
<1>3. CASE v \notin implicitOutEdges
    <2>1. firstSymbolOutEdge(v) = FirstOf(symbolEdges(v)) /\ symbolEdges(v) # {}
        BY <1>3, FirstSymbol DEF FirstOf
    <2>2. \A e \in SymbolIndex : e \in DOMAIN edges /\ edges'[e].from = edges[e].from
        BY SymbolEdgesExist DEF OnlyGrow
    <2>3. symbolEdges(v)' = {e \in SymbolIndex' : edges'[e].from = v}
        BY DEF symbolEdges
    <2>4. /\ symbolEdges(v) \subseteq symbolEdges(v)'
          /\ symbolEdges(v)' \subseteq symbolEdges(v) \cup {Len(edges) + 1}
        BY <2>2, <2>3 DEF symbolEdges
    <2>5. /\ symbolEdges(v) \subseteq 1 .. Len(edges) /\ Len(edges) \in Nat
        <3>1. edges \in Seq(EdgeEntry)
            BY DEF LatticeInv, LatticeTypeOK
        <3> QED BY <3>1, <2>2 DEF symbolEdges
    <2>6. PICK m \in symbolEdges(v) : \A e \in symbolEdges(v) : m <= e
        <3>1. symbolEdges(v) \in SUBSET Nat
            BY <2>5
        <3> QED BY <2>1, <3>1, LeastNatural
    <2>7. PICK old, new : old = symbolEdges(v) /\ new = symbolEdges(v)'
        OBVIOUS
    <2>8. /\ m \in new /\ \A e \in new : m <= e
          /\ \A x \in new : (\A e \in new : x <= e) => x = m
          /\ \A x \in old : (\A e \in old : x <= e) => x = m
        BY <2>4, <2>5, <2>6, <2>7
    <2>9. FirstOf(old) = Explicit(m) /\ FirstOf(new) = Explicit(m)
        BY <2>6, <2>7, <2>8 DEF FirstOf
    <2> QED BY <1>1, <1>3, <2>1, <2>7, <2>9
<1> QED BY <1>2, <1>3

-----------------------------------------------------------------------------
(* The order after a step.                                                 *)

LEMMA LinksOfAddition ==
    ASSUME LatticeInv, OnlyGrow, NEW from, NEW to, Additions(from, to)
    PROVE  Links' \subseteq Links \cup {<<from, to>>}
BY LinksGrow DEF Additions

\* A step that leaves text and edges alone.
LEMMA SameOrder ==
    ASSUME Ordered, UNCHANGED <<text, implicitOutEdges, edges>>
    PROVE  Ordered' /\ Links' = Links
<1>1. Links' = Links
    BY DEF Links, Edges, getEdgeSource, getEdgeTarget, isExplicit, Implicit, Explicit
<1> QED BY <1>1 DEF Ordered, TextSteps

\* An edge that goes where one could go before.
LEMMA ParallelOrder ==
    ASSUME LatticeInv, OnlyGrow, Ordered, UNCHANGED text, NEW from, NEW to, Additions(from, to),
           <<from, to>> \in TextSteps \cup Links
    PROVE  Ordered'
<1>1. TextSteps' \cup Links' \subseteq TextSteps \cup Links
    BY LinksOfAddition DEF TextSteps
<1>2. PICK old : old = TextSteps \cup Links
    OBVIOUS
<1>3. PICK new : new = TextSteps' \cup Links'
    OBVIOUS
<1>4. HasSinks(new)
    BY <1>1, <1>2, <1>3, FewerSteps DEF Ordered
<1> QED BY <1>3, <1>4 DEF Ordered

\* An edge of which from is known not to lie after to.
LEMMA ForwardOrder ==
    ASSUME LatticeInv, OnlyGrow, Ordered, UNCHANGED text, NEW from, NEW to, Additions(from, to),
           NEW after \in SUBSET Int, to \in after, from \notin after,
           \A v \in after : v \in 0 .. Len(text) - 1 => v + 1 \in after,
           \A link \in Links : link[1] \in after => link[2] \in after
    PROVE  Ordered'
<1>1. TextSteps' \cup Links' \subseteq (TextSteps \cup Links) \cup {<<from, to>>}
    BY LinksOfAddition DEF TextSteps
<1>2. PICK old : old = TextSteps \cup Links
    OBVIOUS
<1>3. PICK new : new = TextSteps' \cup Links'
    OBVIOUS
<1>4. \A v \in after : \A w \in Int : <<v, w>> \in old => w \in after
    BY <1>2 DEF TextSteps
<1>5. HasSinks(old \cup {<<from, to>>})
    BY <1>2, <1>4, ForwardStep DEF Ordered
<1>6. HasSinks(new)
    BY <1>1, <1>2, <1>3, <1>5, FewerSteps
<1> QED BY <1>3, <1>6 DEF Ordered

\* The edge of an erasure.
LEMMA BridgeOrder ==
    ASSUME Inv, Inv', OnlyGrow, Ordered, UNCHANGED text, NEW from \in Int, NEW to \in Int,
           0 <= from, from < to, to <= Len(text), bridgeErased(from, to)
    PROVE  Ordered'
<1> DEFINE nextEdge == firstSymbolOutEdge(to)
           target   == getEdgeTarget(nextEdge)
<1>0. LatticeInv /\ LatticeInv' /\ Len(text) \in Nat
    BY DEF Inv, LatticeInv, LatticeTypeOK
<1>1. CASE nextEdge = NoEdge
    BY <1>1, SameOrder DEF bridgeErased, OnlyLookedUp, implicitVars
<1>2. CASE nextEdge # NoEdge
    <2>1. Additions(from, target)
        <3>1. addEdge(from, target, getEdgeAnnotationItem(nextEdge), {Symbol}, EmptySequence, 0,
                      TRUE)
            BY <1>2 DEF bridgeErased
        <3> HIDE DEF nextEdge, target
        <3> QED BY <1>0, <3>1, AddEdgeAdditions
    <2>2. <<to, target>> \in Links
        BY <1>0, <1>2, SymbolLink
    <2> HIDE DEF nextEdge, target
    <2>3. \A v \in from .. to - 1 : <<v, v + 1>> \in TextSteps \cup Links
        BY <1>0 DEF TextSteps
    <2>4. TextSteps' \cup Links' \subseteq (TextSteps \cup Links) \cup {<<from, target>>}
        BY <1>0, <2>1, LinksOfAddition DEF TextSteps
    <2>5. PICK old : old = TextSteps \cup Links
        OBVIOUS
    <2>6. PICK new : new = TextSteps' \cup Links'
        OBVIOUS
    <2>7. HasSinks(old \cup {<<from, target>>})
        BY <2>2, <2>3, <2>5, ShortcutStep DEF Ordered
    <2>8. HasSinks(new)
        BY <2>4, <2>5, <2>6, <2>7, FewerSteps
    <2> QED BY <2>6, <2>8 DEF Ordered
<1> QED BY <1>1, <1>2

\* No loop in progress.
LEMMA IdleOrdered ==
    ASSUME call.op = "none"
    PROVE  LoopOrdered
BY DEF LoopOrdered

\* What can be found does not depend on whether the symbols are indexed yet.
LEMMA SameFirst ==
    ASSUME LatticeInv, UNCHANGED <<implicitOutEdges, edges>>, SymbolIndex' = SymbolIndex, NEW v
    PROVE  /\ firstSymbolOutEdge(v)' = firstSymbolOutEdge(v)
           /\ rejoinable(v)' = rejoinable(v)
           /\ \A d \in Edges : getEdgeTarget(d)' = getEdgeTarget(d)
<1>1. firstSymbolOutEdge(v)' = firstSymbolOutEdge(v)
    BY DEF firstSymbolOutEdge, FirstOut, SymbolIndex, Implicit, FirstOf, Explicit, NoEdge
<1>2. \A d \in Edges : getEdgeTarget(d)' = getEdgeTarget(d)
    BY DEF getEdgeTarget, isExplicit
<1> QED BY <1>1, <1>2 DEF rejoinable, NoEdge

LEMMA SameSymbolIndex ==
    ASSUME UNCHANGED <<edges, indexedTagMasks>>
    PROVE  SymbolIndex' = SymbolIndex
BY DEF SymbolIndex, addTagMaskIndex_, With

\* A range that can be walked can be walked where the symbols stay as they are.
LEMMA SameWalk ==
    ASSUME LatticeInv, UNCHANGED <<implicitOutEdges, edges>>, SymbolIndex' = SymbolIndex,
           NEW at \in Int, NEW to \in Int, walkable(at, to)
    PROVE  walkable(at, to)'
<1>1. ASSUME NEW v \in at .. to - 1, rejoinable(v)'
      PROVE  getEdgeTarget(firstSymbolOutEdge(v))' = v + 1
    <2>1. PICK d : d = firstSymbolOutEdge(v)
        OBVIOUS
    <2>2. d = firstSymbolOutEdge(v)' /\ rejoinable(v)
        BY <1>1, <2>1, SameFirst
    <2>3. d \in Edges
        BY <2>1, <2>2, SymbolLink DEF rejoinable
    <2>4. getEdgeTarget(d)' = getEdgeTarget(d)
        BY <2>3, SameFirst
    <2>5. getEdgeTarget(d) = v + 1
        BY <2>1, <2>2 DEF walkable
    <2>6. getEdgeTarget(firstSymbolOutEdge(v))' = getEdgeTarget(d)'
        BY <2>2 DEF getEdgeTarget, isExplicit
    <2> QED BY <2>4, <2>5, <2>6
<1> QED BY <1>1 DEF walkable

\* The rest of the range can be walked after an edge is added at its begin.
LEMMA WalkOn ==
    ASSUME LatticeInv, OnlyGrow, NEW at \in Int, NEW to \in Int, NEW target, Additions(at, target),
           walkable(at, to)
    PROVE  walkable(at + 1, to)'
<1>1. ASSUME NEW v \in at + 1 .. to - 1, rejoinable(v)'
      PROVE  getEdgeTarget(firstSymbolOutEdge(v))' = v + 1
    <2>0. v \in at .. to - 1 /\ v # at
        OBVIOUS
    <2>1. PICK d : d = firstSymbolOutEdge(v)
        OBVIOUS
    <2>2. d = firstSymbolOutEdge(v)' /\ rejoinable(v)
        BY <1>1, <2>0, <2>1, FirstElsewhere DEF rejoinable, NoEdge
    <2>3. d \in Edges
        BY <2>1, <2>2, SymbolLink DEF rejoinable
    <2>4. getEdgeTarget(d)' = getEdgeTarget(d)
        BY <2>3, TargetKept
    <2>5. getEdgeTarget(d) = v + 1
        BY <2>0, <2>1, <2>2 DEF walkable
    <2>6. getEdgeTarget(firstSymbolOutEdge(v))' = getEdgeTarget(d)'
        BY <2>2 DEF getEdgeTarget, isExplicit
    <2> QED BY <2>4, <2>5, <2>6
<1> QED BY <1>1 DEF walkable

-----------------------------------------------------------------------------
(* The steps.                                                              *)

LEMMA AppendOrder ==
    ASSUME Inv, OrderInv, NEW s \in Strings, AppendString(s) \/ AppendStringWithSymbols(s)
    PROVE  OrderInv'
<1>1. s \in Seq(Char) /\ text \in Seq(Char) /\ Len(text) \in Nat
    BY LatticeAssumption DEF Inv, LatticeInv, LatticeTypeOK
<1>2. text' = text \o s /\ UNCHANGED <<implicitOutEdges, edges>>
    BY DEF AppendString, AppendStringWithSymbols, latticeVars, implicitVars
<1>3. Len(text') \in Nat /\ Len(text) <= Len(text')
    BY <1>1, <1>2
<1>4. Links' = Links
    BY <1>2 DEF Links, Edges, getEdgeSource, getEdgeTarget, isExplicit, Implicit, Explicit
<1>5. \A v, w \in Int : <<v, w>> \in Links => v <= Len(text)
    BY <1>1, LinkFacts DEF Inv, LatticeInv, LatticeTypeOK, Vertices
<1>6. HasSinks({<<v, v + 1>> : v \in 0 .. Len(text) - 1} \cup Links)
    BY DEF OrderInv, Ordered, TextSteps
<1>7. PICK links, n, m : links = Links /\ n = Len(text) /\ m = Len(text')
    OBVIOUS
<1>8. HasSinks({<<v, v + 1>> : v \in 0 .. m - 1} \cup links)
    BY <1>1, <1>3, <1>5, <1>6, <1>7, AppendedSteps
<1>9. Ordered'
    BY <1>4, <1>7, <1>8 DEF Ordered, TextSteps
<1>10. LoopOrdered'
    <2>1. call'.op \in {"none", "symbols"}
        BY NoCallFacts DEF AppendString, AppendStringWithSymbols, Idle, NoCall
    <2> QED BY <2>1 DEF LoopOrdered
<1> QED BY <1>9, <1>10 DEF OrderInv

\* Adding nothing, with no loop of a correction in progress.
LEMMA QuietOrder ==
    ASSUME OrderInv, UNCHANGED <<text, implicitOutEdges, edges>>,
           call'.op \in {"none", "symbols"}
    PROVE  OrderInv'
<1>1. LoopOrdered'
    BY DEF LoopOrdered
<1> QED BY <1>1, SameOrder DEF OrderInv

LEMMA StutterOrder ==
    ASSUME Inv, OrderInv, UNCHANGED vars
    PROVE  OrderInv'
<1>1. UNCHANGED <<text, implicitOutEdges, edges, indexedTagMasks, call>>
    BY DEF vars, latticeVars, implicitVars
<1>2. Ordered' /\ Links' = Links
    BY <1>1, SameOrder DEF OrderInv
<1>3. /\ \A v : firstSymbolOutEdge(v)' = firstSymbolOutEdge(v) /\ rejoinable(v)' = rejoinable(v)
      /\ \A d : getEdgeTarget(d)' = getEdgeTarget(d)
    BY <1>1 DEF firstSymbolOutEdge, FirstOut, addTagMaskIndex_, With, FirstOf, Implicit, Explicit,
       NoEdge, rejoinable, getEdgeTarget, isExplicit
<1>4. LoopOrdered'
    BY <1>1, <1>2, <1>3 DEF LoopOrdered, OrderInv, Chain, walkable
<1> QED BY <1>2, <1>4 DEF OrderInv

LEMMA AnnotateOrder ==
    ASSUME Inv, OrderInv, Inv', OnlyGrow, Annotate
    PROVE  OrderInv'
<1>1. PICK from \in Vertices, to \in Vertices, a \in Annotations, score \in Scores :
          /\ notAfter(from, to)
          /\ \E sequence \in Sequences(from, to) : AddEdge(from, to, a[1], a[2], sequence, score)
    BY DEF Annotate
<1>2. PICK sequence \in Sequences(from, to) : AddEdge(from, to, a[1], a[2], sequence, score)
    BY <1>1
<1>3. /\ addEdge(from, to, a[1], a[2], sequence, score, FALSE)
      /\ UNCHANGED <<text, call>> /\ call = NoCall
    BY <1>2 DEF AddEdge, Idle
<1>4. LatticeInv /\ LatticeInv' /\ FALSE \in BOOLEAN
    BY DEF Inv
<1>5. Additions(from, to)
    BY <1>3, <1>4, AddEdgeAdditions
<1>6. PICK after \in SUBSET Vertices :
          /\ to \in after
          /\ from \notin after
          /\ \A v \in after : v \in 0 .. Len(text) - 1 => v + 1 \in after
          /\ \A d \in Edges : getEdgeSource(d) \in after => getEdgeTarget(d) \in after
    BY <1>1 DEF notAfter
<1>7. after \in SUBSET Int
    BY VerticesAreIntegers
<1>8. \A link \in Links : link[1] \in after => link[2] \in after
    BY <1>6 DEF Links
<1>9. Ordered'
    BY <1>3, <1>4, <1>5, <1>6, <1>7, <1>8, ForwardOrder DEF OrderInv
<1> QED BY <1>3, <1>9, NoCallFacts DEF OrderInv, LoopOrdered

LEMMA PartitionOrder ==
    ASSUME Inv, OrderInv, Inv', OnlyGrow, NEW d \in Edges, NEW tags, NEW sequence, NEW score,
           AddPartitionToEdge(d, tags, sequence, score)
    PROVE  OrderInv'
<1>1. PICK from, to, item, allTags : /\ from = getEdgeSource(d) /\ to = getEdgeTarget(d)
                                    /\ addEdge(from, to, item, allTags, sequence, score, FALSE)
    BY DEF AddPartitionToEdge, AddEdge
<1>2. UNCHANGED <<text, call>> /\ call = NoCall
    BY DEF AddPartitionToEdge, AddEdge, Idle
<1>3. LatticeInv /\ LatticeInv' /\ FALSE \in BOOLEAN
    BY DEF Inv
<1>4. Additions(from, to)
    BY <1>1, <1>3, AddEdgeAdditions
<1>5. <<from, to>> \in Links
    BY <1>1 DEF Links
<1>6. Ordered'
    BY <1>2, <1>3, <1>4, <1>5, ParallelOrder DEF OrderInv
<1> QED BY <1>2, <1>6, NoCallFacts DEF OrderInv, LoopOrdered

LEMMA AddSymbolsStepOrder ==
    ASSUME Inv, OrderInv, Inv', OnlyGrow, AddSymbolsStep
    PROVE  OrderInv'
<1>1. PICK from, to, item : /\ from = call.at /\ to = call.at + 1
                           /\ addEdge(from, to, item, {Symbol}, EmptySequence, 0, FALSE)
    BY DEF AddSymbolsStep
<1>2. /\ UNCHANGED text /\ call.op = "symbols"
      /\ call' = IF call.at + 1 = call.to THEN NoCall ELSE [call EXCEPT !.at = @ + 1]
    BY DEF AddSymbolsStep
<1>3. LatticeInv /\ LatticeInv' /\ FALSE \in BOOLEAN /\ Len(text) \in Nat
    BY DEF Inv, LatticeInv, LatticeTypeOK
<1>4. Additions(from, to)
    BY <1>1, <1>3, AddEdgeAdditions
<1>5. <<from, to>> \in TextSteps
    BY <1>1, <1>2, <1>3 DEF Inv, CallOnVertices, Call, TextSteps
<1>6. Ordered'
    BY <1>2, <1>3, <1>4, <1>5, ParallelOrder DEF OrderInv
<1>7. call'.op \in {"none", "symbols"}
    BY <1>2, NoCallFacts DEF Inv, Call
<1> QED BY <1>6, <1>7 DEF OrderInv, LoopOrdered

\* correctionErase(), and the begin of correctionInsert() and correctionReplace().
LEMMA CorrectOrder ==
    ASSUME Inv, OrderInv, Inv', OnlyGrow, Correct
    PROVE  OrderInv'
<1>0. LatticeInv /\ LatticeInv' /\ Len(text) \in Nat
    BY DEF Inv, LatticeInv, LatticeTypeOK
<1>1. PICK from \in 0 .. Len(text), to \in 0 .. Len(text) :
          /\ from <= to
          /\ \/ CorrectionErase(from, to)
             \/ \E s \in Corrections :
                  \/ from = to /\ rejoinable(to) /\ CorrectionInsert(from, s)
                  \/ /\ rejoinable(to) \/ Len(s) <= to - from
                     /\ walkable(from, to)
                     /\ CorrectionReplace(from, to, s)
    BY DEF Correct
<1>2. from \in Int /\ to \in Int /\ 0 <= from /\ to <= Len(text)
    BY <1>0
<1>3. CASE CorrectionErase(from, to)
    <2>1. UNCHANGED <<text, call>> /\ call = NoCall /\ from < to /\ bridgeErased(from, to)
        BY <1>1, <1>2, <1>3 DEF CorrectionErase, Idle
    <2>2. Ordered'
        BY <1>2, <2>1, BridgeOrder DEF OrderInv
    <2> QED BY <2>1, <2>2, NoCallFacts DEF OrderInv, LoopOrdered
<1>4. ASSUME NEW s \in Corrections, from = to /\ rejoinable(to) /\ CorrectionInsert(from, s)
      PROVE  OrderInv'
    <2>1. /\ UNCHANGED <<text, implicitOutEdges, edges, indexedTagMasks>>
          /\ call' = [op |-> "insert", here |-> from, at |-> from, to |-> 0, rest |-> s,
                      whole |-> <<>>]
        BY <1>4 DEF CorrectionInsert, NoCall, latticeVars, implicitVars
    <2>2. Ordered'
        BY <2>1, SameOrder DEF OrderInv
    <2>3. rejoinable(from)'
        BY <1>0, <1>4, <2>1, SameSymbolIndex, SameFirst
    <2>4. Chain({}, from, from)'
        BY DEF Chain
    <2>5. LoopOrdered'
        <3>1. call'.op = "insert" /\ call'.here = from /\ call'.at = from
            BY <2>1
        <3> QED BY <2>3, <2>4, <3>1 DEF LoopOrdered, Chain, rejoinable
    <2> QED BY <2>2, <2>5 DEF OrderInv
<1>5. ASSUME NEW s \in Corrections, rejoinable(to) \/ Len(s) <= to - from,
             walkable(from, to), CorrectionReplace(from, to, s)
      PROVE  OrderInv'
    <2>1. /\ UNCHANGED <<text, implicitOutEdges, edges, indexedTagMasks>>
          /\ call' = [op |-> "replace", here |-> from, at |-> from, to |-> to, rest |-> s,
                      whole |-> s]
        BY <1>5 DEF CorrectionReplace, NoCall, latticeVars, implicitVars
    <2>2. Ordered'
        BY <2>1, SameOrder DEF OrderInv
    <2>3. walkable(from, to)'
        BY <1>0, <1>2, <1>5, <2>1, SameSymbolIndex, SameWalk
    <2>4. rejoinable(to)' \/ Len(s) <= to - from
        BY <1>0, <1>5, <2>1, SameSymbolIndex, SameFirst
    <2>5. LoopOrdered'
        <3>1. /\ call'.op = "replace" /\ call'.at = from /\ call'.to = to /\ call'.rest = s
            BY <2>1
        <3>2. walkable(call.at, call.to)'
            BY <2>3, <3>1 DEF walkable
        <3>3. rejoinable(call.to)' \/ Len(call'.rest) <= call'.to - call'.at
            BY <2>4, <3>1 DEF rejoinable
        <3> QED BY <1>1, <1>2, <2>1, <3>1, <3>2, <3>3 DEF LoopOrdered
    <2> QED BY <2>2, <2>5 DEF OrderInv
<1> QED BY <1>1, <1>3, <1>4, <1>5

\* An edge to a fresh loose vertex is always inserted, into the graph.
LEMMA LooseInsertion ==
    ASSUME LatticeInv, NEW at, NEW to \in Int, to < -nLooseVertices, NEW item,
           addEdge(at, to, item, {Symbol}, EmptySequence, 0, FALSE)
    PROVE  /\ Additions(at, to)
           /\ UNCHANGED implicitOutEdges
           /\ SymbolIndex' \subseteq SymbolIndex \cup {Len(edges) + 1}
<1> DEFINE tags == inheritedTags({Symbol}, EmptySequence)
           key  == <<at, to, item>>
           hit  == isoplanarEdge(key, tags)
<1>0. nLooseVertices \in Nat /\ Len(text) \in Nat
    BY DEF LatticeInv, LatticeTypeOK
<1>1. hit = NoEdge
    <2>1. SUFFICES ASSUME hit # NoEdge PROVE FALSE
        OBVIOUS
    <2>2. PICK i \in DOMAIN registered(key) : hit = registered(key)[i]
        BY <2>1, IsoplanarHit DEF LatticeInv
    <2> HIDE DEF hit
    <2>3. /\ hit \in EdgeDescriptor /\ to = getEdgeTarget(hit)
          /\ isExplicit(hit) => hit.at \in DOMAIN edges
        BY <2>2, RegisteredFacts DEF LatticeInv
    <2>4. CASE isExplicit(hit)
        <3>1. edges[hit.at].to \in Vertices
            BY <2>3, <2>4 DEF LatticeInv, WithinText
        <3> QED BY <1>0, <2>3, <2>4, <3>1 DEF getEdgeTarget, Vertices
    <2>5. CASE ~isExplicit(hit)
        BY <1>0, <2>3, <2>5 DEF getEdgeTarget, EdgeDescriptor
    <2> QED BY <2>4, <2>5
<1>2. \/ /\ \E looked \in BOOLEAN : indexedTagMasks' = indexAfterLookUp(looked)
         /\ UNCHANGED <<implicitVars, edges>>
      \/ InsertEdge(at, to, item, tags, EmptySequence, 0, implicitOutEdges, FALSE)
    <2>1. \/ /\ indexedTagMasks' = indexAfterLookUp(FALSE \/ (forwards(at, to) /\ (FALSE \/ FALSE)))
             /\ UNCHANGED <<implicitVars, edges>>
          \/ InsertEdge(at, to, item, tags, EmptySequence, 0, implicitOutEdges, FALSE)
        <3>1. (FALSE \/ (hit # NoEdge /\ isRange(EmptySequence))) = FALSE
            BY <1>1
        <3> QED BY <1>1, <3>1 DEF addEdge
    <2> QED BY <2>1 DEF forwards
<1> HIDE DEF tags
<1>3. CASE /\ \E looked \in BOOLEAN : indexedTagMasks' = indexAfterLookUp(looked)
           /\ UNCHANGED <<implicitVars, edges>>
    <2>1. SymbolIndex' = SymbolIndex
        BY <1>3, IndexLookedUp
    <2> QED BY <1>3, <2>1 DEF Additions, implicitVars
<1>4. CASE InsertEdge(at, to, item, tags, EmptySequence, 0, implicitOutEdges, FALSE)
    <2>1. ~InsertImplicitEdge(at, to, item, tags, implicitOutEdges)
        <3>1. to < 0
            BY <1>0
        <3>2. ~becomesImplicit(at, to, tags, implicitOutEdges)
            BY <3>1 DEF becomesImplicit, isLooseVertex
        <3> QED BY <3>2 DEF InsertImplicitEdge
    <2>2. InsertExplicitEdge(at, to, item, tags, EmptySequence, 0, implicitOutEdges, FALSE)
        BY <1>4, <2>1 DEF InsertEdge
    <2>3. implicitOutEdges \subseteq implicitOutEdges
          /\ implicitOutEdges \ implicitOutEdges \subseteq {at} /\ FALSE \in BOOLEAN
        OBVIOUS
    <2> QED BY <2>2, <2>3, ExplicitAdditions
<1> QED BY <1>2, <1>3, <1>4

\* The chain of an insertion grows by a loose vertex.
LEMMA CorrectionInsertStepOrder ==
    ASSUME Inv, OrderInv, Inv', OnlyGrow, CorrectionInsertStep
    PROVE  OrderInv'
<1>0. LatticeInv /\ LatticeInv' /\ nLooseVertices \in Nat /\ Len(text) \in Nat
    BY DEF Inv, LatticeInv, LatticeTypeOK
<1>1. PICK at, here, to, item :
          /\ at = call.at /\ here = call.here /\ to = -(nLooseVertices + 1)
          /\ addEdge(at, to, item, {Symbol}, EmptySequence, 0, FALSE)
    BY DEF CorrectionInsertStep
<1>2. UNCHANGED text /\ call.op = "insert" /\ call \in Call
    BY DEF CorrectionInsertStep, Inv
<1>3. call'.op = "insert" /\ call'.here = here /\ call'.at = to
    BY <1>1, <1>2 DEF CorrectionInsertStep, Call
<1>4. /\ at \in Vertices /\ here \in Vertices /\ Vertices \subseteq Int
      /\ to \in Int /\ to < -nLooseVertices /\ to < 0 /\ to \notin Vertices
    BY <1>0, <1>1, <1>2, VerticesAreIntegers DEF Inv, CallOnVertices, Vertices
<1>5. /\ Additions(at, to)
      /\ UNCHANGED implicitOutEdges
      /\ SymbolIndex' \subseteq SymbolIndex \cup {Len(edges) + 1}
    BY <1>0, <1>1, <1>4, LooseInsertion
<1>6. Ordered'
    <2>1. \A link \in Links : link[1] \in {to} => link[2] \in {to}
        BY <1>0, <1>4, LinkFacts
    <2>2. \A v \in {to} : v \in 0 .. Len(text) - 1 => v + 1 \in {to}
        BY <1>4
    <2>3. at \notin {to} /\ {to} \in SUBSET Int /\ to \in {to}
        BY <1>4
    <2> QED BY <1>0, <1>2, <1>5, <2>1, <2>2, <2>3, ForwardOrder DEF OrderInv
<1>7. rejoinable(here)
    BY <1>1, <1>2 DEF OrderInv, LoopOrdered
<1>8. PICK chain \in SUBSET Int : Chain(chain, here, at)
    BY <1>1, <1>2 DEF OrderInv, LoopOrdered
<1>9. PICK d : d = firstSymbolOutEdge(here)
    OBVIOUS
<1>10. firstSymbolOutEdge(here)' = d /\ rejoinable(here)'
    BY <1>0, <1>5, <1>7, <1>9, FirstStays DEF rejoinable, NoEdge, Additions
<1>11. getEdgeTarget(d)' = getEdgeTarget(d) /\ getEdgeTarget(d) \in Vertices
    <2>1. d \in Edges
        BY <1>0, <1>7, <1>9, SymbolLink DEF rejoinable
    <2> QED BY <1>0, <2>1, TargetKept, DescriptorFields DEF LatticeInv
<1>12. Links' \subseteq Links \cup {<<at, to>>}
    BY <1>0, <1>5, LinksOfAddition
<1> DEFINE longer == chain \cup {to}
<1>13. longer \in SUBSET Int
    BY <1>4
<1>14. \A v \in longer : v < 0
    BY <1>4, <1>8 DEF Chain
<1>15. \A link \in Links' : link[2] \in longer => link[1] \in longer \cup {here}
    <2>1. ASSUME NEW link \in Links, link[2] \in longer
          PROVE  link[1] \in longer \cup {here}
        <3>1. link[2] # to
            BY <1>0, <1>4, LinkFacts
        <3> QED BY <1>8, <2>1, <3>1 DEF Chain
    <2>2. at \in longer \cup {here}
        BY <1>8 DEF Chain
    <2> QED BY <1>12, <2>1, <2>2
<1>16. getEdgeTarget(firstSymbolOutEdge(here))' \notin longer
    <2>1. getEdgeTarget(d) \notin longer
        BY <1>4, <1>8, <1>9, <1>11 DEF Chain
    <2>2. getEdgeTarget(firstSymbolOutEdge(here))' = getEdgeTarget(d)'
        BY <1>10 DEF getEdgeTarget, isExplicit
    <2> QED BY <1>11, <2>1, <2>2
<1>17. LoopOrdered'
    <2> HIDE DEF longer
    <2>1. to \in longer \cup {here}
        BY DEF longer
    <2>2. Chain(longer, here, to)'
        BY <1>14, <1>15, <1>16, <2>1 DEF Chain
    <2> QED BY <1>3, <1>10, <1>13, <2>2 DEF LoopOrdered, Chain, rejoinable
<1> QED BY <1>6, <1>17 DEF OrderInv

\* An insertion is rejoined where the text goes on.
LEMMA CorrectionInsertJoinOrder ==
    ASSUME Inv, OrderInv, Inv', OnlyGrow, CorrectionInsertJoin
    PROVE  OrderInv'
<1>0. LatticeInv /\ LatticeInv' /\ TRUE \in BOOLEAN
    BY DEF Inv
<1>1. PICK at, here, nextEdge :
          at = call.at /\ here = call.here /\ nextEdge = firstSymbolOutEdge(here)
    OBVIOUS
<1>2. /\ call.op = "insert" /\ call' = NoCall /\ UNCHANGED text
      /\ \/ OnlyLookedUp
         \/ addEdge(at, getEdgeTarget(nextEdge), getEdgeAnnotationItem(nextEdge), {Symbol},
                    EmptySequence, 0, TRUE)
    BY <1>1 DEF CorrectionInsertJoin, vertexBehind
<1>3. /\ here \in Int /\ rejoinable(here)
      /\ \E chain \in SUBSET Int : Chain(chain, here, at)
    BY <1>1, <1>2, VerticesAreIntegers DEF OrderInv, LoopOrdered, Inv, CallOnVertices
<1>4. PICK chain \in SUBSET Int : Chain(chain, here, at)
    BY <1>3
<1>5. CASE OnlyLookedUp
    BY <1>2, <1>5, NoCallFacts, QuietOrder DEF OnlyLookedUp, implicitVars
<1>6. CASE addEdge(at, getEdgeTarget(nextEdge), getEdgeAnnotationItem(nextEdge), {Symbol},
                   EmptySequence, 0, TRUE)
    <2>1. PICK target, item : target = getEdgeTarget(nextEdge)
                             /\ addEdge(at, target, item, {Symbol}, EmptySequence, 0, TRUE)
        BY <1>6
    <2>2. Additions(at, target)
        BY <1>0, <2>1, AddEdgeAdditions
    <2>3. <<here, target>> \in Links
        BY <1>0, <1>1, <1>3, <2>1, SymbolLink DEF rejoinable
    <2>4. PICK old : old = TextSteps \cup Links
        OBVIOUS
    <2>5. PICK new : new = TextSteps' \cup Links'
        OBVIOUS
    <2>6. \A v, w : <<v, w>> \in old /\ w \in chain => v \in chain \cup {here}
        <3>1. ASSUME NEW v, NEW w, <<v, w>> \in TextSteps, w \in chain
              PROVE  FALSE
            <4>1. w >= 0
                BY <3>1 DEF TextSteps
            <4>2. w < 0 /\ w \in Int
                BY <1>4, <3>1 DEF Chain
            <4> QED BY <4>1, <4>2
        <3>2. ASSUME NEW v, NEW w, <<v, w>> \in Links, w \in chain
              PROVE  v \in chain \cup {here}
            BY <1>4, <3>2 DEF Chain
        <3> QED BY <2>4, <3>1, <3>2
    <2>7. target \notin chain /\ at \in chain \cup {here}
        BY <1>1, <1>4, <2>1 DEF Chain
    <2>8. HasSinks(old \cup {<<at, target>>})
        BY <1>3, <2>3, <2>4, <2>6, <2>7, DetourStep DEF OrderInv, Ordered
    <2>9. new \subseteq old \cup {<<at, target>>}
        BY <1>0, <1>2, <2>2, <2>4, <2>5, LinksOfAddition DEF TextSteps
    <2>10. Ordered'
        BY <2>5, <2>8, <2>9, FewerSteps DEF Ordered
    <2> QED BY <1>2, <2>10, NoCallFacts DEF OrderInv, LoopOrdered
<1> QED BY <1>2, <1>5, <1>6

\* A replacement goes on by one character, next to the edge it replaces.
LEMMA CorrectionReplaceStepOrder ==
    ASSUME Inv, OrderInv, Inv', OnlyGrow, CorrectionReplaceStep
    PROVE  OrderInv'
<1>0. LatticeInv /\ LatticeInv' /\ TRUE \in BOOLEAN
    BY DEF Inv
<1>1. PICK at, to, rest, edge, target :
          /\ at = call.at /\ to = call.to /\ rest = call.rest
          /\ edge = firstSymbolOutEdge(at) /\ target = getEdgeTarget(edge)
    OBVIOUS
<1>2. /\ call.op = "replace" /\ call \in Call /\ UNCHANGED text
      /\ rest # <<>> /\ at # to /\ edge # NoEdge
      /\ \/ OnlyLookedUp
         \/ \E item : addEdge(at, target, item, {Symbol}, EmptySequence, 0, TRUE)
      /\ call' = [call EXCEPT !.at = target, !.rest = Tail(rest)]
    BY <1>1 DEF CorrectionReplaceStep, Inv
<1>3. /\ at \in Int /\ to \in Int /\ rest \in Seq(Char)
      /\ call'.op = "replace" /\ call'.at = target /\ call'.to = to /\ call'.rest = Tail(rest)
    BY <1>1, <1>2 DEF Call
<1>4. /\ 0 <= at /\ at <= to /\ to <= Len(text) /\ walkable(at, to)
      /\ rejoinable(to) \/ Len(rest) <= to - at
    BY <1>1, <1>2 DEF OrderInv, LoopOrdered, walkable, rejoinable
<1>5. target = at + 1 /\ at + 1 <= to
    <2>1. at \in at .. to - 1
        BY <1>2, <1>3, <1>4
    <2> QED BY <1>1, <1>2, <1>3, <1>4, <2>1 DEF walkable, rejoinable
<1>6. /\ Ordered'
      /\ walkable(at + 1, to)'
      /\ rejoinable(to)' = rejoinable(to)
    <2>1. CASE OnlyLookedUp
        <3>1. UNCHANGED <<text, implicitOutEdges, edges>> /\ SymbolIndex' = SymbolIndex
            BY <1>0, <1>2, <2>1, IndexLookedUp DEF OnlyLookedUp, implicitVars
        <3>2. walkable(at + 1, to)
            BY <1>3, <1>4 DEF walkable
        <3>3. walkable(at + 1, to)'
            BY <1>0, <1>3, <3>1, <3>2, SameWalk
        <3> QED BY <1>0, <3>1, <3>3, SameOrder, SameFirst DEF OrderInv
    <2>2. CASE \E item : addEdge(at, target, item, {Symbol}, EmptySequence, 0, TRUE)
        <3>1. Additions(at, target)
            BY <1>0, <2>2, AddEdgeAdditions
        <3>2. <<at, target>> \in Links
            BY <1>0, <1>1, <1>2, SymbolLink
        <3>3. Ordered'
            BY <1>0, <1>2, <3>1, <3>2, ParallelOrder DEF OrderInv
        <3>4. walkable(at + 1, to)'
            BY <1>0, <1>3, <1>4, <3>1, WalkOn
        <3>5. firstSymbolOutEdge(to)' = firstSymbolOutEdge(to)
            BY <1>0, <1>2, <3>1, FirstElsewhere
        <3> QED BY <3>3, <3>4, <3>5 DEF rejoinable, NoEdge
    <2> QED BY <1>2, <2>1, <2>2
<1>7. LoopOrdered'
    <2>1. Len(Tail(rest)) = Len(rest) - 1 /\ Len(rest) \in Nat
        BY <1>2, <1>3
    <2>2. walkable(call.at, call.to)'
        BY <1>3, <1>5, <1>6 DEF walkable
    <2>3. rejoinable(call.to)' \/ Len(call'.rest) <= call'.to - call'.at
        <3>1. rejoinable(call.to)' = rejoinable(to)'
            BY <1>3 DEF rejoinable
        <3> QED BY <1>3, <1>4, <1>5, <1>6, <2>1, <3>1
    <2> QED BY <1>2, <1>3, <1>4, <1>5, <2>2, <2>3 DEF LoopOrdered
<1> QED BY <1>6, <1>7 DEF OrderInv

\* The ends of a replacement.
LEMMA CorrectionReplaceEndOrder ==
    ASSUME Inv, OrderInv, Inv', OnlyGrow,
           CorrectionReplaceFails \/ CorrectionReplaceInserts \/ CorrectionReplaceErases
    PROVE  OrderInv'
<1>0. LatticeInv /\ LatticeInv'
    BY DEF Inv
<1>1. PICK at, to, whole : at = call.at /\ to = call.to /\ whole = call.whole
    OBVIOUS
<1>2. call.op = "replace" /\ call \in Call /\ UNCHANGED text
    BY DEF CorrectionReplaceFails, CorrectionReplaceInserts, CorrectionReplaceErases, Inv
<1>3. /\ at \in Int /\ to \in Int /\ 0 <= at /\ at <= to /\ to <= Len(text)
      /\ rejoinable(to) \/ Len(call.rest) <= to - at
    BY <1>1, <1>2 DEF OrderInv, LoopOrdered, rejoinable, Call
<1>4. CASE CorrectionReplaceFails
    BY <1>2, <1>4, NoCallFacts, QuietOrder DEF CorrectionReplaceFails, OnlyLookedUp, implicitVars
<1>5. CASE CorrectionReplaceInserts
    <2>1. /\ UNCHANGED <<text, implicitOutEdges, edges, indexedTagMasks>>
          /\ at = to /\ call.rest # <<>>
          /\ call' = [op |-> "insert", here |-> at, at |-> at, to |-> 0, rest |-> whole,
                      whole |-> <<>>]
        BY <1>1, <1>5 DEF CorrectionReplaceInserts, NoCall, latticeVars, implicitVars
    <2>2. Ordered'
        BY <2>1, SameOrder DEF OrderInv
    <2>3. rejoinable(at)
        <3>1. call.rest \in Seq(Char)
            BY <1>2 DEF Call
        <3>2. Len(call.rest) > 0
            BY <2>1, <3>1
        <3> QED BY <1>3, <2>1, <3>2
    <2>4. rejoinable(at)'
        BY <1>0, <2>1, <2>3, SameSymbolIndex, SameFirst
    <2>5. Chain({}, at, at)'
        BY DEF Chain
    <2>6. call'.op = "insert" /\ call'.here = at /\ call'.at = at
        BY <2>1
    <2>7. LoopOrdered'
        <3>1. rejoinable(call.here)'
            BY <2>4, <2>6 DEF rejoinable
        <3>2. {} \in SUBSET Int /\ Chain({}, call.here, call.at)'
            BY <2>5, <2>6 DEF Chain
        <3> QED BY <2>6, <3>1, <3>2 DEF LoopOrdered
    <2> QED BY <2>2, <2>7 DEF OrderInv
<1>6. CASE CorrectionReplaceErases
    <2>1. call' = NoCall /\ IF at = to THEN UNCHANGED latticeVars ELSE bridgeErased(at, to)
        BY <1>1, <1>6 DEF CorrectionReplaceErases
    <2>2. CASE at = to
        BY <1>2, <2>1, <2>2, NoCallFacts, QuietOrder DEF latticeVars, implicitVars
    <2>3. CASE at # to
        <3>1. at < to /\ bridgeErased(at, to)
            BY <1>3, <2>1, <2>3
        <3>2. Ordered'
            BY <1>2, <1>3, <3>1, BridgeOrder DEF OrderInv
        <3> QED BY <2>1, <3>2, NoCallFacts DEF OrderInv, LoopOrdered
    <2> QED BY <2>2, <2>3
<1> QED BY <1>4, <1>5, <1>6

\* Every step keeps the order.
LEMMA NextKeepsOrder ==
    ASSUME Inv, OrderInv, [Next]_vars
    PROVE  OrderInv'
<1>0. Inv' /\ OnlyGrow
    BY NextPreserves
<1>1. CASE UNCHANGED vars
    BY <1>1, StutterOrder
<1>2. CASE LoopStep
    BY <1>0, <1>2, AddSymbolsStepOrder, CorrectionInsertStepOrder, CorrectionInsertJoinOrder,
       CorrectionReplaceStepOrder, CorrectionReplaceEndOrder DEF LoopStep
<1>3. CASE AppendText
    BY <1>3, AppendOrder DEF AppendText
<1>4. CASE (\E start, end \in 0 .. Len(text) : AddSymbols(start, end)) \/ AddLooseVertex
           \/ \E mask \in Masks : QueryEdges(mask)
    <2>1. UNCHANGED <<text, implicitOutEdges, edges>>
        BY <1>4 DEF AddSymbols, AddLooseVertex, QueryEdges, latticeVars, implicitVars
    <2>2. call'.op \in {"none", "symbols"}
        BY <1>4, NoCallFacts DEF AddSymbols, AddLooseVertex, QueryEdges, Idle, NoCall
    <2> QED BY <2>1, <2>2, QuietOrder
<1>5. CASE Annotate
    BY <1>0, <1>5, AnnotateOrder
<1>6. CASE Reannotate
    <2>1. PICK d \in Edges :
              \E sequence \in Sequences(getEdgeSource(d), getEdgeTarget(d)),
                 tags \in PartitionTags, score \in Scores :
                  AddPartitionToEdge(d, tags, sequence, score)
        BY <1>6 DEF Reannotate
    <2>2. PICK sequence, tags, score : AddPartitionToEdge(d, tags, sequence, score)
        BY <2>1
    <2> QED BY <1>0, <2>2, PartitionOrder
<1>7. CASE \E d \in Edges : Discard(d)
    BY <1>0, <1>7, PartitionOrder DEF Discard
<1>8. CASE Correct
    BY <1>0, <1>8, CorrectOrder
<1> QED BY <1>1, <1>2, <1>3, <1>4, <1>5, <1>6, <1>7, <1>8 DEF Next

-----------------------------------------------------------------------------
(* The theorems.                                                           *)

\* In the empty lattice one cannot take a step.
LEMMA InitOrder == Init => OrderInv
<1> SUFFICES ASSUME Init PROVE OrderInv
    OBVIOUS
<1>1. Links = {} /\ TextSteps = {}
    BY DEF Init, Links, Edges, TextSteps
<1>2. Ordered
    BY <1>1 DEF Ordered, HasSinks
<1>3. LoopOrdered
    BY NoCallFacts DEF Init, LoopOrdered
<1> QED BY <1>2, <1>3 DEF OrderInv

\* The edges and the text together never lead back, and every loop of a correction
\* walks forwards or hangs loose vertices on the place it started from.
THEOREM OrderInvariance == Spec => []OrderInv
<1>1. Inv /\ OrderInv /\ [Next]_vars => OrderInv'
    BY NextKeepsOrder
<1> QED BY InitOrder, Invariance, <1>1, PTL DEF Spec

\* The graph of the lattice is a dag whatever is annotated, corrected and appended in
\* whatever order: VertexIterator can sort it.
THEOREM LatticeIsAcyclic == Spec => []Acyclic
<1>1. ASSUME OrderInv PROVE Acyclic
    <2>1. ASSUME NEW S \in SUBSET Vertices, S # {}
          PROVE  \E v \in S : \A d \in Edges : getEdgeSource(d) = v => getEdgeTarget(d) \notin S
        <3>1. S \in SUBSET Int
            BY VerticesAreIntegers
        <3>2. PICK v \in S : \A w \in S : <<v, w>> \notin TextSteps \cup Links
            BY <1>1, <2>1, <3>1 DEF OrderInv, Ordered, HasSinks
        <3> QED BY <3>2 DEF Links
    <2> QED BY <2>1 DEF Acyclic
<1> QED BY OrderInvariance, <1>1, PTL
=============================================================================
