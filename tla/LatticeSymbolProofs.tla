------------------------ MODULE LatticeSymbolProofs ------------------------
(***************************************************************************)
(* Proofs about the symbols of the lattice, which are bits of a vertex     *)
(* until an annotation turns them into edges (lattice.cpp:233-406): that   *)
(* they can always be found again, that stored ranges of them can be       *)
(* walked again, and that those with alternatives are visible.             *)
(***************************************************************************)
EXTENDS LatticeProofs

\* Where there are implicit symbols, the symbol mask has been indexed: the
\* first of them was looked up when it was added.
SymbolMaskReady == implicitOutEdges # {} => symbolMask \in DOMAIN indexedTagMasks

\* The range of symbols that a sequence stands for, if any, can be walked.
Walkable(sequence) ==
    sequence.links = <<>> => \A v \in sequence.begin .. sequence.end - 1 : symbolLeaves(v)

SymbolInv == SymbolMaskReady /\ RangesWalkable /\ AlternativesVisible

SymbolsKept == \A v \in Int : symbolLeaves(v) => symbolLeaves(v)'

\* The index of the symbol mask, once made, only grows.
SymbolIndexGrows(index) ==
    symbolMask \in DOMAIN indexedTagMasks =>
        symbolMask \in DOMAIN index /\ indexedTagMasks[symbolMask] \subseteq index[symbolMask]

-----------------------------------------------------------------------------
(* Sequences of symbols                                                    *)

\* Edges that follow each other from symbol to symbol are at consecutive vertices.
LEMMA SymbolPath ==
    ASSUME NEW n \in Nat, NEW p \in [1 .. n -> EdgeDescriptor],
           \A i \in 1 .. n : ~isExplicit(p[i]),
           \A i \in 1 .. n - 1 : getEdgeTarget(p[i]) = getEdgeSource(p[i + 1])
    PROVE  \A i \in 1 .. n : p[i].at = p[1].at + i - 1
<1> DEFINE wrong == {i \in 1 .. n : p[i].at # p[1].at + i - 1}
<1>1. \A i \in 1 .. n : p[i].at \in Nat
    BY DEF EdgeDescriptor
<1>2. SUFFICES ASSUME wrong # {} PROVE FALSE
    OBVIOUS
<1>3. wrong \in SUBSET Nat
    OBVIOUS
<1>3a. PICK m \in wrong : \A i \in wrong : m <= i
    <2> HIDE DEF wrong
    <2> QED BY <1>2, <1>3, LeastNatural
<1>4. m # 1
    BY <1>1
<1>5. m - 1 \in 1 .. n - 1 /\ m - 1 \notin wrong
    BY <1>3a, <1>4
<1>6. p[m - 1].at = p[1].at + (m - 1) - 1
    BY <1>5
<1>7. p[m].at = p[m - 1].at + 1
    <2>1. getEdgeTarget(p[m - 1]) = getEdgeSource(p[(m - 1) + 1])
        BY <1>5
    <2>2. (m - 1) + 1 = m
        OBVIOUS
    <2> QED BY <1>5, <2>1, <2>2 DEF getEdgeTarget, getEdgeSource
<1> QED BY <1>1, <1>3a, <1>5, <1>6, <1>7

\* EdgeSequence::Builder makes a range only of symbols that are there.
LEMMA BuiltRangesWalkable ==
    ASSUME LatticeInv, NEW from, NEW to, NEW sequence \in Sequences(from, to)
    PROVE  Walkable(sequence)
<1>1. CASE sequence = EmptySequence
    BY <1>1 DEF Walkable, EmptySequence
<1>2. ASSUME NEW n \in 1 .. MaxPath, NEW p \in [1 .. n -> Edges], Path(p), sequence = build(p)
      PROVE  Walkable(sequence)
    <2>0. n \in Nat /\ n >= 1
        BY LatticeAssumption
    <2>1. \A i \in 1 .. n : p[i] \in EdgeDescriptor
        BY DescriptorFields DEF LatticeInv
    <2>2. p \in Seq(EdgeDescriptor) /\ Len(p) = n /\ DOMAIN p = 1 .. n
        BY <2>0, <2>1
    <2>3. CASE \A i \in 1 .. n : isEdgeHidden(p[i])
        <3>1. \A i \in 1 .. n : ~isExplicit(p[i]) /\ p[i].at \in implicitOutEdges
            <4>1. \A i \in 1 .. n : ~isExplicit(p[i])
                BY <2>3 DEF isEdgeHidden
            <4>2. ASSUME NEW i \in 1 .. n
                  PROVE  p[i].at \in implicitOutEdges
                <5>1. p[i] \in Edges /\ ~isExplicit(p[i])
                    BY <4>1
                <5> QED BY <5>1 DEF Edges, isExplicit, Implicit, Explicit
            <4> QED BY <4>1, <4>2
        <3>2. \A i \in 1 .. n : p[i].at = p[1].at + i - 1
            BY <2>0, <2>1, <2>2, <3>1, <1>2, SymbolPath DEF Path
        <3>3. sequence.begin = p[1].at /\ sequence.end = p[n].at + 1
            BY <1>2, <2>0, <2>2, <2>3, <3>1 DEF build, getEdgeSource, getEdgeTarget
        <3>4. ASSUME NEW v \in sequence.begin .. sequence.end - 1
              PROVE  symbolLeaves(v)
            <4>1. p[1].at \in Nat /\ p[n].at = p[1].at + n - 1
                BY <2>0, <2>1, <3>2 DEF EdgeDescriptor
            <4>2. v \in p[1].at .. p[1].at + n - 1
                BY <3>3, <4>1
            <4>3. v - p[1].at + 1 \in 1 .. n
                BY <2>0, <4>1, <4>2
            <4>4. p[v - p[1].at + 1].at = v
                BY <2>0, <3>2, <4>1, <4>2, <4>3
            <4> QED BY <3>1, <4>3, <4>4 DEF symbolLeaves
        <3> QED BY <3>4 DEF Walkable
    <2>4. CASE ~\A i \in 1 .. n : isEdgeHidden(p[i])
        <3>1. sequence.links = p
            BY <1>2, <2>2, <2>4 DEF build
        <3> QED BY <2>0, <2>2, <3>1 DEF Walkable
    <2> QED BY <2>3, <2>4
<1> QED BY <1>1, <1>2 DEF Sequences

-----------------------------------------------------------------------------
(* addEdge()                                                               *)

LEMMA LookUpGrows ==
    ASSUME NEW looked
    PROVE  SymbolIndexGrows(indexAfterLookUp(looked))
BY DEF SymbolIndexGrows, indexAfterLookUp, addTagMaskIndex_

\* What symbols need: the index grows, and whatever bit is cleared is replaced by an
\* edge in the index.
LEMMA LeavesKept ==
    ASSUME LatticeInv, OnlyGrow, SymbolIndexGrows(indexedTagMasks'),
           \A v \in implicitOutEdges \ implicitOutEdges' : symbolLeaves(v)'
    PROVE  SymbolsKept
<1> SUFFICES ASSUME NEW v \in Int, symbolLeaves(v)
             PROVE  symbolLeaves(v)'
    BY DEF SymbolsKept
<1>1. CASE v \in implicitOutEdges
    BY <1>1 DEF symbolLeaves
<1>2. CASE v \notin implicitOutEdges
    <2>1. symbolMask \in DOMAIN indexedTagMasks
        BY <1>2 DEF symbolLeaves
    <2>2. PICK e \in indexedTagMasks[symbolMask] : edges[e].from = v
        BY <1>2 DEF symbolLeaves
    <2>3. e \in DOMAIN edges
        BY <2>1 DEF LatticeInv, IndexSound
    <2>4. symbolMask \in DOMAIN indexedTagMasks' /\ e \in indexedTagMasks'[symbolMask]
        BY <2>1 DEF SymbolIndexGrows
    <2>5. edges'[e].from = v
        BY <2>2, <2>3 DEF OnlyGrow
    <2> QED BY <2>4, <2>5 DEF symbolLeaves
<1> QED BY <1>1, <1>2

\* A range that could be walked can be walked again.
LEMMA WalkableKept ==
    ASSUME SymbolsKept, NEW sequence \in EdgeSequence, Walkable(sequence)
    PROVE  Walkable(sequence)'
<1>1. sequence.begin \in Nat /\ sequence.end \in Nat
    BY DEF EdgeSequence
<1>2. \A v \in sequence.begin .. sequence.end - 1 : v \in Int
    BY <1>1
<1> QED BY <1>2 DEF Walkable, SymbolsKept

\* All the ranges can be walked after a step that adds partitions with one sequence.
LEMMA RangesKept ==
    ASSUME LatticeInv, RangesWalkable, SymbolsKept,
           NEW sequence \in EdgeSequence, Walkable(sequence),
           \A e \in DOMAIN edges' : \A i \in DOMAIN edges'[e].partitions :
              \/ /\ e \in DOMAIN edges /\ i \in DOMAIN edges[e].partitions
                 /\ edges'[e].partitions[i] = edges[e].partitions[i]
              \/ edges'[e].partitions[i].sequence = sequence
    PROVE  RangesWalkable'
<1>1. ASSUME NEW e \in DOMAIN edges', NEW i \in DOMAIN edges'[e].partitions
      PROVE  /\ edges'[e].partitions[i].sequence.links = <<>> =>
                    \A v \in edges'[e].partitions[i].sequence.begin ..
                                edges'[e].partitions[i].sequence.end - 1 : symbolLeaves(v)'
    <2>1. PICK s : s = edges'[e].partitions[i].sequence
        OBVIOUS
    <2>2. CASE /\ e \in DOMAIN edges /\ i \in DOMAIN edges[e].partitions
               /\ edges'[e].partitions[i] = edges[e].partitions[i]
        <3>1. edges[e].partitions \in Seq(Partition)
            BY <2>2, EdgeFields DEF LatticeInv
        <3>2. edges[e].partitions[i] \in Partition
            BY <2>2, <3>1
        <3>3. s \in EdgeSequence
            BY <2>1, <2>2, <3>2 DEF Partition
        <3>4. s = edges[e].partitions[i].sequence
            BY <2>1, <2>2
        <3>5. Walkable(s)
            BY <2>2, <3>4 DEF RangesWalkable, Walkable
        <3>6. Walkable(s)'
            BY <3>3, <3>5, WalkableKept
        <3> QED BY <2>1, <3>6 DEF Walkable
    <2>3. CASE edges'[e].partitions[i].sequence = sequence
        <3>1. Walkable(sequence)'
            BY WalkableKept
        <3> QED BY <2>3, <3>1 DEF Walkable
    <2> QED BY <2>2, <2>3
<1> QED BY <1>1 DEF RangesWalkable

\* Indexing a mask, or a throw of addEdge() after it.
LEMMA LookUpKeepsSymbols ==
    ASSUME LatticeInv, SymbolInv, OnlyGrow, NEW index, SymbolIndexGrows(index),
           indexedTagMasks' = index,
           UNCHANGED <<implicitVars, edges>>
    PROVE  SymbolInv' /\ SymbolsKept
<1> USE DEF SymbolInv, implicitVars
<1>1. SymbolsKept
    BY LeavesKept DEF SymbolIndexGrows
<1>2. SymbolMaskReady'
    BY DEF SymbolMaskReady, SymbolIndexGrows
<1>3. AlternativesVisible'
    BY DEF AlternativesVisible
<1>4. RangesWalkable'
    <2>1. EmptySequence \in EdgeSequence /\ Walkable(EmptySequence)
        BY PlainArguments DEF Walkable, EmptySequence
    <2> QED BY <1>1, <2>1, RangesKept
<1> QED BY <1>1, <1>2, <1>3, <1>4

\* Merging into an explicit edge.
LEMMA MergeKeepsSymbols ==
    ASSUME LatticeInv, SymbolInv, LatticeInv', OnlyGrow,
           NEW e \in DOMAIN edges, NEW tags, NEW sequence \in EdgeSequence,
           Walkable(sequence), NEW score, NEW index, SymbolIndexGrows(index),
           MergeIntoEdge(e, tags, sequence, score, index)
    PROVE  SymbolInv' /\ SymbolsKept
<1> USE DEF SymbolInv
<1>0. /\ indexedTagMasks' = index
      /\ UNCHANGED implicitVars
      /\ \A f \in DOMAIN edges' : f \in DOMAIN edges /\ (f # e => edges'[f] = edges[f])
    BY DEF MergeIntoEdge
<1>1. SymbolsKept
    BY <1>0, LeavesKept DEF implicitVars
<1>2. SymbolMaskReady'
    BY <1>0 DEF SymbolMaskReady, SymbolIndexGrows, implicitVars
<1>3. AlternativesVisible'
    <2>1. ASSUME NEW f \in DOMAIN edges', edges'[f].partitions[1].tags = {Symbol},
                 edges'[f].from \in implicitOutEdges
          PROVE  edges'[f].from \in visibleImplicitOutEdges
        <3>1. f \in DOMAIN edges /\ edges'[f].from = edges[f].from
            BY <1>0 DEF OnlyGrow
        <3>2. 1 \in DOMAIN edges[f].partitions
            <4>1. edges[f].partitions \in Seq(Partition) /\ edges[f].partitions # <<>>
                BY <3>1, EdgeFields DEF LatticeInv, PartitionTagsHeld
            <4> QED BY <4>1
        <3>3. edges'[f].partitions[1] = edges[f].partitions[1]
            BY <3>1, <3>2 DEF OnlyGrow
        <3> QED BY <2>1, <3>1, <3>3 DEF AlternativesVisible
    <2> QED BY <1>0, <2>1 DEF AlternativesVisible, implicitVars
<1>4. RangesWalkable'
    <2>1. edges \in Seq(EdgeEntry) /\ edges[e].partitions \in Seq(Partition)
        BY EdgeFields DEF LatticeInv, LatticeTypeOK
    <2>2. PICK part : /\ edges'[e].partitions = Append(edges[e].partitions, part)
                      /\ part.sequence = sequence
        <3> DEFINE allTags == mergedTags(edges[e].tags, tags)
                   part    == [tags |-> allTags, sequence |-> sequence, score |-> score]
        <3>1. edges'[e].partitions = Append(edges[e].partitions, part)
            <4>1. edges[e] \in EdgeEntry
                BY EdgeFields DEF LatticeInv
            <4> HIDE DEF allTags
            <4> QED BY <2>1, <4>1 DEF MergeIntoEdge, withPartition, EdgeEntry, allTags
        <3> QED BY <3>1
    <2>3. \A i \in DOMAIN edges'[e].partitions :
              \/ i \in DOMAIN edges[e].partitions
                 /\ edges'[e].partitions[i] = edges[e].partitions[i]
              \/ edges'[e].partitions[i].sequence = sequence
        BY <2>1, <2>2
    <2>4. \A f \in DOMAIN edges' : \A i \in DOMAIN edges'[f].partitions :
              \/ /\ f \in DOMAIN edges /\ i \in DOMAIN edges[f].partitions
                 /\ edges'[f].partitions[i] = edges[f].partitions[i]
              \/ edges'[f].partitions[i].sequence = sequence
        BY <1>0, <2>3
    <2> QED BY <1>1, <2>4, RangesKept
<1> QED BY <1>1, <1>2, <1>3, <1>4

\* A new edge with the tag symbol alone finds the symbols that leave its source:
\* an implicit one, or an edge in the index es, and makes the source visible.
LEMMA SourceRevealed ==
    ASSUME LatticeInv, NEW from, NEW to, NEW implicit,
           CountAndReveal(from, to, {Symbol}, implicit),
           \/ from \in implicit
           \/ \E e \in DOMAIN edges : /\ edges[e].partitions[1].tags = {Symbol}
                                    /\ edges[e].from = from
    PROVE  from \in visibleImplicitOutEdges'
<1> DEFINE es  == addTagMaskIndex_(symbolMask)[symbolMask]
           out == FirstOut(from, implicit, es)
<1>1. visibleImplicitOutEdges' = visibleImplicitOutEdges \cup madeVisible(from, to, implicit, es)
    BY DEF CountAndReveal
<1>2. CASE from \in implicit
    <2>1. out = Implicit(from) /\ out # NoEdge
        BY <1>2 DEF FirstOut, Implicit, NoEdge
    <2> QED BY <1>1, <2>1 DEF madeVisible
<1>3. CASE from \notin implicit
    <2>1. PICK e \in DOMAIN edges : edges[e].partitions[1].tags = {Symbol} /\ edges[e].from = from
        BY <1>3
    <2>2. GoodIndex(addTagMaskIndex_(symbolMask)) /\ symbolMask \in DOMAIN addTagMaskIndex_(symbolMask)
        BY IndexAdded, SymbolMask DEF LatticeInv
    <2>3. matches(edges[e].partitions[1].tags, symbolMask)
        BY <2>1 DEF matches, symbolMask, SingletonMask
    <2>4. e \in es /\ es \subseteq DOMAIN edges
        BY <2>2, <2>3 DEF GoodIndex
    <2> HIDE DEF es
    <2> DEFINE leaving == {f \in es : edges[f].from = from}
    <2>5. leaving \subseteq DOMAIN edges /\ leaving # {}
        BY <2>1, <2>4
    <2>6. \E f \in leaving : FirstOf(leaving) = Explicit(f)
        <3>1. leaving \in SUBSET Nat
            BY <2>5, EdgeFields DEF LatticeInv
        <3> HIDE DEF leaving
        <3>2. \E f \in leaving : \A g \in leaving : f <= g
            BY <2>5, <3>1, LeastNatural
        <3> QED BY <2>5, <3>2 DEF FirstOf
    <2>7. out = FirstOf(leaving)
        BY <1>3 DEF FirstOut
    <2>8. out # NoEdge
        <3> HIDE DEF out, leaving
        <3> QED BY <2>6, <2>7 DEF Explicit, NoEdge
    <2> QED BY <1>1, <2>8 DEF madeVisible
<1> QED BY <1>2, <1>3

\* Inserting a symbol as a bit, where the bit of an equal symbol may have been
\* cleared first.
LEMMA InsertImplicitKeepsSymbols ==
    ASSUME LatticeInv, SymbolInv, LatticeInv', OnlyGrow,
           NEW from, NEW to, NEW item, NEW tags, NEW implicit,
           implicitOutEdges \ implicit \subseteq {from}, implicit \subseteq implicitOutEdges,
           InsertImplicitEdge(from, to, item, tags, implicit)
    PROVE  SymbolInv' /\ SymbolsKept
<1> USE DEF SymbolInv
<1>1. /\ tags = {Symbol}
      /\ CountAndReveal(from, to, {Symbol}, implicit)
      /\ implicitOutEdges' = implicit \cup {from}
      /\ indexedTagMasks' = indexAfterLookUp(TRUE)
      /\ edges' = edges
    BY DEF InsertImplicitEdge, becomesImplicit
<1>2. SymbolIndexGrows(indexedTagMasks')
    BY <1>1, LookUpGrows
<1>3. SymbolsKept
    <2>1. \A v \in implicitOutEdges \ implicitOutEdges' : symbolLeaves(v)'
        BY <1>1
    <2> QED BY <1>2, <2>1, LeavesKept
<1>4. SymbolMaskReady'
    <2>1. symbolMask \in DOMAIN addTagMaskIndex_(symbolMask)
        BY IndexAdded, SymbolMask DEF LatticeInv
    <2> QED BY <1>1, <2>1 DEF SymbolMaskReady, indexAfterLookUp
<1>5. AlternativesVisible'
    <2>1. ASSUME NEW e \in DOMAIN edges, edges[e].partitions[1].tags = {Symbol},
                 edges[e].from \in implicit \cup {from}
          PROVE  edges[e].from \in visibleImplicitOutEdges'
        <3>1. CASE edges[e].from = from
            BY <1>1, <2>1, <3>1, SourceRevealed
        <3>2. CASE edges[e].from # from
            <4>1. edges[e].from \in implicitOutEdges
                BY <2>1, <3>2
            <4> QED BY <1>1, <2>1, <4>1 DEF AlternativesVisible, CountAndReveal
        <3> QED BY <3>1, <3>2
    <2> QED BY <1>1, <2>1 DEF AlternativesVisible
<1>6. RangesWalkable'
    <2>1. EmptySequence \in EdgeSequence /\ Walkable(EmptySequence)
        BY PlainArguments DEF Walkable, EmptySequence
    <2> QED BY <1>1, <1>3, <2>1, RangesKept
<1> QED BY <1>3, <1>4, <1>5, <1>6

\* Inserting an edge into the graph: where a bit is cleared, the edge bears the
\* tag symbol itself.
LEMMA InsertExplicitKeepsSymbols ==
    ASSUME LatticeInv, SymbolInv, LatticeInv', OnlyGrow,
           NEW from, NEW to, NEW item, NEW tags, NEW sequence \in EdgeSequence,
           Walkable(sequence), NEW score, NEW looked \in BOOLEAN, NEW implicit,
           \/ implicit = implicitOutEdges
           \/ implicit = implicitOutEdges \ {from} /\ Symbol \in tags,
           InsertExplicitEdge(from, to, item, tags, sequence, score, implicit, looked)
    PROVE  SymbolInv' /\ SymbolsKept
<1> USE DEF SymbolInv
<1> DEFINE n     == Len(edges) + 1
           index == indexAfterLookUp(looked \/ tags = {Symbol})
<1>1. /\ CountAndReveal(from, to, tags, implicit)
      /\ implicitOutEdges' = implicit
      /\ indexedTagMasks' = indexEdge(index, n, tags)
      /\ edges' = Append(edges, [from |-> from, to |-> to, item |-> item, tags |-> tags,
                                score |-> score,
                                partitions |-> <<[tags |-> tags, sequence |-> sequence,
                                                  score |-> score]>>])
    BY DEF InsertExplicitEdge
<1>2. /\ edges \in Seq(EdgeEntry) /\ n \in Nat /\ DOMAIN edges' = DOMAIN edges \cup {n}
      /\ edges'[n].from = from /\ edges'[n].partitions[1].tags = tags
      /\ edges'[n].partitions[1].sequence = sequence /\ DOMAIN edges'[n].partitions = {1}
      /\ \A e \in DOMAIN edges : edges'[e] = edges[e]
    <2>1. edges \in Seq(EdgeEntry)
        BY DEF LatticeInv, LatticeTypeOK
    <2> QED BY <1>1, <2>1
<1>3. DOMAIN indexedTagMasks' = DOMAIN index
    BY <1>1 DEF indexEdge
<1>4. SymbolIndexGrows(indexedTagMasks')
    <2>1. SymbolIndexGrows(index)
        BY LookUpGrows
    <2>2. \A mask \in DOMAIN index : index[mask] \subseteq indexedTagMasks'[mask]
        BY <1>1 DEF indexEdge
    <2> HIDE DEF index
    <2> QED BY <1>3, <2>1, <2>2 DEF SymbolIndexGrows
<1>5. ASSUME NEW v \in implicitOutEdges \ implicitOutEdges'
      PROVE  symbolLeaves(v)'
    <2>1. v = from /\ Symbol \in tags
        BY <1>1
    <2>2. symbolMask \in DOMAIN index
        BY <1>4, <1>3 DEF SymbolMaskReady, SymbolIndexGrows
    <2>3. matches(tags, symbolMask)
        BY <2>1 DEF matches, symbolMask, SingletonMask
    <2>4. n \in indexedTagMasks'[symbolMask]
        BY <1>1, <2>2, <2>3 DEF indexEdge
    <2> QED BY <1>2, <1>3, <2>1, <2>2, <2>4 DEF symbolLeaves
<1>6. SymbolsKept
    BY <1>4, <1>5, LeavesKept
<1>7. SymbolMaskReady'
    <2>1. implicitOutEdges' \subseteq implicitOutEdges
        BY <1>1
    <2> QED BY <1>4, <2>1 DEF SymbolMaskReady, SymbolIndexGrows
<1>8. AlternativesVisible'
    <2>1. ASSUME NEW e \in DOMAIN edges', edges'[e].partitions[1].tags = {Symbol},
                 edges'[e].from \in implicit
          PROVE  edges'[e].from \in visibleImplicitOutEdges'
        <3>1. CASE e = n
            <4>1. tags = {Symbol} /\ edges'[e].from = from /\ from \in implicit
                BY <1>2, <2>1, <3>1
            <4>2. CountAndReveal(from, to, {Symbol}, implicit)
                BY <1>1, <4>1
            <4> QED BY <4>1, <4>2, SourceRevealed
        <3>2. CASE e # n
            <4>1. e \in DOMAIN edges /\ edges'[e] = edges[e] /\ edges[e].from \in implicitOutEdges
                BY <1>1, <1>2, <2>1, <3>2
            <4>2. edges[e].from \in visibleImplicitOutEdges
                BY <2>1, <4>1 DEF AlternativesVisible
            <4> QED BY <1>1, <4>1, <4>2 DEF CountAndReveal
        <3> QED BY <3>1, <3>2
    <2> QED BY <1>1, <2>1 DEF AlternativesVisible
<1>9. RangesWalkable'
    <2>1. \A e \in DOMAIN edges' : \A i \in DOMAIN edges'[e].partitions :
              \/ /\ e \in DOMAIN edges /\ i \in DOMAIN edges[e].partitions
                 /\ edges'[e].partitions[i] = edges[e].partitions[i]
              \/ edges'[e].partitions[i].sequence = sequence
        BY <1>2
    <2> QED BY <1>6, <2>1, RangesKept
<1> QED BY <1>6, <1>7, <1>8, <1>9

\* addEdge(), whatever it does.
LEMMA AddEdgeKeepsSymbols ==
    ASSUME LatticeInv, SymbolInv, LatticeInv', OnlyGrow,
           NEW from, NEW to, NEW item, NEW givenTags, NEW sequence \in EdgeSequence,
           Walkable(sequence), NEW score, NEW lookedUp \in BOOLEAN,
           addEdge(from, to, item, givenTags, sequence, score, lookedUp)
    PROVE  SymbolInv' /\ SymbolsKept
<1> DEFINE tags   == inheritedTags(givenTags, sequence)
           key    == <<from, to, item>>
           hit    == isoplanarEdge(key, tags)
           looked == lookedUp \/ (hit # NoEdge /\ isRange(sequence))
           after  == lookedUp \/ (forwards(from, to) /\ looked)
           alone  == mergedTags({Symbol}, tags)
<1>1. \/ /\ indexedTagMasks' = indexAfterLookUp(after)
         /\ UNCHANGED <<implicitVars, edges>>
      \/ InsertEdge(from, to, item, tags, sequence, score, implicitOutEdges, looked)
      \/ /\ hit # NoEdge /\ isExplicit(hit)
         /\ MergeIntoEdge(hit.at, tags, sequence, score, indexAfterLookUp(looked))
      \/ InsertEdge(from, to, item, alone, sequence, score, implicitOutEdges \ {from}, looked)
    BY DEF addEdge
<1>2. hit # NoEdge => \E i \in DOMAIN registered(key) : hit = registered(key)[i]
    BY IsoplanarHit DEF LatticeInv
<1>3. looked \in BOOLEAN /\ Symbol \in alone
    BY DEF isRange, mergedTags
<1> HIDE DEF tags, hit, looked, after, alone
<1>4. CASE indexedTagMasks' = indexAfterLookUp(after) /\ UNCHANGED <<implicitVars, edges>>
    BY <1>4, LookUpGrows, LookUpKeepsSymbols
<1>5. CASE InsertEdge(from, to, item, tags, sequence, score, implicitOutEdges, looked)
    BY <1>3, <1>5, InsertImplicitKeepsSymbols, InsertExplicitKeepsSymbols DEF InsertEdge
<1>6. CASE /\ hit # NoEdge /\ isExplicit(hit)
           /\ MergeIntoEdge(hit.at, tags, sequence, score, indexAfterLookUp(looked))
    <2>1. hit.at \in DOMAIN edges
        BY <1>2, <1>6, RegisteredFacts DEF LatticeInv
    <2> QED BY <1>6, <2>1, LookUpGrows, MergeKeepsSymbols
<1>7. CASE InsertEdge(from, to, item, alone, sequence, score, implicitOutEdges \ {from}, looked)
    BY <1>3, <1>7, InsertImplicitKeepsSymbols, InsertExplicitKeepsSymbols DEF InsertEdge
<1> QED BY <1>1, <1>4, <1>5, <1>6, <1>7

-----------------------------------------------------------------------------
(* The steps.                                                              *)

\* All that a step does to the edges: nothing, at most indexing a mask, or one
\* addEdge() with a sequence that can be walked.
OneAddition ==
    \E from, to, item, givenTags, score :
        \E sequence \in EdgeSequence, lookedUp \in BOOLEAN :
            /\ Walkable(sequence)
            /\ addEdge(from, to, item, givenTags, sequence, score, lookedUp)

NoAddition ==
    /\ SymbolIndexGrows(indexedTagMasks')
    /\ UNCHANGED <<implicitVars, edges>>

LEMMA PlainAddition ==
    ASSUME NEW from, NEW to, NEW item, NEW tags, NEW score, NEW lookedUp \in BOOLEAN,
           addEdge(from, to, item, tags, EmptySequence, score, lookedUp)
    PROVE  OneAddition
<1>1. EmptySequence \in EdgeSequence /\ Walkable(EmptySequence)
    BY PlainArguments DEF Walkable, EmptySequence
<1> QED BY <1>1 DEF OneAddition

LEMMA LookedUpAddsNothing == OnlyLookedUp => NoAddition
BY LookUpGrows DEF OnlyLookedUp, NoAddition

LEMMA UnchangedAddsNothing == UNCHANGED latticeVars => NoAddition
BY DEF latticeVars, NoAddition, SymbolIndexGrows

LEMMA BridgeAddition ==
    ASSUME NEW from, NEW to, bridgeErased(from, to)
    PROVE  NoAddition \/ OneAddition
BY LookedUpAddsNothing, PlainAddition DEF bridgeErased

LEMMA LoopAddition ==
    ASSUME LoopStep
    PROVE  NoAddition \/ OneAddition
<1>1. CASE AddSymbolsStep
    BY <1>1, PlainAddition DEF AddSymbolsStep
<1>2. CASE CorrectionInsertStep
    <2>1. PICK to : addEdge(call.at, to, SymbolItemWithText(Head(call.rest)), {Symbol},
                            EmptySequence, 0, FALSE)
        BY <1>2 DEF CorrectionInsertStep
    <2> QED BY <2>1, PlainAddition
<1>3. CASE CorrectionInsertJoin
    BY <1>3, LookedUpAddsNothing, PlainAddition DEF CorrectionInsertJoin
<1>4. CASE CorrectionReplaceStep
    BY <1>4, LookedUpAddsNothing, PlainAddition DEF CorrectionReplaceStep
<1>5. CASE CorrectionReplaceFails
    BY <1>5, LookedUpAddsNothing DEF CorrectionReplaceFails
<1>6. CASE CorrectionReplaceInserts
    BY <1>6, UnchangedAddsNothing DEF CorrectionReplaceInserts
<1>7. CASE CorrectionReplaceErases
    BY <1>7, UnchangedAddsNothing, BridgeAddition DEF CorrectionReplaceErases
<1> QED BY <1>1, <1>2, <1>3, <1>4, <1>5, <1>6, <1>7 DEF LoopStep

LEMMA StepAddition ==
    ASSUME Inv, [Next]_vars
    PROVE  NoAddition \/ OneAddition
<1>1. CASE UNCHANGED vars
    BY <1>1, UnchangedAddsNothing DEF vars
<1>2. CASE LoopStep
    BY <1>2, LoopAddition
<1>3. CASE AppendText \/ (\E start, end \in 0 .. Len(text) : AddSymbols(start, end)) \/ AddLooseVertex
    BY <1>3, UnchangedAddsNothing
       DEF AppendText, AppendString, AppendStringWithSymbols, AddSymbols, AddLooseVertex
<1>4. CASE Annotate
    <2>1. PICK from \in Vertices, to \in Vertices, a \in Annotations, score \in Scores :
              \E sequence \in Sequences(from, to) :
                  addEdge(from, to, a[1], a[2], sequence, score, FALSE)
        BY <1>4 DEF Annotate, AddEdge
    <2>2. PICK sequence \in Sequences(from, to) :
              addEdge(from, to, a[1], a[2], sequence, score, FALSE)
        BY <2>1
    <2>3. sequence \in EdgeSequence /\ Walkable(sequence)
        BY SequenceTypes, BuiltRangesWalkable DEF Inv
    <2> QED BY <2>2, <2>3 DEF OneAddition
<1>5. CASE Reannotate
    <2>1. PICK d \in Edges :
              \E sequence \in Sequences(getEdgeSource(d), getEdgeTarget(d)),
                 tags \in PartitionTags, score \in Scores :
                  AddPartitionToEdge(d, tags, sequence, score)
        BY <1>5 DEF Reannotate
    <2>2. PICK sequence \in Sequences(getEdgeSource(d), getEdgeTarget(d)),
               tags \in PartitionTags, score \in Scores :
              AddPartitionToEdge(d, tags, sequence, score)
        BY <2>1
    <2>3. sequence \in EdgeSequence /\ Walkable(sequence)
        BY SequenceTypes, BuiltRangesWalkable DEF Inv
    <2> QED BY <2>2, <2>3 DEF OneAddition, AddPartitionToEdge, AddEdge
<1>6. CASE \E d \in Edges : Discard(d)
    BY <1>6, PlainAddition DEF Discard, AddPartitionToEdge, AddEdge
<1>7. CASE \E mask \in Masks : QueryEdges(mask)
    BY <1>7 DEF QueryEdges, NoAddition, SymbolIndexGrows, addTagMaskIndex_, With
<1>8. CASE Correct
    <2>1. CASE \E from, to \in 0 .. Len(text) : CorrectionErase(from, to)
        BY <2>1, BridgeAddition DEF CorrectionErase
    <2>2. CASE UNCHANGED latticeVars
        BY <2>2, UnchangedAddsNothing
    <2> QED BY <1>8, <2>1, <2>2 DEF Correct, CorrectionInsert, CorrectionReplace
<1> QED BY <1>1, <1>2, <1>3, <1>4, <1>5, <1>6, <1>7, <1>8 DEF Next

\* Every step keeps the symbols, wherever they are.
LEMMA NextKeepsSymbols ==
    ASSUME Inv, SymbolInv, [Next]_vars
    PROVE  SymbolInv' /\ SymbolsKept
<1>1. LatticeInv /\ LatticeInv' /\ OnlyGrow
    BY NextPreserves DEF Inv
<1>2. CASE NoAddition
    <2>1. PICK index : index = indexedTagMasks'
        OBVIOUS
    <2> QED BY <1>1, <1>2, <2>1, LookUpKeepsSymbols DEF NoAddition
<1>3. CASE OneAddition
    BY <1>1, <1>3, AddEdgeKeepsSymbols DEF OneAddition
<1> QED BY <1>2, <1>3, StepAddition

-----------------------------------------------------------------------------
(* The theorems.                                                           *)

\* In the empty lattice there is no symbol and no range.
LEMMA InitSymbols == Init => SymbolInv
BY DEF Init, SymbolInv, SymbolMaskReady, RangesWalkable, AlternativesVisible

\* The strengthened invariant of the symbols holds in every reachable state.
THEOREM SymbolInvariance == Spec => []SymbolInv
<1>1. Inv /\ SymbolInv /\ [Next]_vars => SymbolInv'
    BY NextKeepsSymbols
<1> QED BY InitSymbols, Invariance, <1>1, PTL DEF Spec

\* Every range of symbols stored in a partition can be walked again, whatever
\* conversions of implicit symbols into edges came after it.
THEOREM RangesCanBeWalked == Spec => []RangesWalkable
<1>1. SymbolInv => RangesWalkable
    BY DEF SymbolInv
<1> QED BY SymbolInvariance, <1>1, PTL

\* An implicit symbol that has an alternative with the tag symbol alone is
\* visible, in whatever order the two were added.
THEOREM AlternativesAreVisible == Spec => []AlternativesVisible
<1>1. SymbolInv => AlternativesVisible
    BY DEF SymbolInv
<1> QED BY SymbolInvariance, <1>1, PTL

\* No step takes away the last symbol edge that leaves a vertex.
THEOREM SymbolsNeverLost == Spec => SymbolsStay
<1>1. Inv /\ SymbolInv /\ [Next]_vars =>
          [\A v \in 0 .. Len(text) : symbolLeaves(v) => symbolLeaves(v)']_vars
    BY NextKeepsSymbols DEF SymbolsKept, Inv, LatticeInv, LatticeTypeOK
<1> QED BY SymbolInvariance, Invariance, <1>1, PTL DEF Spec, SymbolsStay
=============================================================================
