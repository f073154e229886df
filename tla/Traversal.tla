----------------------------- MODULE Traversal -----------------------------
(***************************************************************************)
(* Iterators over the edges of the lattice and the navigation built on     *)
(* them (common/lattice.{hpp,cpp}): InOutEdgesIterator, which walks the    *)
(* list an index keeps for one vertex, SortedEdgesIterator, which walks    *)
(* the vertices, getPath(), getParent(), getChildren(), getEdgeOrigin().   *)
(*                                                                         *)
(* The lists are std::lists, so an iterator sees the edges that are        *)
(* appended in front of it - unless it has reached the end, where it       *)
(* stays.  The lists of a vertex are elements of a std::vector that grows  *)
(* with every new mask that is indexed, and the vertices of the graph      *)
(* elements of another one, which grows with every vertex that gets its    *)
(* first explicit edge: an iterator made before is invalid afterwards.     *)
(*                                                                         *)
(* This is about lattices without loose vertices, whose vertices are       *)
(* visited in the order of the text.                                       *)
(***************************************************************************)
EXTENDS Lattice

Seqs == INSTANCE SequencesExt

End == 0

\* An iterator over no edges.
NoEdges == [side |-> "out", vertex |-> 0, mask |-> symbolMask, implicit |-> NoEdge,
            at |-> End, made |-> <<{}, {}>>]

\* The explicit edges out of a vertex, or into it, in the list of a mask.
edgesIndex(side, vertex, mask) ==
    {e \in addTagMaskIndex_(mask)[mask] :
        vertex = IF side = "out" THEN edges[e].from ELSE edges[e].to}

canBeAppliedToImplicitSymbol(mask) == {Symbol} \in mask

\* The first of these edges, in the order of the list.
firstIn(list) == IF list = {} THEN End ELSE CHOOSE e \in list : \A f \in list : e <= f

\* The indices once these masks are indexed as well.
indexedWith(masks) ==
    [mask \in DOMAIN indexedTagMasks \cup masks |-> addTagMaskIndex_(mask)[mask]]

\* What the place of the lists in memory depends on: the masks indexed (once
\* these are, too) and the vertices that have explicit edges.
layout(masks) ==
    <<DOMAIN indexedTagMasks \cup masks,
      UNION {{edges[e].from, edges[e].to} : e \in DOMAIN edges}>>

\* The implicit symbol behind or before a vertex, where the mask asks for one.
implicitEdge(side, vertex, mask) ==
    LET source == IF side = "out" THEN vertex ELSE vertex - 1
    IN  IF canBeAppliedToImplicitSymbol(mask) /\ source \in implicitOutEdges
        THEN Implicit(source) ELSE NoEdge

\* outEdges() and inEdges(): an iterator that has the implicit symbol first.
edgesAt(side, vertex, mask) ==
    [side |-> side, vertex |-> vertex, mask |-> mask,
     implicit |-> implicitEdge(side, vertex, mask),
     at |-> firstIn(edgesIndex(side, vertex, mask)),
     made |-> layout({mask})]

hasNextEdge(iter) == iter.implicit # NoEdge \/ iter.at # End

nextEdge(iter) == IF iter.implicit # NoEdge THEN iter.implicit ELSE Explicit(iter.at)

\* The iterator behind the edge it stands at.
advanced(iter) ==
    IF iter.implicit # NoEdge
    THEN [iter EXCEPT !.implicit = NoEdge]
    ELSE [iter EXCEPT !.at =
             firstIn({e \in edgesIndex(iter.side, iter.vertex, iter.mask) : e > @})]

\* The list it stands in may have been moved since.
isStale(iter) == iter.at # End /\ iter.made # layout({})

\* All the edges an iterator would return.
edgesFound(side, vertex, mask) ==
    {Explicit(e) : e \in edgesIndex(side, vertex, mask)} \cup
    ({implicitEdge(side, vertex, mask)} \ {NoEdge})

-----------------------------------------------------------------------------
(* EdgesSortedBySourceIterator ("out") and EdgesSortedByTargetIterator.    *)

\* It has begun with vertex 0 of the text.
edgesSorted(side, mask) == [vertex |-> 0, edges |-> edgesAt(side, 0, mask)]

\* Slip: only the next vertex is tried.
verticesAhead_Next(iter) == {iter.vertex + 1} \cap 0 .. Len(text)

\* The vertices it has not begun yet.
verticesAhead(iter) == iter.vertex + 1 .. Len(text)

\* hasNext(): where the edges of a vertex are used up it goes on to the next
\* vertex that has some.
settled(iter) ==
    LET side == iter.edges.side
        mask == iter.edges.mask
        rich == {v \in verticesAhead(iter) : edgesFound(side, v, mask) # {}}
        next == CHOOSE v \in rich : \A w \in rich : v <= w
    IN  IF hasNextEdge(iter.edges) \/ rich = {} THEN iter
        ELSE [vertex |-> next, edges |-> edgesAt(side, next, mask)]

-----------------------------------------------------------------------------
(* Navigation.                                                             *)

\* The last edge out of a vertex.
lastOutEdge(vertex, mask) ==
    LET list == edgesIndex("out", vertex, mask)
    IN  IF list # {} THEN Explicit(CHOOSE e \in list : \A f \in list : f <= e)
        ELSE implicitEdge("out", vertex, mask)

\* getPath(): from vertex to vertex, always along the last edge.
getPath(vertex, mask) ==
    LET path[v \in 0 .. Len(text)] ==
            LET edge == lastOutEdge(v, mask)
            IN  IF edge = NoEdge THEN <<>> ELSE <<edge>> \o path[getEdgeTarget(edge)]
    IN  path[vertex]

\* The edges EdgeSequence::Iterator returns, in order.
edgesOfSequence(sequence) ==
    IF sequence.links # <<>> THEN sequence.links
    ELSE [i \in 1 .. sequence.end - sequence.begin |->
              firstSymbolOutEdge(sequence.begin + i - 1)]

partitionsOf(edge) == IF isExplicit(edge) THEN edges[edge.at].partitions ELSE <<>>

\* The first edge of the first partition that has one.
getParent(child) ==
    LET parts   == partitionsOf(child)
        parents == Seqs!FlattenSeq([i \in DOMAIN parts |-> edgesOfSequence(parts[i].sequence)])
    IN  IF parents = <<>> THEN NoEdge ELSE Head(parents)

\* The edges over the same vertices that have the parent in a partition, once
\* for each such partition.
getChildren(parent, mask) ==
    LET spanning == {e \in edgesIndex("out", getEdgeSource(parent), mask) :
                        edges[e].to = getEdgeTarget(parent)}
        bearing(e) == {i \in DOMAIN edges[e].partitions :
                          parent \in SequenceEdges(edges[e].partitions[i].sequence)}
        ordered == Seqs!SetToSortSeq(spanning, <)
    IN  Seqs!FlattenSeq([i \in DOMAIN ordered |->
            [n \in 1 .. Cardinality(bearing(ordered[i])) |-> Explicit(ordered[i])]])

\* The n-th parent on the way up from an edge; none has no parent.
ancestor(edge, n) ==
    LET up[k \in 0 .. n] == IF k = 0 THEN edge ELSE getParent(up[k - 1])
    IN  up[n]

\* The search of getEdgeOrigin() stops at the n-th parent.
stopsAt(edge, tag, n) ==
    ancestor(edge, n) = NoEdge \/ tag \in getEdgeLayerTags(ancestor(edge, n))

\* Where it stops at all; with more steps than there are edges it never does.
originSteps(edge, tag) == {n \in 1 .. Len(edges) + 1 : stopsAt(edge, tag, n)}

\* The nearest ancestor with the tag, or none.
getEdgeOrigin(edge, tag) ==
    ancestor(edge, CHOOSE n \in originSteps(edge, tag) :
                       \A m \in originSteps(edge, tag) : n <= m)

-----------------------------------------------------------------------------
(* What the workers get back from addEdge().                               *)

\* The edge that addEdge() merges a new one into, if there is one.
mergedInto(new) ==
    isoplanarEdge(<<new.from, new.to, new.item>>, inheritedTags(new.tags, new.sequence))

\* Slip: a merge returns the edge that was made last.
addedEdge_Newest(hit) == Explicit(IF isExplicit(hit) THEN Len(edges) ELSE Len(edges) + 1)

\* What addEdge() returns: the edge it merged into, or the new one.
addedEdge(hit) == IF isExplicit(hit) THEN hit ELSE Explicit(Len(edges) + 1)
=============================================================================
