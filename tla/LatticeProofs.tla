--------------------------- MODULE LatticeProofs ---------------------------
(***************************************************************************)
(* Proofs about the lattice, for every text, every alphabet, every set of  *)
(* annotations and every bound.                                            *)
(***************************************************************************)
EXTENDS Lattice, TLAPS, WellFoundedInduction, SequenceTheorems

-----------------------------------------------------------------------------
(* Numbers.                                                                *)

\* A non-empty set of naturals has a least element: FirstOf() and
\* isoplanarEdge() find what they look for.
LEMMA LeastNatural ==
    ASSUME NEW S \in SUBSET Nat, S # {}
    PROVE  \E m \in S : \A n \in S : m <= n
<1>1. PICK m \in S : \A n \in S : ~(<<n, m>> \in OpToRel(<, Nat))
    BY NatLessThanWellFounded, WFMin
<1>2. ASSUME NEW n \in S PROVE m <= n
    <2>1. m \in Nat /\ n \in Nat
        OBVIOUS
    <2>2. ~(n < m)
        BY <1>1, <2>1 DEF OpToRel
    <2> QED BY <2>1, <2>2
<1> QED BY <1>2

-----------------------------------------------------------------------------
(* Reading the lattice.                                                    *)

\* What an appended sequence holds (the lists of descriptors in vvcHash_).
LEMMA AppendEntries ==
    ASSUME NEW S, NEW s \in Seq(S), NEW d \in S
    PROVE  /\ \A i \in DOMAIN s : i \in DOMAIN Append(s, d) /\ Append(s, d)[i] = s[i]
           /\ \A i \in DOMAIN Append(s, d) :
                 (i \in DOMAIN s /\ Append(s, d)[i] = s[i]) \/ Append(s, d)[i] = d
           /\ \E i \in DOMAIN Append(s, d) : Append(s, d)[i] = d
<1>1. Append(s, d)[Len(s) + 1] = d /\ Len(s) + 1 \in DOMAIN Append(s, d)
    OBVIOUS
<1>2. \A i \in DOMAIN s : i \in DOMAIN Append(s, d) /\ Append(s, d)[i] = s[i]
    OBVIOUS
<1>3. \A i \in DOMAIN Append(s, d) : i \in DOMAIN s \/ i = Len(s) + 1
    OBVIOUS
<1> QED BY <1>1, <1>2, <1>3

\* The fields of an explicit edge have their types.
LEMMA EdgeFields ==
    ASSUME LatticeTypeOK, NEW e \in DOMAIN edges
    PROVE  /\ e \in Nat
           /\ edges[e] \in EdgeEntry
           /\ edges[e].from \in Int /\ edges[e].to \in Int
           /\ edges[e].item \in AnnotationItem
           /\ edges[e].tags \in Collection
           /\ edges[e].score \in Int
           /\ edges[e].partitions \in Seq(Partition)
<1>1. edges \in Seq(EdgeEntry)
    BY DEF LatticeTypeOK
<1>2. e \in 1 .. Len(edges)
    BY <1>1
<1>3. edges[e] \in EdgeEntry
    BY <1>1, <1>2
<1> QED BY <1>2, <1>3 DEF EdgeEntry

\* The tags "symbol" and "discarded" are tags, and "symbol" is in no plane.
LEMMA SymbolTag == Symbol \in Tag /\ Symbol \notin PlaneTag /\ Discarded \in Tag
BY TagAssumption

\* What the readers of an edge return.
LEMMA DescriptorFields ==
    ASSUME LatticeTypeOK, WithinText, NEW d \in Edges
    PROVE  /\ d \in EdgeDescriptor
           /\ getEdgeSource(d) \in Vertices
           /\ getEdgeTarget(d) \in Vertices
           /\ getEdgeAnnotationItem(d) \in AnnotationItem
           /\ getEdgeLayerTags(d) \in Collection
<1>0. text \in Seq(Char) /\ Len(text) \in Nat /\ nLooseVertices \in Nat
    BY DEF LatticeTypeOK
<1>1. CASE \E v \in implicitOutEdges : d = Implicit(v)
    <2>1. PICK v \in implicitOutEdges : d = Implicit(v)
        BY <1>1
    <2>2. v \in 0 .. Len(text) - 1
        BY DEF WithinText
    <2>3. text[v + 1] \in Char
        BY <1>0, <2>2
    <2>4. d.kind = "implicit" /\ d.at = v
        BY <2>1 DEF Implicit
    <2> QED BY <1>0, <2>1, <2>2, <2>3, <2>4, SymbolTag
            DEF Implicit, EdgeDescriptor, getEdgeSource, getEdgeTarget, isExplicit, Vertices,
                getEdgeAnnotationItem, getEdgeLayerTags, AnnotationItem, SymbolItemWithText,
                Collection
<1>2. CASE \E e \in DOMAIN edges : d = Explicit(e)
    <2>1. PICK e \in DOMAIN edges : d = Explicit(e)
        BY <1>2
    <2>2. d.kind = "explicit" /\ d.at = e
        BY <2>1 DEF Explicit
    <2> QED BY <2>1, <2>2, EdgeFields
            DEF Explicit, EdgeDescriptor, getEdgeSource, getEdgeTarget, isExplicit,
                getEdgeAnnotationItem, getEdgeLayerTags, WithinText
<1> QED BY <1>1, <1>2 DEF Edges

\* An index that may become indexedTagMasks: it lists edges that match their
\* mask, and all those whose first tags do.
GoodIndex(index) ==
    /\ IsMap(index, Mask, EdgeIds)
    /\ \A mask \in DOMAIN index : \A e \in index[mask] :
          e \in DOMAIN edges /\ matches(edges[e].tags, mask)
    /\ \A mask \in DOMAIN index : \A e \in DOMAIN edges :
          matches(edges[e].partitions[1].tags, mask) => e \in index[mask]

LEMMA IndexAdded ==
    ASSUME LatticeTypeOK, IndexSound, FirstTagsIndexed, PartitionTagsHeld, NEW mask \in Mask,
           NEW index, index = addTagMaskIndex_(mask)
    PROVE  GoodIndex(index) /\ mask \in DOMAIN index
<1>1. CASE mask \in DOMAIN indexedTagMasks
    BY <1>1 DEF addTagMaskIndex_, LatticeTypeOK, IndexSound, FirstTagsIndexed, GoodIndex
<1>2. CASE mask \notin DOMAIN indexedTagMasks
    <2> DEFINE found == {e \in DOMAIN edges : matches(edges[e].tags, mask)}
    <2>1. index = With(indexedTagMasks, mask, found)
        BY <1>2 DEF addTagMaskIndex_
    <2>2. found \in EdgeIds
        BY EdgeFields DEF EdgeIds
    <2>3. IsMap(indexedTagMasks, Mask, EdgeIds)
        BY DEF LatticeTypeOK
    <2> HIDE DEF found
    <2>4. /\ IsMap(index, Mask, EdgeIds)
          /\ DOMAIN index = DOMAIN indexedTagMasks \cup {mask}
          /\ index[mask] = found
          /\ \A m \in DOMAIN indexedTagMasks : m # mask => index[m] = indexedTagMasks[m]
        BY <2>1, <2>2, <2>3 DEF IsMap, With
    <2>5. ASSUME NEW e \in DOMAIN edges, matches(edges[e].partitions[1].tags, mask)
          PROVE  e \in found
        <3>1. edges[e].partitions[1].tags \subseteq edges[e].tags
            <4>1. edges[e].partitions \in Seq(Partition) /\ edges[e].partitions # <<>>
                BY EdgeFields DEF PartitionTagsHeld
            <4>2. 1 \in DOMAIN edges[e].partitions
                BY <4>1
            <4> QED BY <4>2 DEF PartitionTagsHeld
        <3> QED BY <2>5, <3>1 DEF matches, found
    <2> QED BY <1>2, <2>4, <2>5 DEF IndexSound, FirstTagsIndexed, GoodIndex, found
<1> QED BY <1>1, <1>2

\* The mask of the symbol edges is a mask.
LEMMA SymbolMask == symbolMask \in Mask
BY SymbolTag DEF symbolMask, SingletonMask, Mask, Collection

\* firstOutEdge() and firstInEdge() return an edge of the lattice.
LEMMA FirstOfIsEdge ==
    ASSUME LatticeTypeOK, NEW es, es \subseteq DOMAIN edges
    PROVE  FirstOf(es) = NoEdge \/ \E e \in es : FirstOf(es) = Explicit(e)
<1>1. es \in SUBSET Nat
    BY EdgeFields
<1>2. CASE es # {}
    <2>1. \E e \in es : \A f \in es : e <= f
        BY <1>1, <1>2, LeastNatural
    <2> QED BY <1>2, <2>1 DEF FirstOf
<1> QED BY <1>2 DEF FirstOf

\* The look-up of firstOutEdge() for symbols finds an edge of the lattice or none.
LEMMA FirstSymbolIsEdge ==
    ASSUME LatticeTypeOK, IndexSound, FirstTagsIndexed, PartitionTagsHeld, NEW v
    PROVE  firstSymbolOutEdge(v) \in Edges \cup {NoEdge}
<1> DEFINE es == {e \in addTagMaskIndex_(symbolMask)[symbolMask] : edges[e].from = v}
<1>1. es \subseteq DOMAIN edges
    BY IndexAdded, SymbolMask DEF GoodIndex
<1>2. CASE v \in implicitOutEdges
    BY <1>2 DEF firstSymbolOutEdge, FirstOut, Edges
<1>3. CASE v \notin implicitOutEdges
    <2>1. firstSymbolOutEdge(v) = FirstOf(es)
        BY <1>3 DEF firstSymbolOutEdge, FirstOut
    <2> QED BY <1>1, <2>1, FirstOfIsEdge DEF Edges
<1> QED BY <1>2, <1>3

\* What is registered for a key, and how registering one more changes it.
LEMMA RegisteredType ==
    ASSUME LatticeTypeOK, NEW key
    PROVE  registered(key) \in Seq(EdgeDescriptor)
BY DEF LatticeTypeOK, IsMap, registered

\* A registered descriptor has the ends of its key and (where explicit) its item.
LEMMA RegisteredFacts ==
    ASSUME LatticeTypeOK, RegistryAgrees, NEW key, NEW i \in DOMAIN registered(key),
           NEW d, d = registered(key)[i]
    PROVE  /\ d \in EdgeDescriptor
           /\ isExplicit(d) => d.at \in DOMAIN edges /\ key[3] = edges[d.at].item
           /\ key[1] = getEdgeSource(d)
           /\ key[2] = getEdgeTarget(d)
           /\ getEdgeLayerTags(d) \in Collection
<1>1. key \in DOMAIN vvcHash /\ registered(key) = vvcHash[key]
    BY DEF registered
<1>2. /\ isExplicit(d) => d.at \in DOMAIN edges /\ key[3] = edges[d.at].item
      /\ key[1] = getEdgeSource(d)
      /\ key[2] = getEdgeTarget(d)
    BY <1>1 DEF RegistryAgrees
<1>3. d \in EdgeDescriptor
    BY RegisteredType
<1>4. getEdgeLayerTags(d) \in Collection
    BY <1>2, EdgeFields, SymbolTag DEF getEdgeLayerTags, Collection
<1> QED BY <1>2, <1>3, <1>4

\* Registering d for key appends it to the list of key, and to no other.
LEMMA RegisterMore ==
    ASSUME LatticeTypeOK, NEW key, NEW d \in EdgeDescriptor,
           vvcHash' = With(vvcHash, key, Append(registered(key), d)), NEW k
    PROVE  /\ \A i \in DOMAIN registered(k) :
                 i \in DOMAIN registered(k)' /\ registered(k)'[i] = registered(k)[i]
           /\ \A i \in DOMAIN registered(k)' :
                 \/ i \in DOMAIN registered(k) /\ registered(k)'[i] = registered(k)[i]
                 \/ k = key /\ registered(k)'[i] = d
           /\ \E i \in DOMAIN registered(key)' : registered(key)'[i] = d
<1>1. registered(k)' = IF k = key THEN Append(registered(key), d) ELSE registered(k)
    BY DEF registered, With
<1>2. registered(key)' = Append(registered(key), d)
    BY DEF registered, With
<1>3. registered(key) \in Seq(EdgeDescriptor)
    BY RegisteredType
<1>4. CASE k = key
    BY <1>2, <1>3, <1>4, AppendEntries
<1>5. CASE k # key
    BY <1>1, <1>2, <1>3, <1>5, AppendEntries
<1> QED BY <1>4, <1>5

\* The first isoplanar edge: none is, or it is one of those registered.
LEMMA IsoplanarHit ==
    ASSUME LatticeTypeOK, NEW key, NEW tags, NEW hit, hit = isoplanarEdge(key, tags)
    PROVE  \/ /\ hit = NoEdge
              /\ \A i \in DOMAIN registered(key) :
                    ~areInTheSamePlane(tags, getEdgeLayerTags(registered(key)[i]))
           \/ /\ hit # NoEdge
              /\ \E i \in DOMAIN registered(key) :
                    /\ hit = registered(key)[i]
                    /\ areInTheSamePlane(tags, getEdgeLayerTags(hit))
<1> DEFINE ds   == registered(key)
           hits == {i \in DOMAIN ds : areInTheSamePlane(tags, getEdgeLayerTags(ds[i]))}
<1>1. hit = IF hits = {} THEN NoEdge ELSE ds[CHOOSE i \in hits : \A j \in hits : i <= j]
    BY DEF isoplanarEdge
<1>2. ds \in Seq(EdgeDescriptor)
    BY RegisteredType
<1>3. hits \in SUBSET Nat
    BY <1>2
<1>4. CASE hits = {}
    BY <1>1, <1>4
<1>5. CASE hits # {}
    <2>1. \E i \in hits : \A j \in hits : i <= j
        BY <1>3, <1>5, LeastNatural
    <2>2. PICK i \in hits : hit = ds[i]
        BY <1>1, <1>5, <2>1
    <2>3. hit \in EdgeDescriptor
        BY <1>2, <2>2
    <2>4. hit # NoEdge
        BY <2>3 DEF EdgeDescriptor, NoEdge
    <2> QED BY <2>2, <2>4
<1> QED BY <1>4, <1>5

-----------------------------------------------------------------------------
(* The effects addEdge() may have on the invariant.                        *)

\* A symbol look-up leaves good indices.
LEMMA LookedUpIndex ==
    ASSUME LatticeInv, NEW looked \in BOOLEAN
    PROVE  GoodIndex(indexAfterLookUp(looked))
<1>1. GoodIndex(indexedTagMasks)
    BY DEF GoodIndex, LatticeInv, LatticeTypeOK, IndexSound, FirstTagsIndexed
<1>2. GoodIndex(addTagMaskIndex_(symbolMask))
    BY IndexAdded, SymbolMask DEF LatticeInv
<1> QED BY <1>1, <1>2 DEF indexAfterLookUp

\* The text and the loose vertices may grow, nothing else changes.
VerticesGrow ==
    /\ text' \in Seq(Char)
    /\ Len(text) <= Len(text')
    /\ nLooseVertices' \in Nat
    /\ nLooseVertices <= nLooseVertices'

\* No operation removes a vertex.
LEMMA VerticesKept ==
    ASSUME LatticeTypeOK, VerticesGrow
    PROVE  Vertices \subseteq Vertices'
BY DEF LatticeTypeOK, VerticesGrow, Vertices

\* Indexing a mask, or a throw of addEdge() after it.
LEMMA OnlyIndexChanges ==
    ASSUME LatticeInv, VerticesGrow, NEW index, GoodIndex(index), indexedTagMasks' = index,
           UNCHANGED <<implicitVars, edges, vvcHash, edgeCounterHash>>
    PROVE  LatticeInv' /\ OnlyGrow
<1> USE DEF LatticeInv, implicitVars
<1>1. LatticeTypeOK'
    BY DEF LatticeTypeOK, VerticesGrow, GoodIndex
<1>2. WithinText'
    <2>1. Len(text) \in Nat /\ Len(text') \in Nat
        BY DEF VerticesGrow, LatticeTypeOK
    <2> QED BY <2>1, VerticesKept DEF WithinText, VerticesGrow
<1>3. RegistryAgrees'
    BY DEF RegistryAgrees, registered, getEdgeSource, getEdgeTarget, isExplicit
<1>4. PartitionTagsHeld'
    BY DEF PartitionTagsHeld
<1>5. IndexSound' /\ FirstTagsIndexed'
    BY DEF GoodIndex, IndexSound, FirstTagsIndexed
<1>6. OneEdgePerPlane'
    BY DEF OneEdgePerPlane, registered, isExplicit
<1>7. OnlyGrow
    BY EdgeFields DEF OnlyGrow, areInTheSamePlane
<1> QED BY <1>1, <1>2, <1>3, <1>4, <1>5, <1>6, <1>7

\* Merging into an explicit edge of the same plane.
LEMMA MergePreserves ==
    ASSUME LatticeInv, VerticesGrow,
           NEW e \in DOMAIN edges, NEW tags \in Collection, NEW sequence \in EdgeSequence,
           NEW score \in Int, NEW index, GoodIndex(index),
           areInTheSamePlane(tags, edges[e].tags),
           MergeIntoEdge(e, tags, sequence, score, index)
    PROVE  LatticeInv' /\ OnlyGrow
<1> USE DEF LatticeInv
<1> DEFINE allTags == edges[e].tags \cup tags
           best    == IF score > edges[e].score THEN score ELSE edges[e].score
           part    == [tags |-> allTags, sequence |-> sequence, score |-> score]
           merged  == [edges[e] EXCEPT !.tags = allTags, !.score = best,
                                       !.partitions = Append(edges[e].partitions, part)]
<1>1. /\ edges' = [edges EXCEPT ![e] = merged]
      /\ indexedTagMasks' = index
      /\ UNCHANGED <<implicitVars, vvcHash, edgeCounterHash>>
    BY DEF MergeIntoEdge, mergedTags, betterScore, withPartition
<1>2. /\ edges \in Seq(EdgeEntry)
      /\ edges[e] \in EdgeEntry
      /\ edges[e].tags \in Collection
      /\ edges[e].score \in Int
      /\ edges[e].partitions \in Seq(Partition)
    BY EdgeFields DEF LatticeTypeOK
<1>3. allTags \in Collection /\ best \in Int
    BY <1>2 DEF Collection
<1>4. part \in Partition
    BY <1>3 DEF Partition
<1>5. /\ merged \in EdgeEntry
      /\ merged.from = edges[e].from /\ merged.to = edges[e].to /\ merged.item = edges[e].item
      /\ merged.tags = allTags /\ merged.score = best
      /\ merged.partitions = Append(edges[e].partitions, part)
    <2> HIDE DEF allTags, best, part
    <2>1. Append(edges[e].partitions, part) \in Seq(Partition)
        BY <1>2, <1>4
    <2> QED BY <1>2, <1>3, <2>1 DEF EdgeEntry
<1> HIDE DEF merged, part, best
<1>6. /\ edges' \in Seq(EdgeEntry)
      /\ DOMAIN edges' = DOMAIN edges
      /\ edges'[e] = merged
      /\ \A f \in DOMAIN edges : f # e => edges'[f] = edges[f]
    BY <1>1, <1>2, <1>5
<1>7. \A f \in DOMAIN edges : /\ edges'[f].from = edges[f].from
                             /\ edges'[f].to = edges[f].to
                             /\ edges'[f].item = edges[f].item
                             /\ edges[f].tags \subseteq edges'[f].tags
                             /\ onlyPlaneTags(edges'[f].tags) = onlyPlaneTags(edges[f].tags)
    <2>1. onlyPlaneTags(allTags) = onlyPlaneTags(edges[e].tags)
        BY DEF areInTheSamePlane, onlyPlaneTags
    <2> QED BY <1>5, <1>6, <2>1
<1>8. \A f \in DOMAIN edges :
          /\ Len(edges[f].partitions) <= Len(edges'[f].partitions)
          /\ \A i \in DOMAIN edges[f].partitions :
                /\ i \in DOMAIN edges'[f].partitions
                /\ edges'[f].partitions[i] = edges[f].partitions[i]
    <2>1. /\ Len(edges[e].partitions) <= Len(merged.partitions)
          /\ \A i \in DOMAIN edges[e].partitions :
                /\ i \in DOMAIN merged.partitions
                /\ merged.partitions[i] = edges[e].partitions[i]
        BY <1>2, <1>4, <1>5
    <2> QED BY <1>6, <2>1, EdgeFields
<1>a. LatticeTypeOK'
    BY <1>1, <1>6 DEF LatticeTypeOK, VerticesGrow, GoodIndex, implicitVars
<1>b. WithinText'
    <2>1. Len(text) \in Nat /\ Len(text') \in Nat
        BY DEF VerticesGrow, LatticeTypeOK
    <2> QED BY <1>1, <1>6, <1>7, <2>1, VerticesKept DEF WithinText, VerticesGrow, implicitVars
<1>c. RegistryAgrees'
    BY <1>1, <1>6, <1>7 DEF RegistryAgrees, registered, getEdgeSource, getEdgeTarget, isExplicit,
                            Explicit
<1>d. PartitionTagsHeld'
    <2>1. merged.partitions # <<>>
        <3> DEFINE old == edges[e].partitions
        <3>1. old \in Seq(Partition) /\ merged.partitions = Append(old, part)
            BY <1>2, <1>5
        <3> HIDE DEF old
        <3>2. \E i \in DOMAIN Append(old, part) : Append(old, part)[i] = part
            BY <1>4, <3>1, AppendEntries
        <3> QED BY <3>1, <3>2
    <2>2. ASSUME NEW i \in DOMAIN merged.partitions
          PROVE  merged.partitions[i].tags \subseteq allTags
        <3>1. CASE i \in DOMAIN edges[e].partitions
            BY <1>8, <1>6, <3>1 DEF PartitionTagsHeld
        <3>2. CASE i \notin DOMAIN edges[e].partitions
            <4>1. merged.partitions[i] = part
                BY <1>2, <1>4, <1>5, <2>2, <3>2, AppendEntries
            <4> QED BY <4>1 DEF part
        <3> QED BY <3>1, <3>2
    <2> QED BY <1>5, <1>6, <2>1, <2>2 DEF PartitionTagsHeld
<1>e. IndexSound'
    BY <1>1, <1>6, <1>7 DEF IndexSound, GoodIndex, matches
<1>f. FirstTagsIndexed'
    <2>1. ASSUME NEW f \in DOMAIN edges
          PROVE  edges'[f].partitions[1] = edges[f].partitions[1]
        <3>1. 1 \in DOMAIN edges[f].partitions
            BY EdgeFields DEF PartitionTagsHeld
        <3> QED BY <1>8, <3>1
    <2>2. ASSUME NEW mask \in DOMAIN indexedTagMasks', NEW f \in DOMAIN edges',
                 matches(edges'[f].partitions[1].tags, mask)
          PROVE  f \in indexedTagMasks'[mask]
        <3>1. f \in DOMAIN edges /\ mask \in DOMAIN index
            BY <1>1, <1>6
        <3>2. matches(edges[f].partitions[1].tags, mask)
            BY <2>1, <2>2, <3>1
        <3> QED BY <1>1, <3>1, <3>2 DEF GoodIndex
    <2> QED BY <2>2 DEF FirstTagsIndexed
<1>g. OneEdgePerPlane'
    <2> DEFINE keyOf(f) == <<edges[f].from, edges[f].to, edges[f].item>>
    <2> SUFFICES ASSUME NEW f \in DOMAIN edges', NEW g \in DOMAIN edges', f # g,
                        keyOf(f)' = keyOf(g)',
                        areInTheSamePlane(edges'[f].tags, edges'[g].tags)
                 PROVE  \E i \in DOMAIN registered(keyOf(f))' :
                           ~isExplicit(registered(keyOf(f))'[i])
        BY DEF OneEdgePerPlane
    <2>1. f \in DOMAIN edges /\ g \in DOMAIN edges
        BY <1>6
    <2>2. keyOf(f)' = keyOf(f) /\ keyOf(g)' = keyOf(g)
        BY <1>7, <2>1
    <2>3. areInTheSamePlane(edges[f].tags, edges[g].tags)
        BY <1>7, <2>1 DEF areInTheSamePlane
    <2>4. registered(keyOf(f))' = registered(keyOf(f))
        BY <1>1, <2>2 DEF registered
    <2> QED BY <2>1, <2>2, <2>3, <2>4 DEF OneEdgePerPlane
<1>h. OnlyGrow
    <2>1. \A f \in DOMAIN edges : edges[f].score <= edges'[f].score
        <3>1. edges[e].score <= best
            BY <1>2 DEF best
        <3>2. merged.score = best /\ edges'[e] = merged
            BY <1>5, <1>6
        <3>3. ASSUME NEW f \in DOMAIN edges
              PROVE  edges[f].score <= edges'[f].score
            <4>1. CASE f = e
                BY <3>1, <3>2, <4>1
            <4>2. CASE f # e
                BY <1>6, <4>2, EdgeFields
            <4> QED BY <4>1, <4>2
        <3> QED BY <3>3
    <2> QED BY <1>6, <1>7, <1>8, <2>1 DEF OnlyGrow, areInTheSamePlane
<1> QED BY <1>a, <1>b, <1>c, <1>d, <1>e, <1>f, <1>g, <1>h

\* The counter and the visible bits of a new edge.
LEMMA RevealTypes ==
    ASSUME LatticeInv, NEW from \in Int, NEW to \in Int, NEW tags,
           NEW implicit, implicit \subseteq implicitOutEdges,
           CountAndReveal(from, to, tags, implicit)
    PROVE  /\ IsMap(edgeCounterHash', VertexPair, Nat)
           /\ visibleImplicitOutEdges' \in SUBSET Int
<1> USE DEF LatticeInv
<1> DEFINE es  == addTagMaskIndex_(symbolMask)[symbolMask]
           in  == FirstIn(to, implicit, es)
<1>1. IsMap(edgeCounterHash', VertexPair, Nat)
    <2>1. counted(from, to) \in Nat
        BY DEF LatticeTypeOK, IsMap, counted, countEdges
    <2>2. <<from, to>> \in VertexPair
        BY DEF VertexPair
    <2> QED BY <2>1, <2>2 DEF CountAndReveal, LatticeTypeOK, IsMap, With
<1>2. es \subseteq DOMAIN edges
    BY IndexAdded, SymbolMask DEF GoodIndex
<1>3. in # NoEdge => getEdgeSource(in) \in Int
    <2>1. CASE to - 1 \in implicit
        BY <2>1 DEF FirstIn, Implicit, getEdgeSource, isExplicit
    <2>2. CASE to - 1 \notin implicit
        <3>1. \/ in = NoEdge
              \/ \E e \in DOMAIN edges : in = Explicit(e)
            <4> DEFINE into == {e \in es : edges[e].to = to}
            <4>1. in = FirstOf(into)
                BY <2>2 DEF FirstIn
            <4>2. into \subseteq DOMAIN edges
                BY <1>2
            <4> QED BY <4>1, <4>2, FirstOfIsEdge
        <3>2. ASSUME NEW e \in DOMAIN edges, in = Explicit(e)
              PROVE  getEdgeSource(in) \in Int
            <4> HIDE DEF in
            <4>1. in.kind = "explicit" /\ in.at = e
                BY <3>2 DEF Explicit
            <4> QED BY <4>1, EdgeFields DEF getEdgeSource, isExplicit
        <3> QED BY <3>1, <3>2
    <2> QED BY <2>1, <2>2
<1>4. madeVisible(from, to, implicit, es) \in SUBSET Int
    BY <1>3 DEF madeVisible
<1>5. visibleImplicitOutEdges \in SUBSET Int
    BY DEF LatticeTypeOK
<1> QED BY <1>1, <1>4, <1>5 DEF CountAndReveal

\* Where an edge may be inserted: no edge of its plane is registered for its
\* key, or the edge was an implicit symbol.
NewInPlane(key, tags) ==
    \/ \E i \in DOMAIN registered(key) : ~isExplicit(registered(key)[i])
    \/ \A i \in DOMAIN registered(key) :
          ~areInTheSamePlane(tags, getEdgeLayerTags(registered(key)[i]))

\* Inserting a symbol as a bit.
LEMMA InsertImplicitPreserves ==
    ASSUME LatticeInv, VerticesGrow,
           NEW from \in Vertices', NEW to \in Vertices', NEW item \in AnnotationItem,
           NEW tags \in Collection, NEW implicit, implicit \subseteq implicitOutEdges,
           InsertImplicitEdge(from, to, item, tags, implicit)
    PROVE  LatticeInv' /\ OnlyGrow
<1> USE DEF LatticeInv
<1> DEFINE key == <<from, to, item>>
<1>0. Len(text) \in Nat /\ Len(text') \in Nat /\ Len(text) <= Len(text')
      /\ nLooseVertices' \in Nat
    BY DEF VerticesGrow, LatticeTypeOK
<1>1. /\ from \in Int /\ to \in Int /\ 0 <= from /\ from + 1 = to /\ to <= Len(text')
    BY <1>0 DEF InsertImplicitEdge, becomesImplicit, isLooseVertex, Vertices
<1>2. /\ implicitOutEdges' = implicit \cup {from}
      /\ vvcHash' = With(vvcHash, key, Append(registered(key), Implicit(from)))
      /\ indexedTagMasks' = indexAfterLookUp(TRUE)
      /\ UNCHANGED <<edges, hiddenImplicitOutEdges>>
    BY DEF InsertImplicitEdge
<1>3. GoodIndex(indexAfterLookUp(TRUE))
    BY LookedUpIndex
<1>4. registered(key) \in Seq(EdgeDescriptor) /\ Implicit(from) \in EdgeDescriptor
    BY <1>1, RegisteredType DEF Implicit, EdgeDescriptor
<1>a. LatticeTypeOK'
    <2>1. IsMap(vvcHash', Key, Seq(EdgeDescriptor))
        <3>1. key \in Key
            BY <1>1 DEF Key
        <3>2. Append(registered(key), Implicit(from)) \in Seq(EdgeDescriptor)
            BY <1>4
        <3> QED BY <1>2, <3>1, <3>2 DEF LatticeTypeOK, IsMap, With
    <2>2. /\ IsMap(edgeCounterHash', VertexPair, Nat)
          /\ visibleImplicitOutEdges' \in SUBSET Int
        BY <1>1, RevealTypes DEF InsertImplicitEdge
    <2>3. implicitOutEdges' \in SUBSET Nat
        BY <1>1, <1>2 DEF LatticeTypeOK
    <2> QED BY <1>2, <1>3, <2>1, <2>2, <2>3 DEF LatticeTypeOK, VerticesGrow, GoodIndex
<1>b. WithinText'
    <2>1. implicitOutEdges' \subseteq 0 .. Len(text') - 1
        <3>1. \A v \in implicit : v \in 0 .. Len(text) - 1
            BY DEF WithinText
        <3>2. \A v \in implicit : v \in 0 .. Len(text') - 1
            BY <1>0, <3>1
        <3>3. from \in 0 .. Len(text') - 1
            BY <1>0, <1>1
        <3> QED BY <1>2, <3>2, <3>3
    <2>2. \A e \in DOMAIN edges : edges[e].from \in Vertices' /\ edges[e].to \in Vertices'
        BY VerticesKept DEF WithinText
    <2> QED BY <1>2, <2>1, <2>2 DEF WithinText
<1>c. RegistryAgrees'
    <2>1. ASSUME NEW k \in DOMAIN vvcHash', NEW i \in DOMAIN vvcHash'[k],
                 NEW d, d = vvcHash'[k][i]
          PROVE  /\ isExplicit(d) => d.at \in DOMAIN edges /\ k[3] = edges[d.at].item
                 /\ k[1] = getEdgeSource(d)
                 /\ k[2] = getEdgeTarget(d)
        <3>0. vvcHash'[k] = registered(k)'
            BY DEF registered
        <3>1. CASE i \in DOMAIN registered(k) /\ d = registered(k)[i]
            BY <3>1, RegisteredFacts
        <3>2. CASE ~(i \in DOMAIN registered(k) /\ d = registered(k)[i])
            <4>1. k = key /\ d = Implicit(from)
                BY <1>2, <1>4, <2>1, <3>0, <3>2, RegisterMore
            <4> QED BY <1>1, <4>1 DEF Implicit, isExplicit, getEdgeSource, getEdgeTarget
        <3> QED BY <3>1, <3>2
    <2>2. ASSUME NEW e \in DOMAIN edges, NEW k, k = <<edges[e].from, edges[e].to, edges[e].item>>
          PROVE  \E i \in DOMAIN registered(k)' : registered(k)'[i] = Explicit(e)
        <3>1. \E i \in DOMAIN registered(k) : registered(k)[i] = Explicit(e)
            BY <2>2 DEF RegistryAgrees
        <3> QED BY <1>2, <1>4, <3>1, RegisterMore
    <2> QED BY <1>2, <2>1, <2>2
            DEF RegistryAgrees, getEdgeSource, getEdgeTarget, isExplicit, Explicit
<1>d. PartitionTagsHeld'
    BY <1>2 DEF PartitionTagsHeld
<1>e. IndexSound' /\ FirstTagsIndexed'
    BY <1>2, <1>3 DEF GoodIndex, IndexSound, FirstTagsIndexed
<1>f. OneEdgePerPlane'
    <2>1. ASSUME NEW k, \E i \in DOMAIN registered(k) : ~isExplicit(registered(k)[i])
          PROVE  \E i \in DOMAIN registered(k)' : ~isExplicit(registered(k)'[i])
        BY <1>2, <1>4, <2>1, RegisterMore
    <2> QED BY <1>2, <2>1 DEF OneEdgePerPlane, isExplicit
<1>g. OnlyGrow
    BY <1>2, EdgeFields DEF OnlyGrow, areInTheSamePlane
<1> QED BY <1>a, <1>b, <1>c, <1>d, <1>e, <1>f, <1>g

\* Inserting an edge into the graph.
LEMMA InsertExplicitPreserves ==
    ASSUME LatticeInv, VerticesGrow,
           NEW from \in Vertices', NEW to \in Vertices', NEW item \in AnnotationItem,
           NEW tags \in Collection, NEW sequence \in EdgeSequence, NEW score \in Int,
           NEW implicit, implicit \subseteq implicitOutEdges, NEW looked \in BOOLEAN,
           NewInPlane(<<from, to, item>>, tags),
           InsertExplicitEdge(from, to, item, tags, sequence, score, implicit, looked)
    PROVE  LatticeInv' /\ OnlyGrow
<1> USE DEF LatticeInv
<1> DEFINE key   == <<from, to, item>>
           e     == Len(edges) + 1
           part  == [tags |-> tags, sequence |-> sequence, score |-> score]
           entry == [from |-> from, to |-> to, item |-> item, tags |-> tags, score |-> score,
                     partitions |-> <<part>>]
           index == indexAfterLookUp(looked \/ tags = {Symbol})
<1>0. Len(text) \in Nat /\ Len(text') \in Nat /\ Len(text) <= Len(text')
      /\ nLooseVertices' \in Nat
    BY DEF VerticesGrow, LatticeTypeOK
<1>1. from \in Int /\ to \in Int /\ to <= Len(text')
    BY <1>0 DEF Vertices
<1>2. /\ CountAndReveal(from, to, tags, implicit)
      /\ implicitOutEdges' = implicit
      /\ edges' = Append(edges, entry)
      /\ vvcHash' = With(vvcHash, key, Append(registered(key), Explicit(e)))
      /\ indexedTagMasks' = indexEdge(index, e, tags)
      /\ hiddenImplicitOutEdges' = hiddenImplicitOutEdges \cup hiddenBelow(from, to)
    BY DEF InsertExplicitEdge
<1>3. GoodIndex(index)
    BY LookedUpIndex
<1>4. part \in Partition
    BY DEF Partition
<1>5. /\ entry \in EdgeEntry
      /\ entry.from = from /\ entry.to = to /\ entry.item = item /\ entry.tags = tags
      /\ entry.partitions = <<part>>
      /\ entry.partitions # <<>>
      /\ \A i \in DOMAIN entry.partitions : entry.partitions[i].tags = tags
    <2>1. part.tags = tags
        OBVIOUS
    <2> HIDE DEF part
    <2>2. <<part>> \in Seq(Partition)
        BY <1>4
    <2>3. entry \in EdgeEntry
        BY <1>1, <2>2 DEF EdgeEntry
    <2> QED BY <2>1, <2>3
<1> HIDE DEF entry, index
<1>6. edges \in Seq(EdgeEntry) /\ e \in Nat /\ e \notin DOMAIN edges
    BY DEF LatticeTypeOK
<1>7. /\ edges' \in Seq(EdgeEntry)
      /\ DOMAIN edges' = DOMAIN edges \cup {e}
      /\ edges'[e] = entry
      /\ \A f \in DOMAIN edges : edges'[f] = edges[f]
    BY <1>2, <1>5, <1>6
<1>8. Explicit(e) \in EdgeDescriptor /\ isExplicit(Explicit(e)) /\ Explicit(e).at = e
    BY <1>6 DEF Explicit, EdgeDescriptor, isExplicit
<1> HIDE DEF e
<1>a. LatticeTypeOK'
    <2>1. IsMap(vvcHash', Key, Seq(EdgeDescriptor))
        <3>1. key \in Key
            BY <1>1 DEF Key
        <3>2. Append(registered(key), Explicit(e)) \in Seq(EdgeDescriptor)
            BY <1>8, RegisteredType
        <3> QED BY <1>2, <3>1, <3>2 DEF LatticeTypeOK, IsMap, With
    <2>2. /\ IsMap(edgeCounterHash', VertexPair, Nat)
          /\ visibleImplicitOutEdges' \in SUBSET Int
        BY <1>1, <1>2, RevealTypes
    <2>3. implicitOutEdges' \in SUBSET Nat
        BY <1>2 DEF LatticeTypeOK
    <2>4. hiddenBelow(from, to) \in SUBSET Nat
        BY <1>1 DEF hiddenBelow, isLooseVertex
    <2>5. IsMap(indexedTagMasks', Mask, EdgeIds)
        BY <1>2, <1>3, <1>6 DEF GoodIndex, indexEdge, IsMap, EdgeIds
    <2> QED BY <1>2, <1>7, <2>1, <2>2, <2>3, <2>4, <2>5 DEF LatticeTypeOK, VerticesGrow
<1>b. WithinText'
    <2>1. implicitOutEdges' \subseteq 0 .. Len(text') - 1
        <3>1. \A v \in implicit : v \in 0 .. Len(text) - 1
            BY DEF WithinText
        <3> QED BY <1>0, <1>2, <3>1
    <2>2. \A f \in DOMAIN edges : edges[f].from \in Vertices' /\ edges[f].to \in Vertices'
        BY VerticesKept DEF WithinText
    <2> QED BY <1>5, <1>7, <2>1, <2>2 DEF WithinText
<1>c. RegistryAgrees'
    <2>1. ASSUME NEW k \in DOMAIN vvcHash', NEW i \in DOMAIN vvcHash'[k],
                 NEW d, d = vvcHash'[k][i]
          PROVE  /\ isExplicit(d) => d.at \in DOMAIN edges' /\ k[3] = edges'[d.at].item
                 /\ k[1] = getEdgeSource(d)'
                 /\ k[2] = getEdgeTarget(d)'
        <3>0. vvcHash'[k] = registered(k)'
            BY DEF registered
        <3>1. CASE i \in DOMAIN registered(k) /\ d = registered(k)[i]
            <4>1. /\ isExplicit(d) => d.at \in DOMAIN edges /\ k[3] = edges[d.at].item
                  /\ k[1] = getEdgeSource(d)
                  /\ k[2] = getEdgeTarget(d)
                BY <3>1, RegisteredFacts
            <4> QED BY <1>7, <4>1 DEF getEdgeSource, getEdgeTarget
        <3>2. CASE ~(i \in DOMAIN registered(k) /\ d = registered(k)[i])
            <4>1. k = key /\ d = Explicit(e)
                BY <1>2, <1>8, <2>1, <3>0, <3>2, RegisterMore
            <4> QED BY <1>5, <1>7, <1>8, <4>1 DEF getEdgeSource, getEdgeTarget
        <3> QED BY <3>1, <3>2
    <2>2. ASSUME NEW f \in DOMAIN edges',
                 NEW k, k = <<edges'[f].from, edges'[f].to, edges'[f].item>>
          PROVE  \E i \in DOMAIN registered(k)' : registered(k)'[i] = Explicit(f)
        <3>1. CASE f = e
            <4>1. k = key
                BY <1>5, <1>7, <2>2, <3>1
            <4> QED BY <1>2, <1>8, <3>1, <4>1, RegisterMore
        <3>2. CASE f \in DOMAIN edges
            <4>1. \E i \in DOMAIN registered(k) : registered(k)[i] = Explicit(f)
                BY <1>7, <2>2, <3>2 DEF RegistryAgrees
            <4> QED BY <1>2, <1>8, <4>1, RegisterMore
        <3> QED BY <1>7, <3>1, <3>2
    <2> QED BY <2>1, <2>2 DEF RegistryAgrees, isExplicit, Explicit
<1>d. PartitionTagsHeld'
    BY <1>5, <1>7 DEF PartitionTagsHeld
<1>e. IndexSound'
    <2>1. ASSUME NEW mask \in DOMAIN index, NEW f \in indexEdge(index, e, tags)[mask]
          PROVE  f \in DOMAIN edges' /\ matches(edges'[f].tags, mask)
        <3>1. CASE f \in index[mask]
            BY <1>3, <1>7, <3>1 DEF GoodIndex
        <3>2. CASE f \notin index[mask]
            <4>1. f = e /\ matches(tags, mask)
                BY <2>1, <3>2 DEF indexEdge
            <4> QED BY <1>5, <1>7, <4>1
        <3> QED BY <3>1, <3>2
    <2>2. DOMAIN indexEdge(index, e, tags) = DOMAIN index
        BY DEF indexEdge
    <2> QED BY <1>2, <2>1, <2>2 DEF IndexSound
<1>f. FirstTagsIndexed'
    <2>1. ASSUME NEW mask \in DOMAIN index, NEW f \in DOMAIN edges',
                 matches(edges'[f].partitions[1].tags, mask)
          PROVE  f \in indexEdge(index, e, tags)[mask]
        <3>1. CASE f \in DOMAIN edges
            BY <1>3, <1>7, <2>1, <3>1 DEF GoodIndex, indexEdge
        <3>2. CASE f = e
            <4>1. edges'[f].partitions[1].tags = tags
                BY <1>5, <1>7, <3>2
            <4> QED BY <2>1, <3>2, <4>1 DEF indexEdge
        <3> QED BY <1>7, <3>1, <3>2
    <2>2. DOMAIN indexEdge(index, e, tags) = DOMAIN index
        BY DEF indexEdge
    <2> QED BY <1>2, <2>1, <2>2 DEF FirstTagsIndexed
<1>g. OneEdgePerPlane'
    <2>1. ASSUME NEW k, \E i \in DOMAIN registered(k) : ~isExplicit(registered(k)[i])
          PROVE  \E i \in DOMAIN registered(k)' : ~isExplicit(registered(k)'[i])
        BY <1>2, <1>8, <2>1, RegisterMore
    <2>2. ASSUME NEW f \in DOMAIN edges,
                 key = <<edges[f].from, edges[f].to, edges[f].item>>,
                 areInTheSamePlane(tags, edges[f].tags)
          PROVE  \E i \in DOMAIN registered(key) : ~isExplicit(registered(key)[i])
        <3>1. PICK i \in DOMAIN registered(key) : registered(key)[i] = Explicit(f)
            BY <2>2 DEF RegistryAgrees
        <3>2. getEdgeLayerTags(Explicit(f)) = edges[f].tags
            BY DEF getEdgeLayerTags, isExplicit, Explicit
        <3> QED BY <2>2, <3>1, <3>2 DEF NewInPlane
    <2>3. ASSUME NEW f \in DOMAIN edges', NEW g \in DOMAIN edges', f # g,
                 NEW k, k = <<edges'[f].from, edges'[f].to, edges'[f].item>>,
                 k = <<edges'[g].from, edges'[g].to, edges'[g].item>>,
                 areInTheSamePlane(edges'[f].tags, edges'[g].tags)
          PROVE  \E i \in DOMAIN registered(k)' : ~isExplicit(registered(k)'[i])
        <3>1. CASE f \in DOMAIN edges /\ g \in DOMAIN edges
            <4>1. \E i \in DOMAIN registered(k) : ~isExplicit(registered(k)[i])
                BY <1>7, <2>3, <3>1 DEF OneEdgePerPlane
            <4> QED BY <2>1, <4>1
        <3>2. CASE f = e /\ g \in DOMAIN edges
            <4>1. k = key /\ areInTheSamePlane(tags, edges[g].tags)
                BY <1>5, <1>7, <2>3, <3>2
            <4> QED BY <1>7, <2>1, <2>2, <2>3, <3>2, <4>1
        <3>3. CASE g = e /\ f \in DOMAIN edges
            <4>1. k = key /\ areInTheSamePlane(tags, edges[f].tags)
                BY <1>5, <1>7, <2>3, <3>3 DEF areInTheSamePlane
            <4> QED BY <1>7, <2>1, <2>2, <2>3, <3>3, <4>1
        <3> QED BY <1>7, <2>3, <3>1, <3>2, <3>3
    <2> QED BY <2>3 DEF OneEdgePerPlane, isExplicit
<1>h. OnlyGrow
    BY <1>7, EdgeFields DEF OnlyGrow, areInTheSamePlane
<1> QED BY <1>a, <1>b, <1>c, <1>d, <1>e, <1>f, <1>g, <1>h

-----------------------------------------------------------------------------
(* addEdge(), and the operations made of it.                               *)

\* Inserting an edge, as a bit or into the graph.
LEMMA InsertPreserves ==
    ASSUME LatticeInv, VerticesGrow,
           NEW from \in Vertices', NEW to \in Vertices', NEW item \in AnnotationItem,
           NEW tags \in Collection, NEW sequence \in EdgeSequence, NEW score \in Int,
           NEW implicit, implicit \subseteq implicitOutEdges, NEW looked \in BOOLEAN,
           NewInPlane(<<from, to, item>>, tags),
           InsertEdge(from, to, item, tags, sequence, score, implicit, looked)
    PROVE  LatticeInv' /\ OnlyGrow
<1>1. CASE InsertImplicitEdge(from, to, item, tags, implicit)
    BY <1>1, InsertImplicitPreserves
<1>2. CASE InsertExplicitEdge(from, to, item, tags, sequence, score, implicit, looked)
    BY <1>2, InsertExplicitPreserves
<1> QED BY <1>1, <1>2 DEF InsertEdge

\* addEdge(), whatever it does: throw, insert, merge or convert a symbol.
LEMMA AddEdgePreserves ==
    ASSUME LatticeInv, VerticesGrow,
           NEW from \in Vertices', NEW to \in Vertices', NEW item \in AnnotationItem,
           NEW givenTags \in Collection, NEW sequence \in EdgeSequence, NEW score \in Int,
           NEW lookedUp \in BOOLEAN,
           addEdge(from, to, item, givenTags, sequence, score, lookedUp)
    PROVE  LatticeInv' /\ OnlyGrow
<1> DEFINE tags   == inheritedTags(givenTags, sequence)
           key    == <<from, to, item>>
           hit    == isoplanarEdge(key, tags)
           looked == lookedUp \/ (hit # NoEdge /\ isRange(sequence))
           after  == lookedUp \/ (forwards(from, to) /\ looked)
<1>1. tags \in Collection
    BY TagAssumption DEF inheritedTags, gatherPlaneTags, onlyPlaneTags, Collection
<1>2. \/ /\ addEdgeThrows(from, to, hit, sequence)
         /\ indexedTagMasks' = indexAfterLookUp(after)
         /\ UNCHANGED <<implicitVars, edges, vvcHash, edgeCounterHash>>
      \/ /\ hit = NoEdge
         /\ InsertEdge(from, to, item, tags, sequence, score, implicitOutEdges, looked)
      \/ /\ hit # NoEdge /\ isExplicit(hit)
         /\ MergeIntoEdge(hit.at, tags, sequence, score, indexAfterLookUp(looked))
      \/ /\ hit # NoEdge /\ ~isExplicit(hit)
         /\ InsertEdge(from, to, item, mergedTags({Symbol}, tags), sequence, score,
                       implicitOutEdges \ {from}, looked)
    BY DEF addEdge
<1>3. \/ /\ hit = NoEdge
         /\ \A i \in DOMAIN registered(key) :
               ~areInTheSamePlane(tags, getEdgeLayerTags(registered(key)[i]))
      \/ /\ hit # NoEdge
         /\ \E i \in DOMAIN registered(key) :
               /\ hit = registered(key)[i]
               /\ areInTheSamePlane(tags, getEdgeLayerTags(hit))
    BY IsoplanarHit DEF LatticeInv
<1>4. looked \in BOOLEAN /\ after \in BOOLEAN
    BY DEF isRange, forwards
<1> HIDE DEF tags, hit, looked, after
<1>5. CASE /\ indexedTagMasks' = indexAfterLookUp(after)
           /\ UNCHANGED <<implicitVars, edges, vvcHash, edgeCounterHash>>
    BY <1>4, <1>5, LookedUpIndex, OnlyIndexChanges
<1>6. CASE /\ hit = NoEdge
           /\ InsertEdge(from, to, item, tags, sequence, score, implicitOutEdges, looked)
    <2>1. NewInPlane(key, tags)
        BY <1>3, <1>6 DEF NewInPlane
    <2> QED BY <1>1, <1>4, <1>6, <2>1, InsertPreserves
<1>7. CASE /\ hit # NoEdge /\ isExplicit(hit)
           /\ MergeIntoEdge(hit.at, tags, sequence, score, indexAfterLookUp(looked))
    <2>1. PICK i \in DOMAIN registered(key) : /\ hit = registered(key)[i]
                                             /\ areInTheSamePlane(tags, getEdgeLayerTags(hit))
        BY <1>3, <1>7
    <2>2. hit.at \in DOMAIN edges
        BY <1>7, <2>1, RegisteredFacts DEF LatticeInv
    <2>3. areInTheSamePlane(tags, edges[hit.at].tags)
        BY <1>7, <2>1 DEF getEdgeLayerTags
    <2>4. GoodIndex(indexAfterLookUp(looked))
        BY <1>4, LookedUpIndex
    <2> QED BY <1>1, <1>7, <2>2, <2>3, <2>4, MergePreserves
<1>8. CASE /\ hit # NoEdge /\ ~isExplicit(hit)
           /\ InsertEdge(from, to, item, mergedTags({Symbol}, tags), sequence, score,
                         implicitOutEdges \ {from}, looked)
    <2>1. PICK i \in DOMAIN registered(key) : hit = registered(key)[i]
        BY <1>3, <1>8
    <2>2. NewInPlane(key, mergedTags({Symbol}, tags))
        BY <1>8, <2>1 DEF NewInPlane
    <2>3. mergedTags({Symbol}, tags) \in Collection
        BY <1>1, SymbolTag DEF mergedTags, Collection
    <2> QED BY <1>4, <1>8, <2>2, <2>3, InsertPreserves
<1> QED BY <1>2, <1>5, <1>6, <1>7, <1>8

\* Every sequence of subedges a client builds is an EdgeSequence.
LEMMA SequenceTypes ==
    ASSUME LatticeInv, NEW from, NEW to, NEW sequence \in Sequences(from, to)
    PROVE  sequence \in EdgeSequence
<1>1. EmptySequence \in EdgeSequence
    BY DEF EmptySequence, EdgeSequence
<1>2. ASSUME NEW n \in 1 .. MaxPath, NEW path \in [1 .. n -> Edges]
      PROVE  build(path) \in EdgeSequence
    <2>0. n \in Nat /\ n >= 1
        BY LatticeAssumption
    <2>1. \A i \in 1 .. n : path[i] \in EdgeDescriptor
        BY DescriptorFields DEF LatticeInv
    <2>2. path \in Seq(EdgeDescriptor) /\ Len(path) = n
        BY <2>0, <2>1
    <2>3. CASE path # <<>> /\ \A i \in DOMAIN path : isEdgeHidden(path[i])
        <3>1. ~isExplicit(path[1]) /\ ~isExplicit(path[Len(path)])
            BY <2>0, <2>2, <2>3 DEF isEdgeHidden
        <3>2. getEdgeSource(path[1]) \in Nat /\ getEdgeTarget(path[Len(path)]) \in Nat
            BY <2>0, <2>1, <2>2, <3>1 DEF getEdgeSource, getEdgeTarget, EdgeDescriptor
        <3> QED BY <2>3, <3>2 DEF build, EdgeSequence
    <2>4. CASE ~(path # <<>> /\ \A i \in DOMAIN path : isEdgeHidden(path[i]))
        BY <2>2, <2>4 DEF build, EdgeSequence
    <2> QED BY <2>3, <2>4
<1> QED BY <1>1, <1>2 DEF Sequences

\* The arguments addSymbols(), discard() and the corrections pass to addEdge().
LEMMA PlainArguments ==
    /\ EmptySequence \in EdgeSequence
    /\ {Symbol} \in Collection
    /\ {Discarded} \in Collection
    /\ LowestScore \in Int
    /\ \A c \in Char : SymbolItem(c) \in AnnotationItem /\ SymbolItemWithText(c) \in AnnotationItem
BY SymbolTag, LatticeAssumption
   DEF EmptySequence, EdgeSequence, Collection, SymbolItem, SymbolItemWithText, AnnotationItem

\* The edge firstOutEdge() finds ends at a vertex and bears an annotation.
LEMMA SymbolEdgeFields ==
    ASSUME LatticeInv, NEW v, NEW d, d = firstSymbolOutEdge(v), d # NoEdge
    PROVE  /\ getEdgeTarget(d) \in Vertices
           /\ getEdgeAnnotationItem(d) \in AnnotationItem
BY FirstSymbolIsEdge, DescriptorFields DEF LatticeInv

\* Steps that leave the vertices alone.
LEMMA SameVertices ==
    ASSUME LatticeInv, UNCHANGED <<text, nLooseVertices>>
    PROVE  VerticesGrow /\ Vertices' = Vertices
BY DEF LatticeInv, LatticeTypeOK, VerticesGrow, Vertices

\* Operations that leave the edges alone: the text and the vertices grow.
LEMMA LatticeUnchanged ==
    ASSUME LatticeInv, VerticesGrow, UNCHANGED latticeVars
    PROVE  LatticeInv' /\ OnlyGrow
<1>1. GoodIndex(indexedTagMasks)
    BY DEF GoodIndex, LatticeInv, LatticeTypeOK, IndexSound, FirstTagsIndexed
<1> QED BY <1>1, OnlyIndexChanges DEF latticeVars

\* A symbol look-up that adds nothing.
LEMMA LookUpPreserves ==
    ASSUME LatticeInv, UNCHANGED <<text, nLooseVertices>>, OnlyLookedUp
    PROVE  LatticeInv' /\ OnlyGrow
BY SameVertices, LookedUpIndex, OnlyIndexChanges DEF OnlyLookedUp

\* bridgeErased(), the body of correctionErase().
LEMMA BridgePreserves ==
    ASSUME LatticeInv, UNCHANGED <<text, nLooseVertices>>,
           NEW from \in Vertices, NEW to, bridgeErased(from, to)
    PROVE  LatticeInv' /\ OnlyGrow
<1> DEFINE nextEdge == firstSymbolOutEdge(to)
<1>1. CASE nextEdge = NoEdge
    BY <1>1, LookUpPreserves DEF bridgeErased
<1>2. CASE nextEdge # NoEdge
    <2>1. addEdge(from, getEdgeTarget(nextEdge), getEdgeAnnotationItem(nextEdge), {Symbol},
                  EmptySequence, 0, TRUE)
        BY <1>2 DEF bridgeErased
    <2>2. getEdgeTarget(nextEdge) \in Vertices /\ getEdgeAnnotationItem(nextEdge) \in AnnotationItem
        BY <1>2, SymbolEdgeFields
    <2> HIDE DEF nextEdge
    <2>3. VerticesGrow /\ from \in Vertices' /\ getEdgeTarget(nextEdge) \in Vertices'
        BY <2>2, SameVertices
    <2>4. EmptySequence \in EdgeSequence /\ {Symbol} \in Collection /\ 0 \in Int /\ TRUE \in BOOLEAN
        BY PlainArguments
    <2> QED BY <2>1, <2>2, <2>3, <2>4, AddEdgePreserves
<1> QED BY <1>1, <1>2

\* addPartitionToEdge().
LEMMA AddPartitionPreserves ==
    ASSUME LatticeInv, NEW d \in Edges, NEW tags \in Collection,
           NEW sequence \in EdgeSequence, NEW score \in Int,
           AddPartitionToEdge(d, tags, sequence, score)
    PROVE  LatticeInv' /\ OnlyGrow /\ UNCHANGED <<text, nLooseVertices, call>>
<1> DEFINE allTags == tags \cup onlyPlaneTags(getEdgeLayerTags(d))
<1>1. /\ getEdgeSource(d) \in Vertices /\ getEdgeTarget(d) \in Vertices
      /\ getEdgeAnnotationItem(d) \in AnnotationItem
      /\ getEdgeLayerTags(d) \in Collection
    BY DescriptorFields DEF LatticeInv
<1>2. allTags \in Collection
    BY <1>1 DEF Collection, onlyPlaneTags
<1>3. /\ addEdge(getEdgeSource(d), getEdgeTarget(d), getEdgeAnnotationItem(d), allTags, sequence,
                score, FALSE)
      /\ UNCHANGED <<text, nLooseVertices, call>>
    BY DEF AddPartitionToEdge, AddEdge
<1> HIDE DEF allTags
<1> QED BY <1>1, <1>2, <1>3, SameVertices, AddEdgePreserves

-----------------------------------------------------------------------------
(* The steps.                                                              *)

\* The idle lattice has no loop in progress.
LEMMA NoCallFacts == NoCall \in Call /\ NoCall.op = "none"
BY DEF NoCall, Call

\* The end of a loop.
LEMMA IdleAfter ==
    ASSUME call' = NoCall
    PROVE  (call \in Call)' /\ CallOnVertices'
BY NoCallFacts DEF CallOnVertices

\* The loop of addSymbols() starts within the text.
LEMMA SymbolsCall ==
    ASSUME NEW start \in Nat, NEW end \in Int, start < end, Len(text') \in Int, end <= Len(text'),
           call' = [op |-> "symbols", here |-> 0, at |-> start, to |-> end,
                    rest |-> <<>>, whole |-> <<>>]
    PROVE  (call \in Call)' /\ CallOnVertices'
<1>1. <<>> \in Seq(Char)
    OBVIOUS
<1>2. call' \in Call
    BY <1>1 DEF Call
<1>3. call'.op = "symbols" /\ call'.at = start /\ call'.to = end
    OBVIOUS
<1> QED BY <1>2, <1>3 DEF CallOnVertices

\* The locals of a loop stay on the lattice while it only grows.
LEMMA CallKept ==
    ASSUME Inv, VerticesGrow, UNCHANGED call
    PROVE  (call \in Call)' /\ CallOnVertices'
<1>1. Len(text) \in Nat /\ Len(text') \in Nat /\ Len(text) <= Len(text')
    BY DEF Inv, LatticeInv, LatticeTypeOK, VerticesGrow
<1>2. Vertices \subseteq Vertices'
    BY VerticesKept DEF Inv, LatticeInv
<1>3. call \in Call /\ call.to \in Int
    BY DEF Inv, Call
<1> QED BY <1>1, <1>2, <1>3 DEF Inv, CallOnVertices

\* appendString() and the begin of appendStringWithSymbols().
LEMMA AppendPreserves ==
    ASSUME Inv, NEW s \in Strings, AppendString(s) \/ AppendStringWithSymbols(s)
    PROVE  Inv' /\ OnlyGrow
<1>1. s \in Seq(Char) /\ text \in Seq(Char) /\ nLooseVertices \in Nat
    BY LatticeAssumption DEF Inv, LatticeInv, LatticeTypeOK
<1>2. text' = text \o s /\ UNCHANGED <<nLooseVertices, latticeVars>>
    BY DEF AppendString, AppendStringWithSymbols
<1>3. text' \in Seq(Char) /\ Len(text') = Len(text) + Len(s) /\ Len(text) \in Nat /\ Len(s) \in Nat
    BY <1>1, <1>2
<1>4. VerticesGrow
    BY <1>1, <1>2, <1>3 DEF VerticesGrow
<1>5. LatticeInv' /\ OnlyGrow
    BY <1>2, <1>4, LatticeUnchanged DEF Inv
<1>6. (call \in Call)' /\ CallOnVertices'
    <2>1. CASE AppendString(s)
        BY <1>4, <2>1, CallKept DEF AppendString
    <2>2. CASE AppendStringWithSymbols(s) /\ call' = NoCall
        BY <2>2, IdleAfter
    <2>3. CASE AppendStringWithSymbols(s) /\ call' # NoCall
        <3>1. s # <<>> /\ call' = [NoCall EXCEPT !.op = "symbols", !.at = Len(text),
                                                !.to = Len(text \o s)]
            BY <2>3 DEF AppendStringWithSymbols
        <3>2. Len(s) > 0 /\ Len(text \o s) = Len(text')
            BY <1>1, <1>2, <3>1
        <3>3. call' = [op |-> "symbols", here |-> 0, at |-> Len(text), to |-> Len(text'),
                       rest |-> <<>>, whole |-> <<>>]
            BY <3>1, <3>2 DEF NoCall
        <3> QED BY <1>3, <3>2, <3>3, SymbolsCall
    <2> QED BY <2>1, <2>2, <2>3
<1> QED BY <1>5, <1>6 DEF Inv

\* The begin of addSymbols().
LEMMA AddSymbolsPreserves ==
    ASSUME Inv, NEW start \in 0 .. Len(text), NEW end \in 0 .. Len(text), AddSymbols(start, end)
    PROVE  Inv' /\ OnlyGrow
<1>1. VerticesGrow
    BY SameVertices DEF Inv, AddSymbols
<1>2. LatticeInv' /\ OnlyGrow
    BY <1>1, LatticeUnchanged DEF Inv, AddSymbols
<1>3. Len(text) \in Nat
    BY DEF Inv, LatticeInv, LatticeTypeOK
<1>4. /\ start < end /\ text' = text
      /\ call' = [op |-> "symbols", here |-> 0, at |-> start, to |-> end,
                  rest |-> <<>>, whole |-> <<>>]
    BY DEF AddSymbols, NoCall
<1>5. (call \in Call)' /\ CallOnVertices'
    BY <1>3, <1>4, SymbolsCall
<1> QED BY <1>2, <1>5 DEF Inv

\* One character of addSymbols().
LEMMA AddSymbolsStepPreserves ==
    ASSUME Inv, AddSymbolsStep
    PROVE  Inv' /\ OnlyGrow
<1> DEFINE item == SymbolItem(text[call.at + 1])
<1>0. text \in Seq(Char) /\ Len(text) \in Nat /\ nLooseVertices \in Nat
    BY DEF Inv, LatticeInv, LatticeTypeOK
<1>1. /\ call.op = "symbols" /\ UNCHANGED <<text, nLooseVertices>>
      /\ addEdge(call.at, call.at + 1, item, {Symbol}, EmptySequence, 0, FALSE)
      /\ call' = IF call.at + 1 = call.to THEN NoCall ELSE [call EXCEPT !.at = @ + 1]
    BY DEF AddSymbolsStep
<1>2. /\ call.at \in Int /\ call.to \in Int
      /\ 0 <= call.at /\ call.at < call.to /\ call.to <= Len(text)
    BY <1>1 DEF Inv, Call, CallOnVertices
<1>3. VerticesGrow /\ Vertices' = Vertices
    BY <1>1, SameVertices DEF Inv
<1>4. call.at \in Vertices' /\ call.at + 1 \in Vertices'
    <2>1. call.at \in Vertices /\ call.at + 1 \in Vertices
        BY <1>0, <1>2 DEF Vertices
    <2> QED BY <1>3, <2>1
<1>5. item \in AnnotationItem
    <2>1. text[call.at + 1] \in Char
        BY <1>0, <1>2
    <2> QED BY <2>1, PlainArguments
<1>6. EmptySequence \in EdgeSequence /\ {Symbol} \in Collection /\ 0 \in Int /\ FALSE \in BOOLEAN
    BY PlainArguments
<1> HIDE DEF item
<1>7. LatticeInv' /\ OnlyGrow
    BY <1>1, <1>3, <1>4, <1>5, <1>6, AddEdgePreserves DEF Inv
<1>8. (call \in Call)' /\ CallOnVertices'
    <2>1. CASE call.at + 1 = call.to
        BY <1>1, <2>1, IdleAfter
    <2>2. CASE call.at + 1 # call.to
        <3>1. call' = [call EXCEPT !.at = call.at + 1]
            BY <1>1, <2>2
        <3>2. call \in Call
            BY DEF Inv
        <3>3. /\ call' \in Call
              /\ call'.op = "symbols" /\ call'.at = call.at + 1 /\ call'.to = call.to
            BY <1>1, <1>2, <3>1, <3>2 DEF Call
        <3> QED BY <1>1, <1>2, <2>2, <3>3 DEF CallOnVertices
    <2> QED BY <2>1, <2>2
<1> QED BY <1>7, <1>8 DEF Inv

\* addLooseVertex().
LEMMA AddLooseVertexPreserves ==
    ASSUME Inv, AddLooseVertex
    PROVE  Inv' /\ OnlyGrow
<1>1. VerticesGrow
    BY DEF Inv, LatticeInv, LatticeTypeOK, AddLooseVertex, VerticesGrow
<1>2. LatticeInv' /\ OnlyGrow
    BY <1>1, LatticeUnchanged DEF Inv, AddLooseVertex
<1>3. (call \in Call)' /\ CallOnVertices'
    BY <1>1, CallKept DEF AddLooseVertex
<1> QED BY <1>2, <1>3 DEF Inv

\* Annotators adding edges.
LEMMA AnnotatePreserves ==
    ASSUME Inv, Annotate
    PROVE  Inv' /\ OnlyGrow
<1>1. PICK from \in Vertices, to \in Vertices, a \in Annotations, score \in Scores :
          \E sequence \in Sequences(from, to) : AddEdge(from, to, a[1], a[2], sequence, score)
    BY DEF Annotate
<1>2. PICK sequence \in Sequences(from, to) : AddEdge(from, to, a[1], a[2], sequence, score)
    BY <1>1
<1>3. /\ addEdge(from, to, a[1], a[2], sequence, score, FALSE)
      /\ UNCHANGED <<text, nLooseVertices, call>>
    BY <1>2 DEF AddEdge
<1>4. a[1] \in AnnotationItem /\ a[2] \in Collection /\ score \in Int
    BY LatticeAssumption DEF AnnotationItem
<1>5. sequence \in EdgeSequence
    BY SequenceTypes DEF Inv
<1>6. VerticesGrow /\ Vertices' = Vertices
    BY <1>3, SameVertices DEF Inv
<1>7. LatticeInv' /\ OnlyGrow
    BY <1>3, <1>4, <1>5, <1>6, AddEdgePreserves DEF Inv
<1>8. (call \in Call)' /\ CallOnVertices'
    BY <1>3, <1>6, CallKept
<1> QED BY <1>7, <1>8 DEF Inv

\* Annotators adding partitions, and discard().
LEMMA ReannotatePreserves ==
    ASSUME Inv, NEW d \in Edges, NEW tags \in Collection, NEW sequence \in EdgeSequence,
           NEW score \in Int, AddPartitionToEdge(d, tags, sequence, score)
    PROVE  Inv' /\ OnlyGrow
<1>1. LatticeInv' /\ OnlyGrow /\ UNCHANGED <<text, nLooseVertices, call>>
    BY AddPartitionPreserves DEF Inv
<1>2. VerticesGrow
    BY <1>1, SameVertices DEF Inv
<1>3. (call \in Call)' /\ CallOnVertices'
    BY <1>1, <1>2, CallKept
<1> QED BY <1>1, <1>3 DEF Inv

\* outEdges() and inEdges().
LEMMA QueryPreserves ==
    ASSUME Inv, NEW mask \in Masks, QueryEdges(mask)
    PROVE  Inv' /\ OnlyGrow
<1>1. mask \in Mask
    BY LatticeAssumption
<1>2. GoodIndex(addTagMaskIndex_(mask))
    BY <1>1, IndexAdded DEF Inv, LatticeInv
<1>3. VerticesGrow
    BY SameVertices DEF Inv, QueryEdges
<1>4. LatticeInv' /\ OnlyGrow
    BY <1>2, <1>3, OnlyIndexChanges DEF Inv, QueryEdges
<1>5. (call \in Call)' /\ CallOnVertices'
    BY <1>3, CallKept DEF QueryEdges
<1> QED BY <1>4, <1>5 DEF Inv

\* A correction starts or goes on: its locals are vertices and texts.
LEMMA CorrectionCall ==
    ASSUME NEW op \in {"insert", "replace"}, NEW here \in Int, NEW at \in Int, NEW to \in Int,
           NEW rest \in Seq(Char), NEW whole \in Seq(Char),
           op = "insert" => here \in Vertices' /\ at \in Vertices',
           op = "replace" => at \in Vertices' /\ to \in Vertices',
           call' = [op |-> op, here |-> here, at |-> at, to |-> to, rest |-> rest, whole |-> whole]
    PROVE  (call \in Call)' /\ CallOnVertices'
<1>1. call' \in Call
    BY DEF Call
<1>2. call'.op = op /\ call'.here = here /\ call'.at = at /\ call'.to = to
    OBVIOUS
<1> QED BY <1>1, <1>2 DEF CallOnVertices

\* correctionInsert() starts, or follows correctionReplace().
LEMMA InsertCall ==
    ASSUME NEW here \in Vertices', NEW s \in Seq(Char),
           call' = [op |-> "insert", here |-> here, at |-> here, to |-> 0, rest |-> s,
                    whole |-> <<>>]
    PROVE  (call \in Call)' /\ CallOnVertices'
<1>1. <<>> \in Seq(Char) /\ here \in Int
    BY DEF Vertices
<1>2. call' \in Call
    BY <1>1 DEF Call
<1>3. call'.op = "insert" /\ call'.here = here /\ call'.at = here
    OBVIOUS
<1> QED BY <1>2, <1>3 DEF CallOnVertices

\* Vertices are integers.
LEMMA VerticesAreIntegers == Vertices \subseteq Int /\ Vertices' \subseteq Int
BY DEF Vertices

\* The begin of correctionInsert() and correctionReplace(), and correctionErase().
LEMMA CorrectPreserves ==
    ASSUME Inv, Correct
    PROVE  Inv' /\ OnlyGrow
<1>0. Len(text) \in Nat /\ nLooseVertices \in Nat
    BY DEF Inv, LatticeInv, LatticeTypeOK
<1>1. PICK from \in 0 .. Len(text), to \in 0 .. Len(text) :
          \/ CorrectionErase(from, to)
          \/ \E s \in Corrections :
                \/ CorrectionInsert(from, s)
                \/ CorrectionReplace(from, to, s)
    BY DEF Correct
<1>2. UNCHANGED <<text, nLooseVertices>>
    BY <1>1 DEF CorrectionErase, CorrectionInsert, CorrectionReplace
<1>3. VerticesGrow /\ Vertices' = Vertices
    BY <1>2, SameVertices DEF Inv
<1>4. from \in Vertices /\ to \in Vertices
    BY <1>0 DEF Vertices
<1>5. from \in Int /\ to \in Int
    OBVIOUS
<1>6. CASE CorrectionErase(from, to)
    <2>1. LatticeInv' /\ OnlyGrow
        BY <1>2, <1>4, <1>6, BridgePreserves DEF Inv, CorrectionErase
    <2>2. (call \in Call)' /\ CallOnVertices'
        BY <1>3, <1>6, CallKept DEF CorrectionErase
    <2> QED BY <2>1, <2>2 DEF Inv
<1>7. ASSUME NEW s \in Corrections, CorrectionInsert(from, s) \/ CorrectionReplace(from, to, s)
      PROVE  Inv' /\ OnlyGrow
    <2>1. s \in Seq(Char) /\ <<>> \in Seq(Char)
        BY LatticeAssumption
    <2>2. LatticeInv' /\ OnlyGrow
        BY <1>3, <1>7, LatticeUnchanged DEF Inv, CorrectionInsert, CorrectionReplace
    <2>3. CASE CorrectionInsert(from, s)
        <3>1. call' = [op |-> "insert", here |-> from, at |-> from, to |-> 0, rest |-> s,
                       whole |-> <<>>]
            BY <2>3 DEF CorrectionInsert, NoCall
        <3> QED BY <1>3, <1>4, <2>1, <2>2, <3>1, InsertCall DEF Inv
    <2>4. CASE CorrectionReplace(from, to, s)
        <3>1. call' = [op |-> "replace", here |-> from, at |-> from, to |-> to, rest |-> s,
                       whole |-> s]
            BY <2>4 DEF CorrectionReplace, NoCall
        <3> QED BY <1>3, <1>4, <1>5, <2>1, <2>2, <3>1, CorrectionCall DEF Inv
    <2> QED BY <1>7, <2>3, <2>4
<1> QED BY <1>1, <1>6, <1>7

\* One character of correctionInsert().
LEMMA CorrectionInsertStepPreserves ==
    ASSUME Inv, CorrectionInsertStep
    PROVE  Inv' /\ OnlyGrow
<1> DEFINE item == SymbolItemWithText(Head(call.rest))
<1>0. text \in Seq(Char) /\ Len(text) \in Nat /\ nLooseVertices \in Nat
    BY DEF Inv, LatticeInv, LatticeTypeOK
<1>1. /\ call.op = "insert" /\ call.rest # <<>>
      /\ nLooseVertices' = nLooseVertices + 1 /\ text' = text
      /\ addEdge(call.at, -nLooseVertices', item, {Symbol}, EmptySequence, 0, FALSE)
      /\ call' = [call EXCEPT !.at = -nLooseVertices', !.rest = Tail(call.rest)]
    BY DEF CorrectionInsertStep
<1>2. call \in Call /\ call.rest \in Seq(Char) /\ call.here \in Vertices /\ call.at \in Vertices
    BY <1>1 DEF Inv, Call, CallOnVertices
<1>3. VerticesGrow
    BY <1>0, <1>1 DEF VerticesGrow
<1>4. Vertices \subseteq Vertices'
    BY <1>3, VerticesKept DEF Inv, LatticeInv
<1>5. -nLooseVertices' \in Vertices'
    BY <1>0, <1>1 DEF Vertices
<1>6. item \in AnnotationItem /\ Tail(call.rest) \in Seq(Char)
    BY <1>1, <1>2, PlainArguments
<1>7. EmptySequence \in EdgeSequence /\ {Symbol} \in Collection /\ 0 \in Int /\ FALSE \in BOOLEAN
    BY PlainArguments
<1> HIDE DEF item
<1>8. LatticeInv' /\ OnlyGrow
    BY <1>1, <1>2, <1>3, <1>4, <1>5, <1>6, <1>7, AddEdgePreserves DEF Inv
<1>9. (call \in Call)' /\ CallOnVertices'
    <2>1. call' = [op |-> "insert", here |-> call.here, at |-> -nLooseVertices', to |-> call.to,
                   rest |-> Tail(call.rest), whole |-> call.whole]
        BY <1>1, <1>2 DEF Call
    <2>2. call.here \in Int /\ call.to \in Int /\ call.whole \in Seq(Char)
        BY <1>2 DEF Call
    <2> QED BY <1>2, <1>4, <1>5, <1>6, <2>1, <2>2, VerticesAreIntegers, CorrectionCall
<1> QED BY <1>8, <1>9 DEF Inv

\* correctionInsert() rejoins the text.
LEMMA CorrectionInsertJoinPreserves ==
    ASSUME Inv, CorrectionInsertJoin
    PROVE  Inv' /\ OnlyGrow
<1> DEFINE nextEdge == firstSymbolOutEdge(call.here)
<1>1. /\ call.op = "insert" /\ call' = NoCall /\ UNCHANGED <<text, nLooseVertices>>
      /\ \/ OnlyLookedUp
         \/ /\ nextEdge # NoEdge
            /\ addEdge(call.at, getEdgeTarget(nextEdge), getEdgeAnnotationItem(nextEdge),
                       {Symbol}, EmptySequence, 0, TRUE)
    BY DEF CorrectionInsertJoin, vertexBehind
<1>2. call.at \in Vertices
    BY <1>1 DEF Inv, CallOnVertices
<1>3. VerticesGrow /\ Vertices' = Vertices
    BY <1>1, SameVertices DEF Inv
<1>4. nextEdge # NoEdge =>
          getEdgeTarget(nextEdge) \in Vertices /\ getEdgeAnnotationItem(nextEdge) \in AnnotationItem
    BY SymbolEdgeFields DEF Inv
<1>5. EmptySequence \in EdgeSequence /\ {Symbol} \in Collection /\ 0 \in Int /\ TRUE \in BOOLEAN
    BY PlainArguments
<1> HIDE DEF nextEdge
<1>6. LatticeInv' /\ OnlyGrow
    <2>1. CASE OnlyLookedUp
        BY <1>1, <2>1, LookUpPreserves DEF Inv
    <2>2. CASE /\ nextEdge # NoEdge
               /\ addEdge(call.at, getEdgeTarget(nextEdge), getEdgeAnnotationItem(nextEdge),
                          {Symbol}, EmptySequence, 0, TRUE)
        BY <1>2, <1>3, <1>4, <1>5, <2>2, AddEdgePreserves DEF Inv
    <2> QED BY <1>1, <2>1, <2>2
<1> QED BY <1>1, <1>6, IdleAfter DEF Inv

\* One character of correctionReplace().
LEMMA CorrectionReplaceStepPreserves ==
    ASSUME Inv, CorrectionReplaceStep
    PROVE  Inv' /\ OnlyGrow
<1> DEFINE edge == firstSymbolOutEdge(call.at)
           item == SymbolItemWithText(Head(call.rest))
<1>1. /\ call.op = "replace" /\ call.rest # <<>> /\ edge # NoEdge
      /\ UNCHANGED <<text, nLooseVertices>>
      /\ \/ OnlyLookedUp
         \/ addEdge(call.at, getEdgeTarget(edge), item, {Symbol}, EmptySequence, 0, TRUE)
      /\ call' = [call EXCEPT !.at = getEdgeTarget(edge), !.rest = Tail(call.rest)]
    BY DEF CorrectionReplaceStep
<1>2. call \in Call /\ call.rest \in Seq(Char) /\ call.at \in Vertices /\ call.to \in Vertices
    BY <1>1 DEF Inv, Call, CallOnVertices
<1>3. VerticesGrow /\ Vertices' = Vertices
    BY <1>1, SameVertices DEF Inv
<1>4. getEdgeTarget(edge) \in Vertices
    BY <1>1, SymbolEdgeFields DEF Inv
<1>5. item \in AnnotationItem /\ Tail(call.rest) \in Seq(Char)
    BY <1>1, <1>2, PlainArguments
<1>6. EmptySequence \in EdgeSequence /\ {Symbol} \in Collection /\ 0 \in Int /\ TRUE \in BOOLEAN
    BY PlainArguments
<1> HIDE DEF edge, item
<1>7. LatticeInv' /\ OnlyGrow
    <2>1. CASE OnlyLookedUp
        BY <1>1, <2>1, LookUpPreserves DEF Inv
    <2>2. CASE addEdge(call.at, getEdgeTarget(edge), item, {Symbol}, EmptySequence, 0, TRUE)
        BY <1>2, <1>3, <1>4, <1>5, <1>6, <2>2, AddEdgePreserves DEF Inv
    <2> QED BY <1>1, <2>1, <2>2
<1>8. (call \in Call)' /\ CallOnVertices'
    <2>1. call' = [op |-> "replace", here |-> call.here, at |-> getEdgeTarget(edge),
                   to |-> call.to, rest |-> Tail(call.rest), whole |-> call.whole]
        BY <1>1, <1>2 DEF Call
    <2>2. call.here \in Int /\ call.to \in Int /\ call.whole \in Seq(Char)
        BY <1>2 DEF Call
    <2> QED BY <1>2, <1>3, <1>4, <1>5, <2>1, <2>2, VerticesAreIntegers, CorrectionCall
<1> QED BY <1>7, <1>8 DEF Inv

\* The ends of a correctionReplace().
LEMMA CorrectionReplaceEndPreserves ==
    ASSUME Inv, CorrectionReplaceFails \/ CorrectionReplaceInserts \/ CorrectionReplaceErases
    PROVE  Inv' /\ OnlyGrow
<1>1. UNCHANGED <<text, nLooseVertices>>
    BY DEF CorrectionReplaceFails, CorrectionReplaceInserts, CorrectionReplaceErases
<1>2. VerticesGrow /\ Vertices' = Vertices
    BY <1>1, SameVertices DEF Inv
<1>3. call.op = "replace" => call \in Call /\ call.at \in Vertices /\ call.whole \in Seq(Char)
    BY DEF Inv, Call, CallOnVertices
<1>4. CASE CorrectionReplaceFails
    BY <1>1, <1>4, LookUpPreserves, IdleAfter DEF Inv, CorrectionReplaceFails
<1>5. CASE CorrectionReplaceInserts
    <2>1. LatticeInv' /\ OnlyGrow
        BY <1>2, <1>5, LatticeUnchanged DEF Inv, CorrectionReplaceInserts
    <2>2. call' = [op |-> "insert", here |-> call.at, at |-> call.at, to |-> 0,
                   rest |-> call.whole, whole |-> <<>>]
        BY <1>5 DEF CorrectionReplaceInserts, NoCall
    <2>3. call.op = "replace"
        BY <1>5 DEF CorrectionReplaceInserts
    <2> QED BY <1>2, <1>3, <2>1, <2>2, <2>3, InsertCall DEF Inv
<1>6. CASE CorrectionReplaceErases
    <2>1. CASE call.at = call.to
        BY <1>2, <1>6, <2>1, LatticeUnchanged, IdleAfter DEF Inv, CorrectionReplaceErases
    <2>2. CASE call.at # call.to
        BY <1>1, <1>3, <1>6, <2>2, BridgePreserves, IdleAfter DEF Inv, CorrectionReplaceErases
    <2> QED BY <2>1, <2>2
<1> QED BY <1>4, <1>5, <1>6

-----------------------------------------------------------------------------
(* The theorems.                                                           *)

\* The empty lattice satisfies the invariant.
LEMMA InitInv == Init => Inv
<1> SUFFICES ASSUME Init PROVE Inv
    OBVIOUS
<1> USE DEF Init
<1>1. LatticeTypeOK
    BY DEF LatticeTypeOK, IsMap
<1>2. WithinText /\ RegistryAgrees /\ PartitionTagsHeld /\ OneEdgePerPlane
    BY DEF WithinText, RegistryAgrees, PartitionTagsHeld, OneEdgePerPlane
<1>3. IndexSound /\ FirstTagsIndexed
    BY DEF IndexSound, FirstTagsIndexed
<1>4. call \in Call /\ CallOnVertices
    BY NoCallFacts DEF CallOnVertices
<1> QED BY <1>1, <1>2, <1>3, <1>4 DEF Inv, LatticeInv

\* Every step keeps the invariant, and only adds to the edges there are.
LEMMA NextPreserves ==
    ASSUME Inv, [Next]_vars
    PROVE  Inv' /\ OnlyGrow
<1>1. CASE UNCHANGED vars
    <2>1. UNCHANGED <<text, nLooseVertices, latticeVars, call>>
        BY <1>1 DEF vars
    <2>2. VerticesGrow
        BY <2>1, SameVertices DEF Inv
    <2> QED BY <2>1, <2>2, LatticeUnchanged, CallKept DEF Inv
<1>2. CASE LoopStep
    BY <1>2, AddSymbolsStepPreserves, CorrectionInsertStepPreserves, CorrectionInsertJoinPreserves,
       CorrectionReplaceStepPreserves, CorrectionReplaceEndPreserves DEF LoopStep
<1>3. CASE AppendText
    BY <1>3, AppendPreserves DEF AppendText
<1>4. CASE \E start, end \in 0 .. Len(text) : RoomForLoop /\ AddSymbols(start, end)
    BY <1>4, AddSymbolsPreserves
<1>5. CASE nLooseVertices < MaxLoose /\ AddLooseVertex
    BY <1>5, AddLooseVertexPreserves
<1>6. CASE Annotate
    BY <1>6, AnnotatePreserves
<1>7. CASE Reannotate
    <2>1. PICK d \in Edges, tags \in PartitionTags, score \in Scores :
              \E sequence \in Sequences(getEdgeSource(d), getEdgeTarget(d)) :
                  AddPartitionToEdge(d, tags, sequence, score)
        BY <1>7 DEF Reannotate
    <2>2. PICK sequence \in Sequences(getEdgeSource(d), getEdgeTarget(d)) :
              AddPartitionToEdge(d, tags, sequence, score)
        BY <2>1
    <2>3. sequence \in EdgeSequence
        BY SequenceTypes DEF Inv
    <2>4. tags \in Collection /\ score \in Int
        BY LatticeAssumption
    <2> QED BY <2>2, <2>3, <2>4, ReannotatePreserves
<1>8. CASE \E d \in Edges : Discard(d)
    BY <1>8, PlainArguments, ReannotatePreserves DEF Discard
<1>9. CASE \E mask \in Masks : QueryEdges(mask)
    BY <1>9, QueryPreserves
<1>10. CASE Correct
    BY <1>10, CorrectPreserves
<1> QED BY <1>1, <1>2, <1>3, <1>4, <1>5, <1>6, <1>7, <1>8, <1>9, <1>10 DEF Next

\* The inductive invariant holds in every reachable state.
THEOREM Invariance == Spec => []Inv
<1>1. Inv /\ [Next]_vars => Inv'
    BY NextPreserves
<1> QED BY InitInv, <1>1, PTL DEF Spec

\* The lattice and the locals of its loops stay well typed.
THEOREM TypeCorrect == Spec => []TypeOK
<1>1. Inv => TypeOK
    BY DEF Inv, LatticeInv, TypeOK
<1> QED BY Invariance, <1>1, PTL

\* Every edge outEdges(v, mask) or inEdges(v, mask) finds in an index of the
\* lattice has the tags asked for.
THEOREM IndexSoundness == Spec => []IndexSound
<1>1. Inv => IndexSound
    BY DEF Inv, LatticeInv
<1> QED BY Invariance, <1>1, PTL

\* An edge is found under every mask its first tags match, whenever that mask
\* came to be indexed.
THEOREM FirstTagsAreIndexed == Spec => []FirstTagsIndexed
<1>1. Inv => FirstTagsIndexed
    BY DEF Inv, LatticeInv
<1> QED BY Invariance, <1>1, PTL

\* addEdge() makes no second edge with the ends, annotation and plane of
\* another, unless they belong to an implicit symbol.
THEOREM OnePerPlane == Spec => []OneEdgePerPlane
<1>1. Inv => OneEdgePerPlane
    BY DEF Inv, LatticeInv
<1> QED BY Invariance, <1>1, PTL

\* No operation takes back what an edge has: its ends, annotation and plane
\* stay, its tags and partitions accumulate, its score never drops.
THEOREM OnlyGrowth == Spec => EdgesOnlyGrow
<1>1. Inv /\ [Next]_vars => [OnlyGrow]_vars
    BY NextPreserves
<1> QED BY Invariance, <1>1, PTL DEF Spec, EdgesOnlyGrow
=============================================================================
