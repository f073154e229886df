------------------------------ MODULE Lattice ------------------------------
(***************************************************************************)
(* The annotation lattice (common/lattice.{hpp,cpp}), the data structure   *)
(* every reader, annotator and writer of PSI-Toolkit works on.             *)
(*                                                                         *)
(* A vertex is a character boundary 0..Len(text) or a loose vertex         *)
(* -1..-nLooseVertices.  (The code counts boundaries in bytes; only their  *)
(* order and adjacency matter here, so they are numbered.)  Most symbol    *)
(* edges are implicit: a bit per vertex instead of an edge of the graph.   *)
(* Every other edge is explicit and is named by its insertion order, which *)
(* is also the order of every list of edges the code keeps.                *)
(*                                                                         *)
(* addEdge() is one step.  The operations that loop over addEdge()         *)
(* (addSymbols and the three corrections) are one step per iteration, the  *)
(* variable call holding the loop's locals; nothing else is enabled until  *)
(* the loop ends, as the lattice belongs to a single thread.               *)
(***************************************************************************)
EXTENDS Integers, Sequences, FiniteSets, LayerTags

CONSTANTS
    Char,         \* characters of the text; 'c (a category) is c itself
    Category,     \* the other annotation categories
    NoText,       \* the empty text of an annotation item
    LowestScore   \* -(std::numeric_limits<Score>::max)()

CONSTANTS  \* what the clients of the lattice pass to it, and bounds
    Strings,        \* texts appended
    Corrections,    \* texts corrections insert
    Annotations,    \* <<item, tags>> of the edges added
    PartitionTags,  \* tags of the partitions added to existing edges
    Scores,
    Masks,          \* masks queried
    MaxPath,        \* length of the sequences of subedges
    MaxText, MaxLoose, MaxEdges, MaxPartitions, MaxCount

ASSUME LatticeAssumption ==
    /\ Char \cap Category = {}
    /\ NoText \notin Char
    /\ LowestScore \in Int
    /\ Strings \cup Corrections \subseteq Seq(Char)
    /\ Annotations \subseteq [category : Char \cup Category, text : Char \cup {NoText}]
                                 \X Collection
    /\ PartitionTags \subseteq Collection
    /\ Scores \subseteq Int
    /\ Masks \subseteq Mask
    /\ {MaxPath, MaxText, MaxLoose, MaxEdges, MaxPartitions, MaxCount} \subseteq Nat

VARIABLES
    text,                     \* allText_
    nLooseVertices,           \* nLooseVertices_
    implicitOutEdges,         \* the vertices whose implicit out-edge exists
    hiddenImplicitOutEdges,   \* ... is dominated by some explicit edge
    visibleImplicitOutEdges,  \* ... must be shown nevertheless
    edges,                    \* the edges of graph_, in insertion order
    vvcHash,                  \* <<from, to, item>> -> descriptors in order
    edgeCounterHash,          \* <<from, to>> -> number of edges
    indexedTagMasks,          \* mask -> the edges in its out- and in-indices
    call                      \* the loop in progress

implicitVars == <<implicitOutEdges, hiddenImplicitOutEdges, visibleImplicitOutEdges>>
latticeVars == <<implicitVars, edges, vvcHash, edgeCounterHash, indexedTagMasks>>
vars == <<text, nLooseVertices, latticeVars, call>>

-----------------------------------------------------------------------------
(* Annotation items, edge descriptors, sequences and edges.                *)

AnnotationItem == [category : Char \cup Category, text : Char \cup {NoText}]

\* The item addSymbols() gives a symbol edge, AnnotationItem("'" + symbol) ...
SymbolItem(c) == [category |-> c, text |-> NoText]

\* ... and the one corrections give, which carries the text as well.
SymbolItemWithText(c) == [category |-> c, text |-> c]

EdgeDescriptor == [kind : {"implicit", "explicit"}, at : Nat]

Implicit(vertex) == [kind |-> "implicit", at |-> vertex]
Explicit(edge)   == [kind |-> "explicit", at |-> edge]
NoEdge           == [kind |-> "none", at |-> 0]
isExplicit(d)    == d.kind = "explicit"

\* A sequence of edges: explicit links, or the symbols between two vertices.
EdgeSequence == [links : Seq(EdgeDescriptor), begin : Nat, end : Nat]

EmptySequence == [links |-> <<>>, begin |-> 0, end |-> 0]

Partition == [tags : Collection, sequence : EdgeSequence, score : Int]

EdgeEntry == [from : Int, to : Int, item : AnnotationItem, tags : Collection,
              score : Int, partitions : Seq(Partition)]

isLooseVertex(v) == v < 0

Vertices == -nLooseVertices .. Len(text)

\* Idle, or the locals of the loop in progress: addSymbols walks at..to;
\* correctionInsert adds rest from vertex at and then rejoins after here;
\* correctionReplace, begun at here, consumes rest on at..to (whole is its
\* full argument).
NoCall == [op |-> "none", here |-> 0, at |-> 0, to |-> 0, rest |-> <<>>, whole |-> <<>>]

Call == [op : {"none", "symbols", "insert", "replace"}, here : Int, at : Int,
         to : Int, rest : Seq(Char), whole : Seq(Char)]

-----------------------------------------------------------------------------
(* Reading the lattice.                                                    *)

getEdgeSource(d) == IF isExplicit(d) THEN edges[d.at].from ELSE d.at

getEdgeTarget(d) == IF isExplicit(d) THEN edges[d.at].to ELSE d.at + 1

getEdgeLayerTags(d) == IF isExplicit(d) THEN edges[d.at].tags ELSE {Symbol}

getEdgeAnnotationItem(d) ==
    IF isExplicit(d) THEN edges[d.at].item ELSE SymbolItemWithText(text[d.at + 1])

isEdgeHidden(d) ==
    /\ ~isExplicit(d)
    /\ d.at \in hiddenImplicitOutEdges
    /\ d.at \notin visibleImplicitOutEdges

\* Every edge the lattice holds.
Edges == {Implicit(v) : v \in implicitOutEdges} \cup {Explicit(e) : e \in DOMAIN edges}

\* A hash map with one more entry.
With(map, key, value) ==
    [k \in DOMAIN map \cup {key} |-> IF k = key THEN value ELSE map[k]]

\* Slip: an index made late starts empty.
addTagMaskIndex_WithoutScan(mask) ==
    IF mask \in DOMAIN indexedTagMasks THEN indexedTagMasks ELSE With(indexedTagMasks, mask, {})

\* The indices once mask is among the indexed masks.
addTagMaskIndex_(mask) ==
    IF mask \in DOMAIN indexedTagMasks
    THEN indexedTagMasks
    ELSE With(indexedTagMasks, mask, {e \in DOMAIN edges : matches(edges[e].tags, mask)})

\* The first of the explicit edges es (lists are in insertion order).
FirstOf(es) ==
    IF es = {} THEN NoEdge ELSE Explicit(CHOOSE e \in es : \A f \in es : e <= f)

\* The first edge out of (into) v for the symbol mask, where implicit holds
\* the implicit bits and es the edges indexed for that mask.
FirstOut(v, implicit, es) ==
    IF v \in implicit THEN Implicit(v) ELSE FirstOf({e \in es : edges[e].from = v})

FirstIn(v, implicit, es) ==
    IF v - 1 \in implicit THEN Implicit(v - 1) ELSE FirstOf({e \in es : edges[e].to = v})

\* firstOutEdge(v, symbolMask_), or NoEdge where it throws NoEdgeException.
firstSymbolOutEdge(v) ==
    FirstOut(v, implicitOutEdges, addTagMaskIndex_(symbolMask)[symbolMask])

isRange(sequence) == sequence.links = <<>> /\ sequence.begin < sequence.end

\* The edges EdgeSequence::Iterator visits: links as they were stored, but a
\* range resolved anew, at the time of the visit, vertex by vertex.
SequenceEdges(sequence) ==
    IF sequence.links # <<>>
    THEN {sequence.links[i] : i \in DOMAIN sequence.links}
    ELSE {firstSymbolOutEdge(v) : v \in sequence.begin .. sequence.end - 1}

gatherPlaneTags(sequence) ==
    UNION {onlyPlaneTags(getEdgeLayerTags(sequence.links[i])) :
              i \in DOMAIN sequence.links}

\* EdgeSequence::Builder over edges that form a path: hidden implicit symbols
\* alone are compressed into the range of vertices they span.
build(path) ==
    IF path # <<>> /\ \A i \in DOMAIN path : isEdgeHidden(path[i])
    THEN [links |-> <<>>, begin |-> getEdgeSource(path[1]),
          end |-> getEdgeTarget(path[Len(path)])]
    ELSE [links |-> path, begin |-> 0, end |-> 0]

countEdges(from, to) ==
    IF <<from, to>> \in DOMAIN edgeCounterHash THEN edgeCounterHash[<<from, to>>] ELSE 0

\* The edges registered for a key in vvcHash_, oldest first.
registered(key) == IF key \in DOMAIN vvcHash THEN vvcHash[key] ELSE <<>>

\* Slip: equal tags asked for, where the same plane is enough.
isoplanarEdge_EqualTags(key, tags) ==
    LET ds   == registered(key)
        hits == {i \in DOMAIN ds : tags = getEdgeLayerTags(ds[i])}
    IN  IF hits = {} THEN NoEdge ELSE ds[CHOOSE i \in hits : \A j \in hits : i <= j]

\* The first edge registered for the key that lies in the plane of tags.
isoplanarEdge(key, tags) ==
    LET ds   == registered(key)
        hits == {i \in DOMAIN ds : areInTheSamePlane(tags, getEdgeLayerTags(ds[i]))}
    IN  IF hits = {} THEN NoEdge ELSE ds[CHOOSE i \in hits : \A j \in hits : i <= j]

-----------------------------------------------------------------------------
(* addEdge().                                                              *)

\* Tags without a plane inherit the planes of the subedges.
inheritedTags(tags, sequence) ==
    IF onlyPlaneTags(tags) = {} THEN tags \cup gatherPlaneTags(sequence) ELSE tags

\* Neither LoopEdgeException nor ReversedEdgeException.
forwards(from, to) == from # to /\ (isLooseVertex(from) \/ isLooseVertex(to) \/ from < to)

\* One of these, or EdgeSelfReferenceException.
addEdgeThrows(from, to, hit, sequence) ==
    \/ ~forwards(from, to)
    \/ hit # NoEdge /\ hit \in SequenceEdges(sequence)

\* Slips: the old tags are forgotten; the last score wins.
mergedTags_NewOnly(oldTags, tags) == tags

betterScore_Last(oldScore, score) == score

mergedTags(oldTags, tags) == oldTags \cup tags

betterScore(oldScore, score) == IF score > oldScore THEN score ELSE oldScore

\* Slip: the new partition goes before the others.
withPartition_First(partitions, part) == <<part>> \o partitions

withPartition(partitions, part) == Append(partitions, part)

\* An explicit edge gets the new tags, the better score and a new partition;
\* it stays in the lists of index, whatever masks its tags match now.
MergeIntoEdge(e, tags, sequence, score, index) ==
    LET allTags == mergedTags(edges[e].tags, tags)
        part    == [tags |-> allTags, sequence |-> sequence, score |-> score]
        merged  == [edges[e] EXCEPT !.tags = allTags,
                                    !.score = betterScore(edges[e].score, score),
                                    !.partitions = withPartition(@, part)]
    IN  /\ edges' = [edges EXCEPT ![e] = merged]
        /\ indexedTagMasks' = index
        /\ UNCHANGED <<implicitVars, vvcHash, edgeCounterHash>>

\* Slip: the in-edge is looked up first.
madeVisible_InFirst(from, to, implicit, es) ==
    LET out == FirstOut(from, implicit, es)
        in  == FirstIn(to, implicit, es)
    IN  IF in = NoEdge THEN {}
        ELSE {getEdgeSource(in)} \cup (IF out = NoEdge THEN {} ELSE {from})

\* A new edge with exactly the tag symbol makes visible the vertices from
\* which there would now be two symbol edges.  The two look-ups share one
\* try block: when the first throws, the second is not made.
madeVisible(from, to, implicit, es) ==
    LET out == FirstOut(from, implicit, es)
        in  == FirstIn(to, implicit, es)
    IN  IF out = NoEdge THEN {}
        ELSE {from} \cup (IF in = NoEdge THEN {} ELSE {getEdgeSource(in)})

\* Looking up a symbol edge indexes the symbol mask.
indexAfterLookUp(looked) ==
    IF looked THEN addTagMaskIndex_(symbolMask) ELSE indexedTagMasks

\* Slips: a longer edge becomes a bit; the place may be taken already.
becomesImplicit_AnyLength(from, to, tags, implicit) ==
    ~isLooseVertex(from) /\ ~isLooseVertex(to) /\ tags = {Symbol} /\ from \notin implicit

becomesImplicit_Taken(from, to, tags, implicit) ==
    ~isLooseVertex(from) /\ ~isLooseVertex(to) /\ tags = {Symbol} /\ from + 1 = to

becomesImplicit(from, to, tags, implicit) ==
    /\ ~isLooseVertex(from)
    /\ ~isLooseVertex(to)
    /\ tags = {Symbol}
    /\ from + 1 = to
    /\ from \notin implicit

\* Slips: every index gets it; none does.
indexEdge_EveryMask(index, e, tags) == [mask \in DOMAIN index |-> index[mask] \cup {e}]

indexEdge_NoMask(index, e, tags) == index

\* The matching indices get the new edge.
indexEdge(index, e, tags) ==
    [mask \in DOMAIN index |->
        IF matches(tags, mask) THEN index[mask] \cup {e} ELSE index[mask]]

\* Slip: off by one.
hiddenBelow_OffByOne(from, to) ==
    IF isLooseVertex(from) \/ isLooseVertex(to) THEN {} ELSE from - 1 .. to - 1

\* Vertices at which a new explicit edge hides the implicit symbol.
hiddenBelow(from, to) ==
    IF isLooseVertex(from) \/ isLooseVertex(to) THEN {} ELSE from .. to - 1

\* The counter of a pair of vertices when an edge is added.
counted(from, to) == countEdges(from, to) + 1

CountAndReveal(from, to, tags, implicit) ==
    /\ edgeCounterHash' = With(edgeCounterHash, <<from, to>>, counted(from, to))
    /\ visibleImplicitOutEdges' = visibleImplicitOutEdges \cup
           IF tags = {Symbol}
           THEN madeVisible(from, to, implicit, addTagMaskIndex_(symbolMask)[symbolMask])
           ELSE {}

\* The edge becomes a bit; its item, score and partition are dropped.
InsertImplicitEdge(from, to, item, tags, implicit) ==
    /\ becomesImplicit(from, to, tags, implicit)
    /\ CountAndReveal(from, to, tags, implicit)
    /\ implicitOutEdges' = implicit \cup {from}
    /\ vvcHash' = With(vvcHash, <<from, to, item>>,
                       Append(registered(<<from, to, item>>), Implicit(from)))
    /\ indexedTagMasks' = indexAfterLookUp(TRUE)
    /\ UNCHANGED <<edges, hiddenImplicitOutEdges>>

InsertExplicitEdge(from, to, item, tags, sequence, score, implicit, looked) ==
    LET e    == Len(edges) + 1
        part == [tags |-> tags, sequence |-> sequence, score |-> score]
    IN  /\ ~becomesImplicit(from, to, tags, implicit)
        /\ CountAndReveal(from, to, tags, implicit)
        /\ implicitOutEdges' = implicit
        /\ edges' = Append(edges, [from |-> from, to |-> to, item |-> item, tags |-> tags,
                                   score |-> score, partitions |-> <<part>>])
        /\ vvcHash' = With(vvcHash, <<from, to, item>>,
                           Append(registered(<<from, to, item>>), Explicit(e)))
        /\ indexedTagMasks' = indexEdge(indexAfterLookUp(looked \/ tags = {Symbol}), e, tags)
        /\ hiddenImplicitOutEdges' = hiddenImplicitOutEdges \cup hiddenBelow(from, to)

InsertEdge(from, to, item, tags, sequence, score, implicit, looked) ==
    \/ InsertImplicitEdge(from, to, item, tags, implicit)
    \/ InsertExplicitEdge(from, to, item, tags, sequence, score, implicit, looked)

\* addEdge(): throw, insert, merge into an explicit edge, or, where the edge
\* exists as an implicit symbol, clear the bit and insert (the descriptor of
\* the implicit edge stays registered).  An exception leaves the lattice as it
\* was, except that the search for a self-reference may have walked a range.
\* lookedUp says that the caller has just looked up a symbol edge.
addEdge(from, to, item, givenTags, sequence, score, lookedUp) ==
    LET tags   == inheritedTags(givenTags, sequence)
        hit    == isoplanarEdge(<<from, to, item>>, tags)
        looked == lookedUp \/ (hit # NoEdge /\ isRange(sequence))
    IN  \/ /\ addEdgeThrows(from, to, hit, sequence)
           /\ indexedTagMasks' = indexAfterLookUp(lookedUp \/ (forwards(from, to) /\ looked))
           /\ UNCHANGED <<implicitVars, edges, vvcHash, edgeCounterHash>>
        \/ /\ ~addEdgeThrows(from, to, hit, sequence)
           /\ \/ /\ hit = NoEdge
                 /\ InsertEdge(from, to, item, tags, sequence, score, implicitOutEdges, looked)
              \/ /\ hit # NoEdge /\ isExplicit(hit)
                 /\ MergeIntoEdge(hit.at, tags, sequence, score, indexAfterLookUp(looked))
              \/ /\ hit # NoEdge /\ ~isExplicit(hit)
                 /\ InsertEdge(from, to, item, mergedTags({Symbol}, tags), sequence, score,
                               implicitOutEdges \ {from}, looked)

-----------------------------------------------------------------------------
(* The operations.                                                         *)

Init ==
    /\ text = <<>>
    /\ nLooseVertices = 0
    /\ implicitOutEdges = {}
    /\ hiddenImplicitOutEdges = {}
    /\ visibleImplicitOutEdges = {}
    /\ edges = <<>>
    /\ vvcHash = <<>>
    /\ edgeCounterHash = <<>>
    /\ indexedTagMasks = <<>>
    /\ call = NoCall

Idle == call = NoCall

AppendString(s) ==
    /\ Idle
    /\ text' = text \o s
    /\ UNCHANGED <<nLooseVertices, latticeVars, call>>

\* getLastVertex() is loose once an edge leaves the end of the text.
lastVertexIsLoose == \E e \in DOMAIN edges : edges[e].from = Len(text)

\* The join point is the last vertex before the text is appended; when that
\* is loose, addSymbols() throws WrongVertexException after the text grew.
AppendStringWithSymbols(s) ==
    /\ Idle
    /\ s # <<>>
    /\ text' = text \o s
    /\ call' = IF lastVertexIsLoose THEN NoCall
               ELSE [NoCall EXCEPT !.op = "symbols", !.at = Len(text), !.to = Len(text \o s)]
    /\ UNCHANGED <<nLooseVertices, latticeVars>>

AddSymbols(start, end) ==
    /\ Idle
    /\ start < end
    /\ call' = [NoCall EXCEPT !.op = "symbols", !.at = start, !.to = end]
    /\ UNCHANGED <<text, nLooseVertices, latticeVars>>

\* One character of addSymbols().
AddSymbolsStep ==
    /\ call.op = "symbols"
    /\ addEdge(call.at, call.at + 1, SymbolItem(text[call.at + 1]), {Symbol}, EmptySequence, 0,
               FALSE)
    /\ call' = IF call.at + 1 = call.to THEN NoCall ELSE [call EXCEPT !.at = @ + 1]
    /\ UNCHANGED <<text, nLooseVertices>>

AddLooseVertex ==
    /\ Idle
    /\ nLooseVertices' = nLooseVertices + 1
    /\ UNCHANGED <<text, latticeVars, call>>

AddEdge(from, to, item, tags, sequence, score) ==
    /\ Idle
    /\ addEdge(from, to, item, tags, sequence, score, FALSE)
    /\ UNCHANGED <<text, nLooseVertices, call>>

AddPartitionToEdge(d, tags, sequence, score) ==
    AddEdge(getEdgeSource(d), getEdgeTarget(d), getEdgeAnnotationItem(d),
            tags \cup onlyPlaneTags(getEdgeLayerTags(d)), sequence, score)

Discard(d) == AddPartitionToEdge(d, {Discarded}, EmptySequence, LowestScore)

\* outEdges(), inEdges() and the sorted iterators index their mask.
QueryEdges(mask) ==
    /\ Idle
    /\ indexedTagMasks' = addTagMaskIndex_(mask)
    /\ UNCHANGED <<text, nLooseVertices, implicitVars, edges, vvcHash, edgeCounterHash, call>>

CorrectionInsert(here, s) ==
    /\ Idle
    /\ s # <<>>
    /\ call' = [NoCall EXCEPT !.op = "insert", !.here = here, !.at = here, !.rest = s]
    /\ UNCHANGED <<text, nLooseVertices, latticeVars>>

\* One character of correctionInsert(): a loose vertex and an edge to it.
CorrectionInsertStep ==
    /\ call.op = "insert"
    /\ call.rest # <<>>
    /\ nLooseVertices' = nLooseVertices + 1
    /\ addEdge(call.at, -nLooseVertices', SymbolItemWithText(Head(call.rest)), {Symbol},
               EmptySequence, 0, FALSE)
    /\ call' = [call EXCEPT !.at = -nLooseVertices', !.rest = Tail(@)]
    /\ UNCHANGED text

\* A symbol edge was looked for and nothing was added.
OnlyLookedUp ==
    /\ indexedTagMasks' = indexAfterLookUp(TRUE)
    /\ UNCHANGED <<implicitVars, edges, vvcHash, edgeCounterHash>>

\* Slip: the wrong end of the edge.
vertexBehind_Source(edge) == getEdgeSource(edge)

\* The vertex behind the place of an insertion.
vertexBehind(edge) == getEdgeTarget(edge)

\* The last inserted character is joined to the target of the symbol edge
\* that leaves the place of the insertion (a NoEdgeException is caught).
CorrectionInsertJoin ==
    LET nextEdge == firstSymbolOutEdge(call.here)
    IN  /\ call.op = "insert"
        /\ call.rest = <<>>
        /\ \/ nextEdge = NoEdge /\ OnlyLookedUp
           \/ /\ nextEdge # NoEdge
              /\ addEdge(call.at, vertexBehind(nextEdge), getEdgeAnnotationItem(nextEdge),
                         {Symbol}, EmptySequence, 0, TRUE)
        /\ call' = NoCall
        /\ UNCHANGED <<text, nLooseVertices>>

\* The erased range is bridged by an edge that bears the symbol after it;
\* where there is none, WrongVertexException, the mask having been indexed.
bridgeErased(from, to) ==
    LET nextEdge == firstSymbolOutEdge(to)
    IN  IF nextEdge = NoEdge
        THEN OnlyLookedUp
        ELSE addEdge(from, getEdgeTarget(nextEdge), getEdgeAnnotationItem(nextEdge), {Symbol},
                     EmptySequence, 0, TRUE)

CorrectionErase(from, to) ==
    /\ Idle
    /\ from # to
    /\ bridgeErased(from, to)
    /\ UNCHANGED <<text, nLooseVertices, call>>

CorrectionReplace(from, to, s) ==
    /\ Idle
    /\ s # <<>>
    /\ call' = [NoCall EXCEPT !.op = "replace", !.here = from, !.at = from,
                              !.to = to, !.rest = s, !.whole = s]
    /\ UNCHANGED <<text, nLooseVertices, latticeVars>>

\* The edge has this text already.
alreadyReads(edge, symbol) == getEdgeAnnotationItem(edge).text = symbol

\* One character of correctionReplace(): a variant of the symbol edge, unless
\* that edge has this text already.
CorrectionReplaceStep ==
    LET edge   == firstSymbolOutEdge(call.at)
        symbol == Head(call.rest)
    IN  /\ call.op = "replace"
        /\ call.rest # <<>>
        /\ call.at # call.to
        /\ edge # NoEdge
        /\ \/ alreadyReads(edge, symbol) /\ OnlyLookedUp
           \/ /\ ~alreadyReads(edge, symbol)
              /\ addEdge(call.at, getEdgeTarget(edge), SymbolItemWithText(symbol), {Symbol},
                         EmptySequence, 0, TRUE)
        /\ call' = [call EXCEPT !.at = getEdgeTarget(edge), !.rest = Tail(@)]
        /\ UNCHANGED <<text, nLooseVertices>>

\* No symbol edge to replace: WrongVertexException.
CorrectionReplaceFails ==
    /\ call.op = "replace"
    /\ call.rest # <<>>
    /\ call.at # call.to
    /\ firstSymbolOutEdge(call.at) = NoEdge
    /\ OnlyLookedUp
    /\ call' = NoCall
    /\ UNCHANGED <<text, nLooseVertices>>

\* The range is used up first: the text (all of it) is inserted here.
CorrectionReplaceInserts ==
    /\ call.op = "replace"
    /\ call.rest # <<>>
    /\ call.at = call.to
    /\ call' = [NoCall EXCEPT !.op = "insert", !.here = call.at, !.at = call.at,
                              !.rest = call.whole]
    /\ UNCHANGED <<text, nLooseVertices, latticeVars>>

\* The text is used up first: the remainder of the range is erased.
CorrectionReplaceErases ==
    /\ call.op = "replace"
    /\ call.rest = <<>>
    /\ IF call.at = call.to THEN UNCHANGED latticeVars ELSE bridgeErased(call.at, call.to)
    /\ call' = NoCall
    /\ UNCHANGED <<text, nLooseVertices>>

LoopStep ==
    \/ AddSymbolsStep
    \/ CorrectionInsertStep
    \/ CorrectionInsertJoin
    \/ CorrectionReplaceStep
    \/ CorrectionReplaceFails
    \/ CorrectionReplaceInserts
    \/ CorrectionReplaceErases

-----------------------------------------------------------------------------
(* The clients: every operation, in any order, on arguments of the kinds   *)
(* the readers and annotators pass.                                        *)

Path(p) == \A i \in 1 .. Len(p) - 1 : getEdgeTarget(p[i]) = getEdgeSource(p[i + 1])

\* Sequences of subedges: none, or a path that spans the new edge.
Sequences(from, to) ==
    {EmptySequence} \cup
    {build(p) : p \in {q \in UNION {[1 .. n -> Edges] : n \in 1 .. MaxPath} :
                          /\ getEdgeSource(q[1]) = from
                          /\ getEdgeTarget(q[Len(q)]) = to
                          /\ Path(q)}}

\* addEdge() leaves it to its caller not to reverse an edge at a loose vertex:
\* from must not lie after to, along the edges and the text.
notAfter(from, to) ==
    \E after \in SUBSET Vertices :
        /\ to \in after
        /\ from \notin after
        /\ \A v \in after : v \in 0 .. Len(text) - 1 => v + 1 \in after
        /\ \A d \in Edges : getEdgeSource(d) \in after => getEdgeTarget(d) \in after

WithinBounds ==
    /\ Len(edges) <= MaxEdges
    /\ \A e \in DOMAIN edges : Len(edges[e].partitions) <= MaxPartitions
    /\ \A p \in DOMAIN edgeCounterHash : edgeCounterHash[p] <= MaxCount

RoomForLoop ==
    /\ Len(edges) < MaxEdges
    /\ \A e \in DOMAIN edges : Len(edges[e].partitions) < MaxPartitions
    /\ \A p \in DOMAIN edgeCounterHash : edgeCounterHash[p] < MaxCount

AppendText ==
    \E s \in Strings :
        /\ Len(text) + Len(s) <= MaxText
        /\ AppendString(s) \/ AppendStringWithSymbols(s)

Annotate ==
    \E from, to \in Vertices :
        /\ notAfter(from, to)
        /\ \E sequence \in Sequences(from, to), a \in Annotations, score \in Scores :
              AddEdge(from, to, a[1], a[2], sequence, score)

Reannotate ==
    \E d \in Edges :
        \E sequence \in Sequences(getEdgeSource(d), getEdgeTarget(d)),
           tags \in PartitionTags, score \in Scores :
              AddPartitionToEdge(d, tags, sequence, score)

\* Text is inserted where a symbol edge leaves: elsewhere correctionInsert()
\* takes its own first edge for the edge to rejoin.
rejoinable(v) == firstSymbolOutEdge(v) # NoEdge

\* A range is replaced where correctionReplace() walks it character by
\* character: it does not notice a symbol edge that leads past the range.
walkable(from, to) ==
    \A v \in from .. to - 1 : rejoinable(v) => getEdgeTarget(firstSymbolOutEdge(v)) = v + 1

Correct ==
    /\ RoomForLoop
    /\ \E from, to \in 0 .. Len(text) :
        /\ from <= to
        /\ \/ CorrectionErase(from, to)
           \/ \E s \in Corrections :
                /\ nLooseVertices + Len(s) <= MaxLoose
                /\ \/ from = to /\ rejoinable(to) /\ CorrectionInsert(from, s)
                   \/ /\ rejoinable(to) \/ Len(s) <= to - from
                      /\ walkable(from, to)
                      /\ CorrectionReplace(from, to, s)

Next ==
    \/ LoopStep
    \/ AppendText
    \/ \E start, end \in 0 .. Len(text) : RoomForLoop /\ AddSymbols(start, end)
    \/ nLooseVertices < MaxLoose /\ AddLooseVertex
    \/ Annotate /\ WithinBounds'
    \/ Reannotate /\ WithinBounds'
    \/ (\E d \in Edges : Discard(d)) /\ WithinBounds'
    \/ \E mask \in Masks : QueryEdges(mask)
    \/ Correct

Spec == Init /\ [][Next]_vars

-----------------------------------------------------------------------------
(* Properties.                                                             *)

VertexPair == Int \X Int
Key == Int \X Int \X AnnotationItem
EdgeIds == SUBSET Nat

\* A map from some of the keys to values.
IsMap(map, keys, values) ==
    /\ DOMAIN map \subseteq keys
    /\ \A k \in DOMAIN map : map[k] \in values

LatticeTypeOK ==
    /\ text \in Seq(Char)
    /\ nLooseVertices \in Nat
    /\ implicitOutEdges \in SUBSET Nat
    /\ hiddenImplicitOutEdges \in SUBSET Nat
    /\ visibleImplicitOutEdges \in SUBSET Int
    /\ edges \in Seq(EdgeEntry)
    /\ IsMap(vvcHash, Key, Seq(EdgeDescriptor))
    /\ IsMap(edgeCounterHash, VertexPair, Nat)
    /\ IsMap(indexedTagMasks, Mask, EdgeIds)

TypeOK == LatticeTypeOK /\ call \in Call

\* Every edge lies between vertices of the lattice.
WithinText ==
    /\ implicitOutEdges \subseteq 0 .. Len(text) - 1
    /\ \A e \in DOMAIN edges : edges[e].from \in Vertices /\ edges[e].to \in Vertices

\* vvcHash_ and the graph agree: what is registered for a key has its ends and
\* (unless it is a bit) its annotation, and every explicit edge is registered.
RegistryAgrees ==
    /\ \A key \in DOMAIN vvcHash : \A i \in DOMAIN vvcHash[key] :
          LET d == vvcHash[key][i]
          IN  /\ isExplicit(d) => d.at \in DOMAIN edges /\ key[3] = edges[d.at].item
              /\ key[1] = getEdgeSource(d)
              /\ key[2] = getEdgeTarget(d)
    /\ \A e \in DOMAIN edges :
          LET key == <<edges[e].from, edges[e].to, edges[e].item>>
          IN  \E i \in DOMAIN registered(key) : registered(key)[i] = Explicit(e)

\* The tags of every partition are tags of the edge.
PartitionTagsHeld ==
    \A e \in DOMAIN edges :
        /\ edges[e].partitions # <<>>
        /\ \A i \in DOMAIN edges[e].partitions :
              edges[e].partitions[i].tags \subseteq edges[e].tags

\* The loop in progress is on vertices of the lattice.
CallOnVertices ==
    /\ call.op = "symbols" => 0 <= call.at /\ call.at < call.to /\ call.to <= Len(text)
    /\ call.op = "insert" => call.here \in Vertices /\ call.at \in Vertices
    /\ call.op = "replace" => call.at \in Vertices /\ call.to \in Vertices

\* An index never lists an edge that does not match its mask: what
\* outEdges(v, mask) and inEdges(v, mask) return does have the tags asked for,
\* however edges were merged, converted and indexed in between.
IndexSound ==
    \A mask \in DOMAIN indexedTagMasks : \A e \in indexedTagMasks[mask] :
        e \in DOMAIN edges /\ matches(edges[e].tags, mask)

\* An edge is found under every mask its first tags match, whether the mask
\* was indexed before the edge was added (addEdge fills the indices) or after
\* (addTagMaskIndex_ scans the graph).
FirstTagsIndexed ==
    \A mask \in DOMAIN indexedTagMasks : \A e \in DOMAIN edges :
        matches(edges[e].partitions[1].tags, mask) => e \in indexedTagMasks[mask]

\* A symbol edge can be found at v.
symbolLeaves(v) ==
    \/ v \in implicitOutEdges
    \/ /\ symbolMask \in DOMAIN indexedTagMasks
       /\ \E e \in indexedTagMasks[symbolMask] : edges[e].from = v

\* A stored range of symbols can always be walked again: no conversion of an
\* implicit symbol into an explicit edge makes EdgeSequence::Iterator throw
\* NoEdgeException in the middle of a partition.
RangesWalkable ==
    \A e \in DOMAIN edges : \A i \in DOMAIN edges[e].partitions :
        LET sequence == edges[e].partitions[i].sequence
        IN  sequence.links = <<>> =>
                \A v \in sequence.begin .. sequence.end - 1 : symbolLeaves(v)

\* Two edges with the same ends and the same annotation lie in different
\* planes, unless that annotation was once registered as an implicit symbol.
OneEdgePerPlane ==
    \A e, f \in DOMAIN edges :
        LET key == <<edges[e].from, edges[e].to, edges[e].item>>
        IN  /\ e # f
            /\ key = <<edges[f].from, edges[f].to, edges[f].item>>
            /\ areInTheSamePlane(edges[e].tags, edges[f].tags)
            => \E i \in DOMAIN registered(key) : ~isExplicit(registered(key)[i])

\* The inductive invariant: what the promises about the indices and about
\* duplicates rest on, together with them.
LatticeInv ==
    /\ LatticeTypeOK
    /\ WithinText
    /\ RegistryAgrees
    /\ PartitionTagsHeld
    /\ IndexSound
    /\ FirstTagsIndexed
    /\ OneEdgePerPlane

\* It holds between the steps of a loop as well, whose locals are vertices.
Inv == LatticeInv /\ call \in Call /\ CallOnVertices

\* An implicit symbol that shares its source with an edge added as a plain
\* symbol (a correction) stays visible to the writers, whichever came first.
AlternativesVisible ==
    \A e \in DOMAIN edges :
        /\ edges[e].partitions[1].tags = {Symbol}
        /\ edges[e].from \in implicitOutEdges
        => edges[e].from \in visibleImplicitOutEdges

\* The graph stays a dag (topological_sort in VertexIterator throws if not):
\* no set of vertices can be walked for ever.
Acyclic ==
    \A S \in (SUBSET Vertices) \ {{}} :
        \E v \in S : \A d \in Edges : getEdgeSource(d) = v => getEdgeTarget(d) \notin S

\* The symbol edges from one vertex to another spell s.
Spells(from, to, s) ==
    \E path \in [1 .. Len(s) -> {d \in Edges : Symbol \in getEdgeLayerTags(d)}] :
        /\ Path(path)
        /\ getEdgeSource(path[1]) = from
        /\ getEdgeTarget(path[Len(s)]) = to
        /\ \A i \in DOMAIN s : getEdgeAnnotationItem(path[i]).category = s[i]

\* correctionReplace() is about to return, having replaced a range by a text of
\* the same length.
Replaced == call.op = "replace" /\ call.rest = <<>> /\ call.at = call.to

\* The symbol of v has been converted into an explicit edge.
converted(v) ==
    \E e \in DOMAIN edges : /\ edges[e].from = v /\ edges[e].to = v + 1
                           /\ edges[e].item.category = text[v + 1]

\* Then the lattice reads that text there: the variants just added, the edges
\* they were merged into and the symbols left alone make one path - where no
\* symbol of the range had been converted into an explicit edge.
ReplacementReadable ==
    Replaced /\ (\A v \in call.here .. call.to - 1 : ~converted(v))
    => Spells(call.here, call.to, call.whole)

\* Edges are never removed or renamed; tags and partitions only accumulate,
\* the score never drops, the plane never changes.
OnlyGrow ==
    \A e \in DOMAIN edges :
        /\ e \in DOMAIN edges'
        /\ edges'[e].from = edges[e].from
        /\ edges'[e].to = edges[e].to
        /\ edges'[e].item = edges[e].item
        /\ edges[e].tags \subseteq edges'[e].tags
        /\ areInTheSamePlane(edges[e].tags, edges'[e].tags)
        /\ edges[e].score <= edges'[e].score
        /\ Len(edges[e].partitions) <= Len(edges'[e].partitions)
        /\ \A i \in DOMAIN edges[e].partitions :
              edges'[e].partitions[i] = edges[e].partitions[i]

EdgesOnlyGrow == [][OnlyGrow]_vars

\* Where a symbol edge could be found, one can be found for ever.
SymbolsStay ==
    [][\A v \in 0 .. Len(text) : symbolLeaves(v) => symbolLeaves(v)']_vars

(* What lattice.hpp says, and the code does not keep.                      *)

\* outEdges(): "Returns outgoing edges which has at least one layer tag from
\* mask" - all of them.
IndexComplete ==
    \A mask \in DOMAIN indexedTagMasks : \A e \in DOMAIN edges :
        matches(edges[e].tags, mask) => e \in indexedTagMasks[mask]
=============================================================================
