-------------------------- MODULE ChartParserProofs --------------------------
(***************************************************************************)
(* Proofs about the chart parser, for every grammar, every text and every  *)
(* limit.                                                                  *)
(***************************************************************************)
EXTENDS ChartParser, LatticeProofs, FiniteSetTheorems

-----------------------------------------------------------------------------
(* What is parsed.                                                         *)

\* What a sequence holds.
LEMMA EntryOf ==
    ASSUME NEW S, NEW s \in Seq(S), NEW i \in DOMAIN s
    PROVE  s[i] \in S
OBVIOUS

\* A function on the first numbers is a sequence.
LEMMA SequenceOfMany ==
    ASSUME NEW S, NEW n \in Nat, NEW s \in [1 .. n -> S]
    PROVE  s \in Seq(S) /\ Len(s) = n /\ (n # 0 => s # <<>>)
OBVIOUS

LEMMA SequenceInto ==
    ASSUME NEW S, NEW T, NEW s \in Seq(S), \A n \in DOMAIN s : s[n] \in T
    PROVE  s \in Seq(T)
OBVIOUS

LEMMA ShortSequences ==
    ASSUME NEW S, NEW a \in S, NEW b \in S
    PROVE  /\ <<a>> \in Seq(S) /\ Len(<<a>>) = 1 /\ DOMAIN <<a>> = 1 .. 1
           /\ <<a, b>> \in Seq(S) /\ Len(<<a, b>>) = 2 /\ DOMAIN <<a, b>> = 1 .. 2
OBVIOUS

\* What is appended does not come first.
LEMMA FirstOfAppended ==
    ASSUME NEW S, NEW s \in Seq(S), s # <<>>, NEW d
    PROVE  Append(s, d)[1] = s[1]
<1>1. s \in Seq(S \cup {d})
    OBVIOUS
<1>2. 1 \in DOMAIN s
    OBVIOUS
<1> QED BY <1>1, <1>2, AppendEntries

\* The types of a chart.
LEMMA ChartFields ==
    ASSUME chart \in Charts
    PROVE  /\ chart.text \in Seq(Char)
           /\ chart.input \in Seq(Input)
           /\ chart.grammar \subseteq DOMAIN Rules
           /\ isPlaced(chart)
BY ChartAssumption DEF Chart

\* An edge of the input lies within the text and is no symbol.
LEMMA InputFields ==
    ASSUME chart \in Charts, NEW k \in DOMAIN chart.input
    PROVE  LET new == chart.input[k]
           IN  /\ new.from \in Nat /\ new.to \in Nat
               /\ new.from < new.to /\ new.to <= Len(chart.text)
               /\ new.item \in AnnotationItem /\ new.item.category \in Category
               /\ new.tags \in Collection /\ Symbol \notin new.tags
               /\ new.over \in Seq(Nat) /\ \A n \in DOMAIN new.over : new.over[n] \in 1 .. k - 1
               /\ new.score \in Int
<1>1. chart.input[k] \in Input
    BY ChartFields
<1> QED BY <1>1, ChartFields DEF Input, isPlaced

\* A rule makes a category of one or two.
LEMMA RuleFields ==
    ASSUME NEW i \in DOMAIN Rules
    PROVE  /\ Rules[i].rhs \in Seq(Category) /\ Len(Rules[i].rhs) \in {1, 2}
           /\ Rules[i].lhs \in Category
           /\ Rules[i].score \in Int
<1>0. Rules \in Seq([rhs : Seq(Category), lhs : Category, score : Int])
    BY ChartAssumption
<1>1. Rules[i] \in [rhs : Seq(Category), lhs : Category, score : Int]
    BY <1>0, EntryOf
<1>2. Len(Rules[i].rhs) \in {1, 2}
    BY ChartAssumption
<1> QED BY <1>1, <1>2

-----------------------------------------------------------------------------
(* What addEdge() does to a lattice in which words are no symbols.         *)

\* No edge of the graph is a symbol.
WordsPlain ==
    \A e \in DOMAIN edges :
        /\ Symbol \notin edges[e].tags
        /\ edges[e].item.category \in Category
        /\ 0 <= edges[e].from /\ edges[e].from < edges[e].to

\* What is registered as a symbol is one, and is still there.
SymbolsAside ==
    \A key \in DOMAIN vvcHash : \A i \in DOMAIN vvcHash[key] :
        ~isExplicit(vvcHash[key][i]) =>
            /\ key[3].category \in Char
            /\ key[1] \in implicitOutEdges

keyOf(new) == <<new.from, new.to, new.item>>

tagsOf(new) == inheritedTags(new.tags, new.sequence)

\* The first entry of an edge in the graph.
entryOf(new, score) ==
    [from |-> new.from, to |-> new.to, item |-> new.item, tags |-> tagsOf(new), score |-> score,
     partitions |-> <<[tags |-> tagsOf(new), sequence |-> new.sequence, score |-> score]>>]

Inserted(new, score) ==
    /\ edges' = Append(edges, entryOf(new, score))
    /\ edgeCounterHash' = With(edgeCounterHash, <<new.from, new.to>>,
                               countEdges(new.from, new.to) + 1)
    /\ vvcHash' = With(vvcHash, keyOf(new), Append(registered(keyOf(new)),
                                                   Explicit(Len(edges) + 1)))

\* The entry of an edge that a new one is merged into.
mergedEntry(e, new, score) ==
    [edges[e] EXCEPT
        !.tags = edges[e].tags \cup tagsOf(new),
        !.score = betterScore(edges[e].score, score),
        !.partitions = Append(edges[e].partitions,
            [tags |-> edges[e].tags \cup tagsOf(new), sequence |-> new.sequence,
             score |-> score])]

Merged(e, new, score) ==
    /\ e \in DOMAIN edges
    /\ <<edges[e].from, edges[e].to, edges[e].item>> = keyOf(new)
    /\ edges' = [edges EXCEPT ![e] = mergedEntry(e, new, score)]
    /\ UNCHANGED <<vvcHash, edgeCounterHash>>

throws(new) == addEdgeThrows(new.from, new.to, mergedInto(new), new.sequence)

\* What addEdge() may be given for a word.
isWord(new) ==
    /\ new.item.category \in Category
    /\ new.tags \in Collection /\ Symbol \notin new.tags

\* What a word is merged into is an edge of the graph with the same place and item.
LEMMA HitOfWord ==
    ASSUME LatticeInv, SymbolsAside, NEW new, new.item.category \in Category,
           NEW hit, hit = mergedInto(new), hit # NoEdge
    PROVE  /\ hit.at \in DOMAIN edges /\ hit = Explicit(hit.at)
           /\ <<edges[hit.at].from, edges[hit.at].to, edges[hit.at].item>> = keyOf(new)
<1>1. hit = isoplanarEdge(keyOf(new), tagsOf(new))
    BY DEF mergedInto, tagsOf, keyOf
<1>2. \/ hit = NoEdge
      \/ \E i \in DOMAIN registered(keyOf(new)) : hit = registered(keyOf(new))[i]
    BY <1>1, IsoplanarHit DEF LatticeInv
<1>3. PICK i \in DOMAIN registered(keyOf(new)) : hit = registered(keyOf(new))[i]
    BY <1>2
<1>4. /\ hit \in EdgeDescriptor
      /\ isExplicit(hit) => hit.at \in DOMAIN edges /\ keyOf(new)[3] = edges[hit.at].item
      /\ keyOf(new)[1] = getEdgeSource(hit)
      /\ keyOf(new)[2] = getEdgeTarget(hit)
    BY <1>3, RegisteredFacts DEF LatticeInv
<1>5. isExplicit(hit)
    <2>1. new.item.category \notin Char
        BY LatticeAssumption DEF isWord
    <2>2. keyOf(new) \in DOMAIN vvcHash /\ registered(keyOf(new)) = vvcHash[keyOf(new)]
        BY <1>3 DEF registered
    <2>3. keyOf(new)[3] = new.item
        BY DEF keyOf
    <2> QED BY <1>3, <2>1, <2>2, <2>3 DEF SymbolsAside
<1>6. hit = Explicit(hit.at)
    BY <1>4, <1>5 DEF EdgeDescriptor, Explicit, isExplicit
<1> QED BY <1>4, <1>5, <1>6 DEF getEdgeSource, getEdgeTarget, keyOf

\* A word is refused, becomes an edge of the graph or is merged into one; no symbol is
\* converted for it.
LEMMA WordAdded ==
    ASSUME LatticeInv, WordsPlain, SymbolsAside, NEW new, isWord(new), NEW score,
           addEdge(new.from, new.to, new.item, new.tags, new.sequence, score, FALSE)
    PROVE  /\ implicitOutEdges' = implicitOutEdges
           /\ DOMAIN indexedTagMasks' \subseteq DOMAIN indexedTagMasks \cup {symbolMask}
           /\ tagsOf(new) \in Collection /\ Symbol \notin tagsOf(new)
           /\ \/ throws(new) /\ UNCHANGED <<edges, vvcHash, edgeCounterHash>>
              \/ ~throws(new) /\ mergedInto(new) = NoEdge /\ Inserted(new, score)
              \/ /\ ~throws(new)
                 /\ \E e \in DOMAIN edges :
                       mergedInto(new) = Explicit(e) /\ Merged(e, new, score)
<1> DEFINE tags   == tagsOf(new)
           hit    == mergedInto(new)
           looked == hit # NoEdge /\ isRange(new.sequence)
<1>1. hit = isoplanarEdge(keyOf(new), tags)
    BY DEF mergedInto, tagsOf, keyOf
<1>2. /\ tags \in Collection
      /\ Symbol \notin tags
    BY TagAssumption DEF tagsOf, inheritedTags, gatherPlaneTags, onlyPlaneTags, Collection, isWord
<1>3. new.item.category \in Category
    BY DEF isWord
<1>4. hit # NoEdge =>
          /\ hit.at \in DOMAIN edges /\ hit = Explicit(hit.at)
          /\ <<edges[hit.at].from, edges[hit.at].to, edges[hit.at].item>> = keyOf(new)
    BY <1>3, HitOfWord
<1>5. \/ /\ throws(new)
         /\ \E l \in BOOLEAN : indexedTagMasks' = indexAfterLookUp(l)
         /\ UNCHANGED <<implicitVars, edges, vvcHash, edgeCounterHash>>
      \/ /\ ~throws(new) /\ hit = NoEdge
         /\ InsertEdge(new.from, new.to, new.item, tags, new.sequence, score, implicitOutEdges,
                       looked)
      \/ /\ ~throws(new) /\ hit # NoEdge /\ isExplicit(hit)
         /\ MergeIntoEdge(hit.at, tags, new.sequence, score, indexAfterLookUp(looked))
      \/ hit # NoEdge /\ ~isExplicit(hit)
    <2> DEFINE t     == inheritedTags(new.tags, new.sequence)
               h     == isoplanarEdge(<<new.from, new.to, new.item>>, t)
               l     == FALSE \/ (h # NoEdge /\ isRange(new.sequence))
               after == FALSE \/ (forwards(new.from, new.to) /\ l)
    <2>1. h = hit /\ t = tags /\ l = looked /\ after \in BOOLEAN
        BY DEF mergedInto, tagsOf, forwards, isRange
    <2>2. \/ /\ addEdgeThrows(new.from, new.to, h, new.sequence)
             /\ indexedTagMasks' = indexAfterLookUp(after)
             /\ UNCHANGED <<implicitVars, edges, vvcHash, edgeCounterHash>>
          \/ /\ ~addEdgeThrows(new.from, new.to, h, new.sequence) /\ h = NoEdge
             /\ InsertEdge(new.from, new.to, new.item, t, new.sequence, score, implicitOutEdges, l)
          \/ /\ ~addEdgeThrows(new.from, new.to, h, new.sequence) /\ h # NoEdge /\ isExplicit(h)
             /\ MergeIntoEdge(h.at, t, new.sequence, score, indexAfterLookUp(l))
          \/ h # NoEdge /\ ~isExplicit(h)
        BY DEF addEdge
    <2> HIDE DEF t, h, l, after, hit, tags, looked
    <2>3. addEdgeThrows(new.from, new.to, h, new.sequence) = throws(new)
        BY <2>1 DEF throws, hit
    <2> QED BY <2>1, <2>2, <2>3
<1>6. looked \in BOOLEAN
    BY DEF isRange
<1>7. \A l \in BOOLEAN :
          DOMAIN indexAfterLookUp(l) \subseteq DOMAIN indexedTagMasks \cup {symbolMask}
    BY DEF indexAfterLookUp, addTagMaskIndex_, With
<1> HIDE DEF tags, hit, looked
<1>8. CASE /\ throws(new)
           /\ \E l \in BOOLEAN : indexedTagMasks' = indexAfterLookUp(l)
           /\ UNCHANGED <<implicitVars, edges, vvcHash, edgeCounterHash>>
    BY <1>2, <1>7, <1>8 DEF implicitVars, tags
<1>9. CASE /\ ~throws(new) /\ hit = NoEdge
           /\ InsertEdge(new.from, new.to, new.item, tags, new.sequence, score, implicitOutEdges,
                         looked)
    <2>1. tags # {Symbol}
        BY <1>2
    <2>2. InsertExplicitEdge(new.from, new.to, new.item, tags, new.sequence, score,
                             implicitOutEdges, looked)
        BY <1>9, <2>1 DEF InsertEdge, InsertImplicitEdge, becomesImplicit
    <2>3. /\ implicitOutEdges' = implicitOutEdges
          /\ indexedTagMasks' = indexEdge(indexAfterLookUp(looked \/ tags = {Symbol}),
                                          Len(edges) + 1, tags)
          /\ Inserted(new, score)
        BY <2>2 DEF InsertExplicitEdge, CountAndReveal, counted, Inserted, entryOf, keyOf, tags
    <2>4. DOMAIN indexedTagMasks' \subseteq DOMAIN indexedTagMasks \cup {symbolMask}
        <3>1. (looked \/ tags = {Symbol}) \in BOOLEAN
            BY <1>6
        <3> QED BY <1>7, <2>3, <3>1 DEF indexEdge
    <2> QED BY <1>2, <1>9, <2>3, <2>4 DEF tags, hit
<1>10. CASE /\ ~throws(new) /\ hit # NoEdge /\ isExplicit(hit)
            /\ MergeIntoEdge(hit.at, tags, new.sequence, score, indexAfterLookUp(looked))
    <2>1. /\ implicitOutEdges' = implicitOutEdges
          /\ indexedTagMasks' = indexAfterLookUp(looked)
          /\ UNCHANGED <<vvcHash, edgeCounterHash>>
          /\ edges' = [edges EXCEPT ![hit.at] = mergedEntry(hit.at, new, score)]
        BY <1>10 DEF MergeIntoEdge, implicitVars, mergedEntry, mergedTags, withPartition, tags
    <2>2. Merged(hit.at, new, score)
        BY <1>4, <1>10, <2>1 DEF Merged
    <2> QED BY <1>2, <1>4, <1>6, <1>7, <1>10, <2>1, <2>2 DEF tags, hit
<1> QED BY <1>4, <1>5, <1>8, <1>9, <1>10 DEF isExplicit, Explicit

\* The edges afterwards: the old ones, one of which may have another partition, and perhaps
\* a new one.
EdgesAfter(new, score) ==
    /\ DOMAIN edges \subseteq DOMAIN edges'
    /\ \A e \in DOMAIN edges' :
          \/ e \in DOMAIN edges /\ edges'[e] = edges[e]
          \/ /\ e \in DOMAIN edges /\ Merged(e, new, score) /\ ~throws(new)
             /\ edges'[e].from = edges[e].from /\ edges'[e].to = edges[e].to
             /\ edges'[e].item = edges[e].item
             /\ edges'[e].tags = edges[e].tags \cup tagsOf(new)
             /\ edges'[e].partitions[1] = edges[e].partitions[1]
             /\ edges'[e].score = betterScore(edges[e].score, score)
          \/ /\ e = Len(edges) + 1 /\ Len(edges') = e /\ ~throws(new)
             /\ Inserted(new, score) /\ edges'[e] = entryOf(new, score)

LEMMA WordEdges ==
    ASSUME LatticeInv, WordsPlain, SymbolsAside, NEW new, isWord(new), NEW score,
           addEdge(new.from, new.to, new.item, new.tags, new.sequence, score, FALSE)
    PROVE  EdgesAfter(new, score)
<1> USE DEF EdgesAfter
<1>0. edges \in Seq(EdgeEntry) /\ Len(edges) \in Nat /\ DOMAIN edges = 1 .. Len(edges)
    BY DEF LatticeInv, LatticeTypeOK
<1>1. CASE UNCHANGED edges
    BY <1>1
<1>2. CASE ~throws(new) /\ Inserted(new, score)
    <2>1. edges' = Append(edges, entryOf(new, score))
        BY <1>2 DEF Inserted
    <2> DEFINE entry == entryOf(new, score)
    <2> HIDE DEF entry
    <2>2. /\ Len(edges') = Len(edges) + 1 /\ DOMAIN edges' = 1 .. Len(edges) + 1
          /\ edges'[Len(edges) + 1] = entry
          /\ \A e \in 1 .. Len(edges) : edges'[e] = edges[e]
        BY <1>0, <2>1 DEF entry
    <2> QED BY <1>0, <1>2, <2>2 DEF entry
<1>3. ASSUME NEW e \in DOMAIN edges, Merged(e, new, score), ~throws(new)
      PROVE  /\ DOMAIN edges' = DOMAIN edges
             /\ \A d \in DOMAIN edges : d # e => edges'[d] = edges[d]
             /\ edges'[e].from = edges[e].from /\ edges'[e].to = edges[e].to
             /\ edges'[e].item = edges[e].item
             /\ edges'[e].tags = edges[e].tags \cup tagsOf(new)
             /\ edges'[e].partitions[1] = edges[e].partitions[1]
             /\ edges'[e].score = betterScore(edges[e].score, score)
    <2> DEFINE part == [tags |-> edges[e].tags \cup tagsOf(new), sequence |-> new.sequence,
                        score |-> score]
               best == betterScore(edges[e].score, score)
               all  == edges[e].tags \cup tagsOf(new)
    <2>1. edges' = [edges EXCEPT ![e] =
                       [edges[e] EXCEPT !.tags = all, !.score = best,
                                        !.partitions = Append(edges[e].partitions, part)]]
        BY <1>3 DEF Merged, mergedEntry
    <2>2. edges[e] \in EdgeEntry /\ edges[e].partitions \in Seq(Partition)
          /\ edges[e].partitions # <<>>
        BY EdgeFields DEF LatticeInv, PartitionTagsHeld
    <2> HIDE DEF part, best, all
    <2> DEFINE parts == edges[e].partitions
    <2>3. Append(parts, part)[1] = parts[1]
        <3>1. parts \in Seq(Partition) /\ parts # <<>>
            BY <2>2
        <3> HIDE DEF parts
        <3> QED BY <3>1, FirstOfAppended
    <2>4. /\ edges'[e] = [edges[e] EXCEPT !.tags = all, !.score = best,
                                          !.partitions = Append(edges[e].partitions, part)]
          /\ DOMAIN edges' = DOMAIN edges
          /\ \A d \in DOMAIN edges : d # e => edges'[d] = edges[d]
        BY <1>0, <2>1
    <2> QED BY <2>2, <2>3, <2>4 DEF EdgeEntry, best, all
<1>4. CASE ~throws(new) /\ \E e \in DOMAIN edges : Merged(e, new, score)
    <2>1. PICK e \in DOMAIN edges : Merged(e, new, score)
        BY <1>4
    <2> QED BY <1>3, <1>4, <2>1
<1>5. UNCHANGED edges \/ (~throws(new) /\ Inserted(new, score))
      \/ (~throws(new) /\ \E e \in DOMAIN edges : Merged(e, new, score))
    BY WordAdded
<1> QED BY <1>1, <1>2, <1>4, <1>5

-----------------------------------------------------------------------------
(* The lattice under the parser.                                           *)

\* A first sequence leads to edges before e, or over symbols.
restsOn(sequence, e) ==
    IF sequence.links # <<>>
    THEN \A n \in DOMAIN sequence.links :
            \/ \E v \in implicitOutEdges : sequence.links[n] = Implicit(v)
            \/ \E d \in 1 .. e - 1 : sequence.links[n] = Explicit(d)
    ELSE sequence.begin .. sequence.end - 1 \subseteq implicitOutEdges

FirstsBelow == \A e \in DOMAIN edges : restsOn(edges[e].partitions[1].sequence, e)

\* The score of an edge is no less than the one it was made with.
ScoresKept == \A e \in DOMAIN edges : edges[e].partitions[1].score <= edges[e].score

\* The vertices of every edge have a counter.
Counted == \A e \in DOMAIN edges : <<edges[e].from, edges[e].to>> \in DOMAIN edgeCounterHash

\* The symbols are read first, from the begin of the text on.
TextRead ==
    /\ text \in {<<>>, chart.text}
    /\ call = NoCall => implicitOutEdges = 0 .. Len(text) - 1
    /\ call # NoCall =>
          /\ phase = "prepare" /\ edges = <<>>
          /\ call.op = "symbols" /\ call.to = Len(text)
          /\ implicitOutEdges = 0 .. call.at - 1

Words ==
    /\ Inv
    /\ nLooseVertices = 0
    /\ chart \in Charts
    /\ WordsPlain
    /\ SymbolsAside
    /\ TextRead
    /\ FirstsBelow
    /\ ScoresKept
    /\ Counted

\* A word is added.
LEMMA WordKeepsWords ==
    ASSUME Words, UNCHANGED chart, NEW new, isWord(new),
           new.from \in Vertices, new.to \in Vertices, new.item \in AnnotationItem,
           new.sequence \in EdgeSequence, restsOn(new.sequence, Len(edges) + 1),
           NEW score \in Int,
           AddEdge(new.from, new.to, new.item, new.tags, new.sequence, score)
    PROVE  Words' /\ OnlyGrow /\ UNCHANGED <<text, call, implicitOutEdges>>
<1>1. /\ call = NoCall /\ UNCHANGED <<text, nLooseVertices, call>>
      /\ addEdge(new.from, new.to, new.item, new.tags, new.sequence, score, FALSE)
    BY DEF AddEdge, Idle
<1>2. VerticesGrow /\ Vertices' = Vertices /\ nLooseVertices = 0
    BY <1>1, SameVertices DEF Words, Inv
<1>3. LatticeInv /\ WordsPlain /\ SymbolsAside
    BY DEF Words, Inv
<1>4. LatticeInv' /\ OnlyGrow
    BY <1>1, <1>2, <1>3, AddEdgePreserves DEF isWord
<1>5. Inv'
    BY <1>1, <1>4, IdleAfter DEF Inv
<1>6. /\ implicitOutEdges' = implicitOutEdges
      /\ tagsOf(new) \in Collection /\ Symbol \notin tagsOf(new)
      /\ \/ UNCHANGED vvcHash
         \/ vvcHash' = With(vvcHash, keyOf(new), Append(registered(keyOf(new)),
                                                        Explicit(Len(edges) + 1)))
    BY <1>1, <1>3, WordAdded DEF Inserted, Merged
<1>7. TextRead'
    BY <1>1, <1>6 DEF Words, TextRead
<1>8. ASSUME NEW e \in DOMAIN edges'
      PROVE  \/ e \in DOMAIN edges /\ edges'[e] = edges[e]
             \/ /\ e \in DOMAIN edges
                /\ edges'[e].from = edges[e].from /\ edges'[e].to = edges[e].to
                /\ edges'[e].item = edges[e].item
                /\ edges'[e].tags = edges[e].tags \cup tagsOf(new)
                /\ edges'[e].partitions[1] = edges[e].partitions[1]
                /\ edges'[e].score = betterScore(edges[e].score, score)
             \/ /\ e = Len(edges) + 1 /\ ~throws(new)
                /\ edges'[e].from = new.from /\ edges'[e].to = new.to
                /\ edges'[e].item = new.item
                /\ edges'[e].tags = tagsOf(new)
                /\ edges'[e].partitions[1].sequence = new.sequence
                /\ edges'[e].partitions[1].score = score
                /\ edges'[e].score = score
    <2>0. EdgesAfter(new, score)
        BY <1>1, <1>3, WordEdges
    <2>1. \/ e \in DOMAIN edges
          \/ e = Len(edges) + 1 /\ ~throws(new) /\ edges'[e] = entryOf(new, score)
        BY <2>0 DEF EdgesAfter
    <2>2. CASE e \in DOMAIN edges
        <3>1. e # Len(edges) + 1
            BY <1>3, <2>2 DEF LatticeInv, LatticeTypeOK
        <3>2. \/ edges'[e] = edges[e]
              \/ /\ edges'[e].from = edges[e].from /\ edges'[e].to = edges[e].to
                 /\ edges'[e].item = edges[e].item
                 /\ edges'[e].tags = edges[e].tags \cup tagsOf(new)
                 /\ edges'[e].partitions[1] = edges[e].partitions[1]
                 /\ edges'[e].score = betterScore(edges[e].score, score)
              \/ e = Len(edges) + 1
            BY <2>0 DEF EdgesAfter
        <3> QED BY <2>2, <3>1, <3>2
    <2>3. CASE e = Len(edges) + 1 /\ ~throws(new) /\ edges'[e] = entryOf(new, score)
        BY <2>3 DEF entryOf
    <2> QED BY <2>1, <2>2, <2>3
<1>9. ~throws(new) => 0 <= new.from /\ new.from < new.to
    <2>1. new.from \in Nat /\ new.to \in Nat
        BY <1>2 DEF Vertices
    <2> QED BY <2>1 DEF throws, addEdgeThrows, forwards, isLooseVertex
<1>10. WordsPlain'
    BY <1>3, <1>6, <1>8, <1>9 DEF WordsPlain, isWord
<1>11. SymbolsAside'
    <2> SUFFICES ASSUME NEW key \in DOMAIN vvcHash', NEW i \in DOMAIN vvcHash'[key],
                        ~isExplicit(vvcHash'[key][i])
                 PROVE  key[3].category \in Char /\ key[1] \in implicitOutEdges'
        BY DEF SymbolsAside, isExplicit
    <2>1. CASE UNCHANGED vvcHash
        BY <1>3, <1>6, <2>1 DEF SymbolsAside
    <2>2. CASE vvcHash' = With(vvcHash, keyOf(new), Append(registered(keyOf(new)),
                                                          Explicit(Len(edges) + 1)))
        <3>1. Explicit(Len(edges) + 1) \in EdgeDescriptor /\ isExplicit(Explicit(Len(edges) + 1))
            BY <1>3 DEF Explicit, EdgeDescriptor, isExplicit, LatticeInv, LatticeTypeOK
        <3>2. registered(key)' = vvcHash'[key]
            BY DEF registered
        <3>3. i \in DOMAIN registered(key) /\ registered(key)[i] = vvcHash'[key][i]
            BY <1>3, <2>2, <3>1, <3>2, RegisterMore DEF LatticeInv
        <3>4. key \in DOMAIN vvcHash /\ registered(key) = vvcHash[key]
            BY <3>3 DEF registered
        <3> QED BY <1>3, <1>6, <3>3, <3>4 DEF SymbolsAside
    <2> QED BY <1>6, <2>1, <2>2
<1>12. FirstsBelow'
    <2> SUFFICES ASSUME NEW e \in DOMAIN edges'
                 PROVE  restsOn(edges[e].partitions[1].sequence, e)'
        BY DEF FirstsBelow
    <2>1. e \in DOMAIN edges => restsOn(edges[e].partitions[1].sequence, e)
        BY DEF Words, FirstsBelow
    <2>2. restsOn(edges'[e].partitions[1].sequence, e)
        BY <1>8, <2>1
    <2> QED BY <1>6, <2>2 DEF restsOn
<1>13. ScoresKept'
    <2> SUFFICES ASSUME NEW e \in DOMAIN edges'
                 PROVE  edges'[e].partitions[1].score <= edges'[e].score
        BY DEF ScoresKept
    <2>1. e \in DOMAIN edges => /\ edges[e].partitions[1].score <= edges[e].score
                               /\ edges[e].partitions[1].score \in Int
                               /\ edges[e].score \in Int
        <3> HAVE e \in DOMAIN edges
        <3>1. edges[e].partitions \in Seq(Partition) /\ edges[e].partitions # <<>>
            BY <1>3, EdgeFields DEF LatticeInv, PartitionTagsHeld
        <3>2. edges[e].partitions[1] \in Partition
            BY <3>1
        <3> QED BY <1>3, <3>2, EdgeFields DEF Words, ScoresKept, Partition, LatticeInv
    <2> QED BY <1>8, <2>1 DEF betterScore
<1>14. Counted'
    <2> SUFFICES ASSUME NEW e \in DOMAIN edges'
                 PROVE  <<edges'[e].from, edges'[e].to>> \in DOMAIN edgeCounterHash'
        BY DEF Counted
    <2>1. EdgesAfter(new, score)
        BY <1>1, <1>3, WordEdges
    <2>2. \/ UNCHANGED <<edges, edgeCounterHash>>
          \/ Inserted(new, score)
          \/ \E d \in DOMAIN edges : Merged(d, new, score)
        BY <1>1, <1>3, WordAdded
    <2>3. DOMAIN edgeCounterHash \subseteq DOMAIN edgeCounterHash'
        BY <2>2 DEF Inserted, Merged, With
    <2>4. CASE e \in DOMAIN edges
        <3>1. <<edges[e].from, edges[e].to>> \in DOMAIN edgeCounterHash
            BY <2>4 DEF Words, Counted
        <3>2. edges'[e].from = edges[e].from /\ edges'[e].to = edges[e].to
            BY <1>4, <2>4 DEF OnlyGrow
        <3> QED BY <2>3, <3>1, <3>2
    <2>5. CASE e \notin DOMAIN edges
        <3>1. Inserted(new, score) /\ edges'[e] = entryOf(new, score)
            BY <2>1, <2>5 DEF EdgesAfter
        <3>2. edges'[e].from = new.from /\ edges'[e].to = new.to
            BY <3>1 DEF entryOf
        <3> QED BY <3>1, <3>2 DEF Inserted, With
    <2> QED BY <2>4, <2>5
<1> QED BY <1>1, <1>2, <1>4, <1>5, <1>6, <1>7, <1>10, <1>11, <1>12, <1>13, <1>14 DEF Words

\* The next symbol becomes a bit.
LEMMA SymbolAdded ==
    ASSUME Words, AddSymbolsStep,
           NEW key, key = <<call.at, call.at + 1, SymbolItem(text[call.at + 1])>>
    PROVE  /\ call # NoCall /\ UNCHANGED <<text, nLooseVertices, edges>>
           /\ implicitOutEdges' = implicitOutEdges \cup {call.at}
           /\ vvcHash' = With(vvcHash, key, Append(registered(key), Implicit(call.at)))
           /\ DOMAIN indexedTagMasks' \subseteq DOMAIN indexedTagMasks \cup {symbolMask}
           /\ call.at \in Nat /\ call.to = Len(text) /\ call.at < call.to
           /\ text[call.at + 1] \in Char
           /\ call' = IF call.at + 1 = call.to THEN NoCall ELSE [call EXCEPT !.at = call.at + 1]
<1> DEFINE tags   == inheritedTags({Symbol}, EmptySequence)
           from   == call.at
           to     == call.at + 1
           item   == SymbolItem(text[call.at + 1])
           hit    == isoplanarEdge(<<from, to, item>>, tags)
           looked == FALSE \/ (hit # NoEdge /\ isRange(EmptySequence))
<1>1. /\ call.op = "symbols" /\ UNCHANGED <<text, nLooseVertices>>
      /\ addEdge(from, to, item, {Symbol}, EmptySequence, 0, FALSE)
      /\ call' = IF call.at + 1 = call.to THEN NoCall ELSE [call EXCEPT !.at = call.at + 1]
    BY DEF AddSymbolsStep
<1>2. call # NoCall
    BY <1>1, NoCallFacts
<1>3. /\ edges = <<>> /\ call.to = Len(text) /\ implicitOutEdges = 0 .. call.at - 1
      /\ call.at \in Int /\ 0 <= call.at /\ call.at < call.to
      /\ text \in Seq(Char) /\ LatticeInv
    BY <1>1, <1>2 DEF Words, TextRead, Inv, Call, CallOnVertices, LatticeInv, LatticeTypeOK
<1>4. text[call.at + 1] \in Char
    BY <1>3
<1>5. tags = {Symbol}
    BY SymbolTag DEF inheritedTags, gatherPlaneTags, onlyPlaneTags, EmptySequence
<1>6. hit = NoEdge
    <2> DEFINE k == <<from, to, item>>
    <2>0. hit = NoEdge \/ \E i \in DOMAIN registered(k) : hit = registered(k)[i]
        <3>1. LatticeTypeOK
            BY <1>3 DEF LatticeInv
        <3> HIDE DEF tags, from, to, item
        <3> QED BY <3>1, IsoplanarHit
    <2> SUFFICES ASSUME NEW i \in DOMAIN registered(k), hit = registered(k)[i]
                 PROVE  FALSE
        BY <2>0
    <2>1. k \in DOMAIN vvcHash /\ registered(k) = vvcHash[k] /\ i \in DOMAIN vvcHash[k]
        BY DEF registered
    <2>2. ~isExplicit(vvcHash[k][i])
        BY <1>3, <2>1, RegisteredFacts DEF LatticeInv
    <2>3. k[1] \in implicitOutEdges
        BY <2>1, <2>2 DEF Words, SymbolsAside
    <2> QED BY <1>3, <2>3
<1>7. ~addEdgeThrows(from, to, hit, EmptySequence)
    BY <1>3, <1>6 DEF addEdgeThrows, forwards
<1>8. InsertEdge(from, to, item, tags, EmptySequence, 0, implicitOutEdges, looked)
    <2>1. \/ addEdgeThrows(from, to, hit, EmptySequence)
          \/ hit = NoEdge
             /\ InsertEdge(from, to, item, tags, EmptySequence, 0, implicitOutEdges, looked)
          \/ hit # NoEdge
        BY <1>1 DEF addEdge
    <2> QED BY <1>6, <1>7, <2>1
<1>9. becomesImplicit(from, to, tags, implicitOutEdges)
    <2>1. from \in Nat /\ to = from + 1 /\ implicitOutEdges = 0 .. from - 1
        BY <1>3
    <2> HIDE DEF from, to, tags
    <2> QED BY <1>5, <2>1 DEF becomesImplicit, isLooseVertex
<1>10. InsertImplicitEdge(from, to, item, tags, implicitOutEdges)
    BY <1>8, <1>9 DEF InsertEdge, InsertExplicitEdge
<1>11. DOMAIN indexedTagMasks' \subseteq DOMAIN indexedTagMasks \cup {symbolMask}
    BY <1>10 DEF InsertImplicitEdge, indexAfterLookUp, addTagMaskIndex_, With
<1>12. /\ implicitOutEdges' = implicitOutEdges \cup {call.at}
       /\ vvcHash' = With(vvcHash, key, Append(registered(key), Implicit(call.at)))
       /\ UNCHANGED edges
    BY <1>10 DEF InsertImplicitEdge
<1> QED BY <1>1, <1>2, <1>3, <1>4, <1>11, <1>12

\* A symbol is read.
LEMMA SymbolKeepsWords ==
    ASSUME Words, AddSymbolsStep, UNCHANGED <<chart, phase>>
    PROVE  Words' /\ UNCHANGED edges
<1> DEFINE key == <<call.at, call.at + 1, SymbolItem(text[call.at + 1])>>
<1>1. /\ call # NoCall /\ UNCHANGED <<text, nLooseVertices, edges>>
      /\ implicitOutEdges' = implicitOutEdges \cup {call.at}
      /\ vvcHash' = With(vvcHash, key, Append(registered(key), Implicit(call.at)))
      /\ call.at \in Nat /\ call.to = Len(text) /\ call.at < call.to
      /\ text[call.at + 1] \in Char
      /\ call' = IF call.at + 1 = call.to THEN NoCall ELSE [call EXCEPT !.at = call.at + 1]
    BY SymbolAdded
<1>2. Inv'
    BY AddSymbolsStepPreserves DEF Words
<1>3. /\ phase = "prepare" /\ edges = <<>> /\ call.op = "symbols" /\ call.to = Len(text)
      /\ implicitOutEdges = 0 .. call.at - 1 /\ call \in Call /\ LatticeInv
    BY <1>1 DEF Words, TextRead, Inv
<1>4. implicitOutEdges' = 0 .. call.at
    BY <1>1, <1>3
<1>5. TextRead'
    <2>1. CASE call.at + 1 = call.to
        BY <1>1, <1>3, <1>4, <2>1, NoCallFacts DEF Words, TextRead
    <2>2. CASE call.at + 1 # call.to
        <3>1. call'.at = call.at + 1 /\ call'.op = call.op /\ call'.to = call.to
            BY <1>1, <1>3, <2>2 DEF Call
        <3>2. call' # NoCall
            BY <1>3, <3>1, NoCallFacts
        <3> QED BY <1>1, <1>3, <1>4, <3>1, <3>2 DEF Words, TextRead
    <2> QED BY <2>1, <2>2
<1>6. SymbolsAside'
    <2> SUFFICES ASSUME NEW k \in DOMAIN vvcHash', NEW i \in DOMAIN vvcHash'[k],
                        ~isExplicit(vvcHash'[k][i])
                 PROVE  k[3].category \in Char /\ k[1] \in implicitOutEdges'
        BY DEF SymbolsAside, isExplicit
    <2>1. Implicit(call.at) \in EdgeDescriptor
        BY <1>1 DEF Implicit, EdgeDescriptor
    <2>2. registered(k)' = vvcHash'[k]
        BY DEF registered
    <2>3. \/ i \in DOMAIN registered(k) /\ registered(k)[i] = vvcHash'[k][i]
          \/ k = key
        BY <1>1, <1>3, <2>1, <2>2, RegisterMore DEF LatticeInv
    <2>4. CASE i \in DOMAIN registered(k) /\ registered(k)[i] = vvcHash'[k][i]
        <3>1. k \in DOMAIN vvcHash /\ registered(k) = vvcHash[k]
            BY <2>4 DEF registered
        <3> QED BY <1>1, <2>4, <3>1 DEF Words, SymbolsAside
    <2>5. CASE k = key
        BY <1>1, <2>5 DEF SymbolItem
    <2> QED BY <2>3, <2>4, <2>5
<1>7. WordsPlain' /\ FirstsBelow' /\ ScoresKept' /\ Counted'
    <2>1. DOMAIN edges' = {}
        BY <1>1, <1>3
    <2> QED BY <2>1 DEF WordsPlain, FirstsBelow, ScoresKept, Counted
<1> QED BY <1>1, <1>2, <1>5, <1>6, <1>7 DEF Words

\* The text is read.
LEMMA TextKeepsWords ==
    ASSUME Words, phase = "prepare", text = <<>>, AppendStringWithSymbols(chart.text),
           UNCHANGED <<chart, phase>>
    PROVE  Words' /\ UNCHANGED latticeVars
<1>1. /\ call = NoCall /\ chart.text # <<>> /\ text' = text \o chart.text
      /\ UNCHANGED <<nLooseVertices, latticeVars>>
      /\ call' = IF lastVertexIsLoose THEN NoCall
                 ELSE [NoCall EXCEPT !.op = "symbols", !.at = Len(text),
                                     !.to = Len(text \o chart.text)]
    BY DEF AppendStringWithSymbols, Idle
<1>2. chart.text \in Seq(Char) /\ LatticeInv /\ nLooseVertices = 0
    BY ChartFields DEF Words, Inv
<1>3. text' = chart.text /\ Len(text) = 0 /\ Len(text') \in Nat /\ Len(text') > 0
    BY <1>1, <1>2
<1>4. edges = <<>>
    <2>1. edges \in Seq(EdgeEntry)
        BY <1>2 DEF LatticeInv, LatticeTypeOK
    <2> SUFFICES ASSUME NEW e \in DOMAIN edges PROVE FALSE
        BY <2>1
    <2>2. edges[e].from \in 0 .. 0 /\ edges[e].to \in 0 .. 0
        BY <1>2, <1>3 DEF LatticeInv, WithinText, Vertices
    <2> QED BY <2>2 DEF Words, WordsPlain
<1>5. ~lastVertexIsLoose
    BY <1>4 DEF lastVertexIsLoose
<1>6. call' = [op |-> "symbols", here |-> 0, at |-> 0, to |-> Len(text'),
               rest |-> <<>>, whole |-> <<>>]
    BY <1>1, <1>3, <1>5 DEF NoCall
<1>7. call' # NoCall /\ call'.op = "symbols" /\ call'.at = 0 /\ call'.to = Len(text')
    BY <1>6 DEF NoCall
<1>8. VerticesGrow
    BY <1>1, <1>2, <1>3 DEF VerticesGrow
<1>9. Inv'
    <2>1. LatticeInv'
        BY <1>1, <1>2, <1>8, LatticeUnchanged
    <2>2. (call \in Call)' /\ CallOnVertices'
        BY <1>3, <1>6, SymbolsCall
    <2> QED BY <2>1, <2>2 DEF Inv
<1>10. implicitOutEdges' = {} /\ UNCHANGED <<edges, vvcHash, implicitOutEdges>>
    BY <1>1, <1>3 DEF Words, TextRead, latticeVars, implicitVars
<1>11. TextRead'
    BY <1>3, <1>4, <1>7, <1>10 DEF TextRead
<1>12. WordsPlain' /\ FirstsBelow' /\ ScoresKept' /\ Counted'
    BY <1>4, <1>10 DEF WordsPlain, FirstsBelow, ScoresKept, Counted
<1>13. SymbolsAside'
    BY <1>10 DEF Words, SymbolsAside, isExplicit
<1> QED BY <1>1, <1>2, <1>9, <1>11, <1>12, <1>13 DEF Words

\* A mask is indexed, or nothing happens.
LEMMA QueryKeepsWords ==
    ASSUME Words, NEW mask \in Mask, QueryEdges(mask) \/ UNCHANGED vars, UNCHANGED chart,
           call # NoCall => phase' = phase
    PROVE  Words' /\ UNCHANGED <<text, nLooseVertices, implicitOutEdges, edges, vvcHash,
                                 edgeCounterHash, call>>
<1>1. UNCHANGED <<text, nLooseVertices, implicitVars, edges, vvcHash, edgeCounterHash, call>>
    BY DEF QueryEdges, vars, latticeVars
<1>2. VerticesGrow
    BY <1>1, SameVertices DEF Words, Inv
<1>3. \E index : GoodIndex(index) /\ indexedTagMasks' = index
    <2>1. CASE QueryEdges(mask)
        BY <2>1, IndexAdded DEF Words, Inv, LatticeInv, QueryEdges
    <2>2. CASE UNCHANGED vars
        BY <2>2 DEF Words, Inv, GoodIndex, LatticeInv, LatticeTypeOK, IndexSound, FirstTagsIndexed,
                    vars, latticeVars
    <2> QED BY <2>1, <2>2
<1>4. LatticeInv'
    BY <1>1, <1>2, <1>3, OnlyIndexChanges DEF Words, Inv
<1>5. Inv'
    BY <1>1, <1>2, <1>4, CallKept DEF Words, Inv
<1>6. TextRead'
    BY <1>1 DEF Words, TextRead, implicitVars
<1>7. WordsPlain' /\ FirstsBelow' /\ ScoresKept' /\ SymbolsAside' /\ Counted'
    BY <1>1 DEF Words, WordsPlain, FirstsBelow, restsOn, ScoresKept, SymbolsAside, implicitVars,
                isExplicit, Counted
<1> QED BY <1>1, <1>5, <1>6, <1>7 DEF Words, implicitVars

\* An edge of the input is made of edges before it, or of symbols.
LEMMA InputSequence ==
    ASSUME Words, call = NoCall, text # <<>>, NEW k \in DOMAIN chart.input,
           NEW new, new = chart.input[k]
    PROVE  sequenceOver(new) \in EdgeSequence /\ restsOn(sequenceOver(new), k)
<1>1. /\ new.from \in Nat /\ new.to \in Nat /\ new.from < new.to /\ new.to <= Len(text)
      /\ new.over \in Seq(Nat) /\ \A n \in DOMAIN new.over : new.over[n] \in 1 .. k - 1
      /\ implicitOutEdges = 0 .. Len(text) - 1
    BY InputFields DEF Words, TextRead
<1>2. k \in Nat /\ Len(text) \in Nat
    BY ChartFields DEF Words, Inv, LatticeInv, LatticeTypeOK
<1>3. CASE new.over # <<>>
    <2> DEFINE path == [i \in DOMAIN new.over |-> Explicit(new.over[i])]
    <2>1. /\ path \in Seq(EdgeDescriptor) /\ path # <<>>
          /\ \A n \in DOMAIN path : \E d \in 1 .. k - 1 : path[n] = Explicit(d)
        <3>1. \A n \in DOMAIN new.over : Explicit(new.over[n]) \in EdgeDescriptor
            BY <1>1 DEF Explicit, EdgeDescriptor
        <3>2. new.over \in Seq(Nat) /\ Len(new.over) \in Nat /\ Len(new.over) # 0
              /\ DOMAIN new.over = 1 .. Len(new.over)
            BY <1>1, <1>3
        <3>3. path \in [1 .. Len(new.over) -> EdgeDescriptor]
            BY <3>1, <3>2
        <3>4. \A n \in DOMAIN path : \E d \in 1 .. k - 1 : path[n] = Explicit(d)
            BY <1>1
        <3> HIDE DEF path
        <3>5. path \in Seq(EdgeDescriptor) /\ path # <<>>
            BY <3>2, <3>3, SequenceOfMany
        <3> QED BY <3>4, <3>5
    <2>2. 1 \in DOMAIN path /\ ~isEdgeHidden(path[1])
        <3> HIDE DEF path
        <3>1. 1 \in DOMAIN path
            BY <2>1
        <3> QED BY <2>1, <3>1 DEF isEdgeHidden, isExplicit, Explicit
    <2>3. sequenceOver(new) = build(path)
        BY <1>3 DEF sequenceOver
    <2> HIDE DEF path
    <2>4. sequenceOver(new) = [links |-> path, begin |-> 0, end |-> 0]
        BY <2>2, <2>3 DEF build
    <2> QED BY <2>1, <2>4 DEF EdgeSequence, restsOn
<1>4. CASE new.over = <<>>
    <2> DEFINE n    == new.to - new.from
               path == [i \in 1 .. n |-> Implicit(new.from + i - 1)]
    <2>1. n \in Nat /\ n >= 1
        BY <1>1
    <2>2. \A i \in 1 .. n : new.from + i - 1 \in Nat /\ new.from + i - 1 \in implicitOutEdges
        BY <1>1, <1>2, <2>1
    <2>3. /\ path \in Seq(EdgeDescriptor) /\ path # <<>> /\ Len(path) = n
          /\ \A i \in DOMAIN path : \E v \in implicitOutEdges : path[i] = Implicit(v)
        <3>1. \A i \in 1 .. n : Implicit(new.from + i - 1) \in EdgeDescriptor
            BY <2>2 DEF Implicit, EdgeDescriptor
        <3> HIDE DEF n
        <3>2. path \in [1 .. n -> EdgeDescriptor]
            BY <3>1
        <3>3. \A i \in DOMAIN path : \E v \in implicitOutEdges : path[i] = Implicit(v)
            BY <2>2
        <3> HIDE DEF path
        <3>4. path \in Seq(EdgeDescriptor) /\ path # <<>> /\ Len(path) = n
            <4>1. n \in Nat /\ n # 0
                BY <2>1
            <4> QED BY <3>2, <4>1, SequenceOfMany
        <3> QED BY <3>3, <3>4
    <2>4. /\ getEdgeSource(path[1]) = new.from
          /\ getEdgeTarget(path[n]) = new.to
        <3>1. path[1] = Implicit(new.from) /\ path[n] = Implicit(new.to - 1)
            BY <1>1, <2>1
        <3>2. /\ ~isExplicit(path[1]) /\ ~isExplicit(path[n])
              /\ path[1].at = new.from /\ path[n].at = new.to - 1
            <4> HIDE DEF path, n
            <4> QED BY <3>1 DEF isExplicit, Implicit
        <3>3. (new.to - 1) + 1 = new.to
            BY <1>1
        <3> HIDE DEF path, n
        <3> QED BY <3>2, <3>3 DEF getEdgeSource, getEdgeTarget
    <2>5. sequenceOver(new) = build(path)
        BY <1>4 DEF sequenceOver
    <2>6. new.from .. new.to - 1 \subseteq implicitOutEdges
        BY <1>1, <1>2
    <2> HIDE DEF path, n
    <2>7. \/ sequenceOver(new) = [links |-> path, begin |-> 0, end |-> 0]
          \/ sequenceOver(new) = [links |-> <<>>, begin |-> new.from, end |-> new.to]
        BY <2>3, <2>4, <2>5 DEF build
    <2>8. CASE sequenceOver(new) = [links |-> path, begin |-> 0, end |-> 0]
        BY <2>3, <2>8 DEF EdgeSequence, restsOn
    <2>9. CASE sequenceOver(new) = [links |-> <<>>, begin |-> new.from, end |-> new.to]
        BY <1>1, <2>6, <2>9 DEF EdgeSequence, restsOn
    <2> QED BY <2>7, <2>8, <2>9
<1> QED BY <1>3, <1>4

\* An edge of the input as addEdge() gets it.
given(k) ==
    LET next == chart.input[k]
    IN  [from |-> next.from, to |-> next.to, item |-> next.item, tags |-> next.tags,
         sequence |-> sequenceOver(next)]

LEMMA GivenIsWord ==
    ASSUME Words, call = NoCall, text # <<>>, NEW k \in DOMAIN chart.input,
           NEW new, new = given(k)
    PROVE  /\ isWord(new) /\ new.item \in AnnotationItem
           /\ new.from \in Vertices /\ new.to \in Vertices
           /\ new.sequence \in EdgeSequence /\ restsOn(new.sequence, k)
<1>1. /\ new.from = chart.input[k].from /\ new.to = chart.input[k].to
      /\ new.item = chart.input[k].item /\ new.tags = chart.input[k].tags
      /\ new.sequence = sequenceOver(chart.input[k])
    BY DEF given
<1>2. /\ new.from \in Nat /\ new.to \in Nat /\ new.from < new.to /\ new.to <= Len(text)
      /\ new.item \in AnnotationItem /\ new.item.category \in Category
      /\ new.tags \in Collection /\ Symbol \notin new.tags
    BY <1>1, InputFields DEF Words, TextRead
<1>3. Vertices = 0 .. Len(text) /\ Len(text) \in Nat
    BY DEF Words, Inv, LatticeInv, LatticeTypeOK, Vertices
<1> QED BY <1>1, <1>2, <1>3, InputSequence DEF isWord

-----------------------------------------------------------------------------
(* The chart and the lists of the parser.                                  *)

\* The first edges are those of the input, the others made by rules.
AsGiven ==
    /\ phase \in {"prepare", "parse", "done"}
    /\ phase = "prepare" => Len(edges) <= Len(chart.input)
    /\ phase # "prepare" => Len(chart.input) <= Len(edges)
    /\ \A e \in DOMAIN edges :
          \/ /\ isGiven(e)
             /\ edges[e].from = chart.input[e].from /\ edges[e].to = chart.input[e].to
             /\ edges[e].item = chart.input[e].item
             /\ chart.input[e].tags \subseteq edges[e].partitions[1].tags
          \/ /\ ~isGiven(e)
             /\ \E i \in chart.grammar : edges[e].item.category = Rules[i].lhs

\* The parser has not begun.
Prepared ==
    phase = "prepare" =>
        /\ agenda = <<>> /\ current = NoEdge /\ combos = {} /\ marked = <<>>
        /\ limitLevel = 1
        /\ DOMAIN indexedTagMasks \subseteq {symbolMask}

ChartEdges == {Explicit(e) : e \in {d \in DOMAIN edges : onChart(d)}}

\* The lists hold edges of the chart.
Lists ==
    /\ agenda \in Seq(ChartEdges)
    /\ marked \in Seq(ChartEdges)
    /\ current \in ChartEdges \cup {NoEdge}
    /\ phase # "parse" => current = NoEdge
    /\ current = NoEdge => combos = {}
    /\ limitLevel \in Nat \ {0}

\* The rule combines these edges.
combinesAll(i, links) ==
    /\ i \in chart.grammar
    /\ Rules[i].rhs = [n \in DOMAIN links |-> category(links[n])]

\* The combinations that are left are of marked edges and by rules that fit.
Combinable ==
    \A c \in combos :
        /\ c.side \in {Alone, Behind, Before}
        /\ c.side # Alone => c.at \in DOMAIN marked
        /\ combinesAll(c.rule, linksOf(c, current))

ChartInv == Words /\ AsGiven /\ Prepared /\ Lists /\ Combinable

\* An edge of the chart, and what does not change of it.
LEMMA ChartEdgeFields ==
    ASSUME Words, NEW d \in ChartEdges
    PROVE  /\ d = Explicit(d.at) /\ isExplicit(d) /\ d # NoEdge
           /\ d.at \in DOMAIN edges /\ onChart(d.at)
           /\ d \in EdgeDescriptor
           /\ getEdgeSource(d) = edges[d.at].from /\ getEdgeSource(d) \in Vertices
           /\ getEdgeTarget(d) = edges[d.at].to /\ getEdgeTarget(d) \in Vertices
           /\ category(d) = edges[d.at].item.category
           /\ edgeScore(d) = edges[d.at].score /\ edgeScore(d) \in Int
           /\ ~isEdgeHidden(d)
<1>1. PICK e \in DOMAIN edges : onChart(e) /\ d = Explicit(e)
    BY DEF ChartEdges
<1>2. d.at = e /\ d.kind = "explicit" /\ d # NoEdge
    BY <1>1 DEF Explicit, NoEdge
<1>3. LatticeTypeOK /\ WithinText
    BY DEF Words, Inv, LatticeInv
<1>4. e \in Nat /\ edges[e].score \in Int /\ edges[e].from \in Vertices /\ edges[e].to \in Vertices
    BY <1>3, EdgeFields DEF WithinText
<1> QED BY <1>1, <1>2, <1>4
        DEF isExplicit, getEdgeSource, getEdgeTarget, category, getEdgeAnnotationItem, edgeScore,
            isEdgeHidden, EdgeDescriptor, Explicit

LEMMA ChartEdgesKept ==
    ASSUME Words, OnlyGrow, UNCHANGED chart, NEW d \in ChartEdges
    PROVE  /\ d \in ChartEdges'
           /\ getEdgeSource(d)' = getEdgeSource(d)
           /\ getEdgeTarget(d)' = getEdgeTarget(d)
           /\ category(d)' = category(d)
<1>1. PICK e \in DOMAIN edges : onChart(e) /\ d = Explicit(e)
    BY DEF ChartEdges
<1>2. d.at = e /\ d.kind = "explicit"
    BY <1>1 DEF Explicit
<1>3. /\ e \in DOMAIN edges' /\ edges'[e].from = edges[e].from /\ edges'[e].to = edges[e].to
      /\ edges'[e].item = edges[e].item /\ edges[e].tags \subseteq edges'[e].tags
    BY DEF OnlyGrow
<1>4. onChart(e)'
    BY <1>1, <1>3 DEF onChart, isGiven, matches
<1>5. d \in ChartEdges'
    BY <1>1, <1>3, <1>4 DEF ChartEdges
<1> QED BY <1>2, <1>3, <1>5
        DEF getEdgeSource, getEdgeTarget, category, getEdgeAnnotationItem, isExplicit

\* Sequences of chart edges remain such.
LEMMA ChartListsKept ==
    ASSUME Words, OnlyGrow, UNCHANGED chart, NEW list \in Seq(ChartEdges)
    PROVE  list \in Seq(ChartEdges')
<1>1. ChartEdges \subseteq ChartEdges'
    BY ChartEdgesKept
<1> HIDE DEF ChartEdges
<1> QED BY <1>1

\* The edges of a combination.
LEMMA LinksOfCombination ==
    ASSUME NEW S, NEW edge \in S, marked \in Seq(S), NEW c, c.side \in {Alone, Behind, Before},
           c.side # Alone => c.at \in DOMAIN marked
    PROVE  /\ linksOf(c, edge) \in Seq(S) /\ Len(linksOf(c, edge)) \in {1, 2}
           /\ \A n \in DOMAIN linksOf(c, edge) : linksOf(c, edge)[n] \in S
           /\ c.side = Alone => linksOf(c, edge) = <<edge>>
           /\ c.side = Behind => linksOf(c, edge) = <<marked[c.at], edge>>
           /\ c.side = Before => linksOf(c, edge) = <<edge, marked[c.at]>>
<1> DEFINE links == linksOf(c, edge)
<1>1. /\ c.side = Alone => links = <<edge>>
      /\ c.side = Behind => links = <<marked[c.at], edge>>
      /\ c.side = Before => links = <<edge, marked[c.at]>>
    BY DEF linksOf, Alone, Behind, Before
<1> HIDE DEF links
<1>2. c.side # Alone => marked[c.at] \in S
    OBVIOUS
<1>3. links \in Seq(S) /\ Len(links) \in {1, 2}
    <2>1. CASE c.side = Alone
        BY <1>1, <2>1, ShortSequences
    <2>2. CASE c.side # Alone
        <3> DEFINE m == marked[c.at]
        <3>1. m \in S
            BY <1>2, <2>2
        <3>2. links = <<m, edge>> \/ links = <<edge, m>>
            BY <1>1, <2>2
        <3> HIDE DEF m
        <3> QED BY <3>1, <3>2, ShortSequences
    <2> QED BY <2>1, <2>2
<1>4. \A n \in DOMAIN links : links[n] \in S
    BY <1>3
<1> QED BY <1>1, <1>3, <1>4 DEF links

\* What a rule makes of edges of the chart is a word.
LEMMA ProductIsWord ==
    ASSUME Words, NEW links \in Seq(ChartEdges), Len(links) \in {1, 2},
           NEW i \in chart.grammar, NEW new, new = product(links, i)
    PROVE  /\ isWord(new) /\ new.item \in AnnotationItem
           /\ new.from \in Vertices /\ new.to \in Vertices
           /\ new.from = getEdgeSource(links[1]) /\ new.to = getEdgeTarget(links[Len(links)])
           /\ new.item.category = Rules[i].lhs
           /\ new.sequence = [links |-> links, begin |-> 0, end |-> 0]
           /\ new.sequence \in EdgeSequence /\ restsOn(new.sequence, Len(edges) + 1)
           /\ scoreOf(links, i) \in Int
<1>1. /\ links[1] \in ChartEdges /\ links[Len(links)] \in ChartEdges
      /\ Len(links) = 2 => links[2] \in ChartEdges
      /\ 1 \in DOMAIN links
    OBVIOUS
<1>2. i \in DOMAIN Rules /\ Rules[i].lhs \in Category /\ Rules[i].score \in Int
    BY ChartFields, RuleFields DEF Words
<1>3. /\ new.from = getEdgeSource(links[1]) /\ new.to = getEdgeTarget(links[Len(links)])
      /\ new.item = [category |-> Rules[i].lhs, text |-> NoText] /\ new.tags = ParseTags
      /\ new.sequence = build(links)
    BY DEF product
<1>4. \A n \in DOMAIN links : /\ links[n] \in EdgeDescriptor /\ ~isEdgeHidden(links[n])
                              /\ \E d \in 1 .. Len(edges) + 1 - 1 : links[n] = Explicit(d)
    <2> SUFFICES ASSUME NEW n \in DOMAIN links
                 PROVE  /\ links[n] \in EdgeDescriptor /\ ~isEdgeHidden(links[n])
                        /\ \E d \in 1 .. Len(edges) + 1 - 1 : links[n] = Explicit(d)
        OBVIOUS
    <2>1. links[n] \in ChartEdges
        OBVIOUS
    <2>2. edges \in Seq(EdgeEntry)
        BY DEF Words, Inv, LatticeInv, LatticeTypeOK
    <2> QED BY <2>1, <2>2, ChartEdgeFields
<1>5. new.sequence = [links |-> links, begin |-> 0, end |-> 0]
    BY <1>1, <1>3, <1>4 DEF build
<1>6. links \in Seq(EdgeDescriptor) /\ links # <<>>
    BY <1>1, <1>4, SequenceInto
<1>7. new.sequence \in EdgeSequence
    BY <1>5, <1>6 DEF EdgeSequence
<1>8. restsOn(new.sequence, Len(edges) + 1)
    BY <1>4, <1>5, <1>6 DEF restsOn
<1>9. new.from \in Vertices /\ new.to \in Vertices
    BY <1>1, <1>3, ChartEdgeFields
<1>10. isWord(new) /\ new.item \in AnnotationItem
    BY <1>2, <1>3, ChartAssumption DEF isWord, AnnotationItem
<1>11. scoreOf(links, i) \in Int
    <2>1. edgeScore(links[1]) \in Int /\ (Len(links) = 2 => edgeScore(links[2]) \in Int)
        BY <1>1, ChartEdgeFields
    <2> QED BY <1>2, <2>1 DEF scoreOf
<1> QED BY <1>3, <1>5, <1>7, <1>8, <1>9, <1>10, <1>11

\* While the chart is prepared the lists are empty.
LEMMA EmptyLists ==
    ASSUME Prepared', phase' = "prepare"
    PROVE  Lists' /\ Combinable'
<1>1. <<>> \in Seq(ChartEdges')
    OBVIOUS
<1> QED BY <1>1 DEF Prepared, Lists, Combinable

\* The text and its symbols are read.
LEMMA ReadingKeepsChart ==
    ASSUME ChartInv, ReadsText \/ ReadsSymbol
    PROVE  ChartInv' /\ phase' = "prepare"
<1>1. UNCHANGED <<chart, phase, agenda, current, combos, marked, limitLevel>>
    BY DEF ReadsText, ReadsSymbol, parserVars
<1>2. /\ phase = "prepare" /\ Words' /\ UNCHANGED edges
      /\ DOMAIN indexedTagMasks' \subseteq DOMAIN indexedTagMasks \cup {symbolMask}
    <2>1. CASE ReadsText
        <3>1. Words' /\ UNCHANGED latticeVars
            BY <1>1, <2>1, TextKeepsWords DEF ChartInv, ReadsText
        <3> QED BY <2>1, <3>1 DEF ReadsText, latticeVars
    <2>2. CASE ReadsSymbol
        <3>1. AddSymbolsStep
            BY <2>2 DEF ReadsSymbol
        <3>2. /\ call # NoCall
              /\ DOMAIN indexedTagMasks' \subseteq DOMAIN indexedTagMasks \cup {symbolMask}
            BY <3>1, SymbolAdded DEF ChartInv
        <3>3. phase = "prepare"
            BY <3>2 DEF ChartInv, Words, TextRead
        <3> QED BY <1>1, <3>1, <3>2, <3>3, SymbolKeepsWords DEF ChartInv
    <2> QED BY <2>1, <2>2
<1>3. AsGiven'
    BY <1>1, <1>2 DEF ChartInv, AsGiven, isGiven
<1>4. Prepared'
    BY <1>1, <1>2 DEF ChartInv, Prepared
<1> QED BY <1>1, <1>2, <1>3, <1>4, EmptyLists DEF ChartInv

\* The next edge of the input is added.
LEMMA GettingKeepsChart ==
    ASSUME ChartInv, GetsEdge
    PROVE  ChartInv' /\ phase' = "prepare"
<1> DEFINE k     == Len(edges) + 1
           new   == given(k)
           score == chart.input[k].score
<1>1. /\ phase = "prepare" /\ text # <<>> /\ Len(edges) < Len(chart.input)
      /\ UNCHANGED <<chart, phase, agenda, current, combos, marked, limitLevel>>
      /\ AddEdge(new.from, new.to, new.item, new.tags, new.sequence, score)
    BY DEF GetsEdge, parserVars, given
<1>2. call = NoCall
    BY <1>1 DEF AddEdge, Idle
<1>3. /\ k \in DOMAIN chart.input /\ Len(edges) \in Nat /\ Len(chart.input) \in Nat
      /\ DOMAIN edges = 1 .. Len(edges)
    <2>1. edges \in Seq(EdgeEntry) /\ chart.input \in Seq(Input)
        BY ChartFields DEF ChartInv, Words, Inv, LatticeInv, LatticeTypeOK
    <2> QED BY <1>1, <2>1
<1>4. /\ isWord(new) /\ new.item \in AnnotationItem
      /\ new.from \in Vertices /\ new.to \in Vertices
      /\ new.sequence \in EdgeSequence /\ restsOn(new.sequence, k)
      /\ score \in Int
    BY <1>1, <1>2, <1>3, GivenIsWord, InputFields DEF ChartInv, Words
<1>5. /\ new.from = chart.input[k].from /\ new.to = chart.input[k].to
      /\ new.item = chart.input[k].item /\ new.tags = chart.input[k].tags
    BY DEF given
<1> HIDE DEF new, score
<1>6. Words' /\ OnlyGrow
    BY <1>1, <1>4, WordKeepsWords DEF ChartInv
<1>7. /\ EdgesAfter(new, score)
      /\ DOMAIN indexedTagMasks' \subseteq DOMAIN indexedTagMasks \cup {symbolMask}
    BY <1>1, <1>4, WordEdges, WordAdded DEF ChartInv, Words, Inv, AddEdge
<1>8. ASSUME NEW e \in DOMAIN edges'
      PROVE  /\ isGiven(e)
             /\ edges'[e].from = chart.input[e].from /\ edges'[e].to = chart.input[e].to
             /\ edges'[e].item = chart.input[e].item
             /\ chart.input[e].tags \subseteq edges'[e].partitions[1].tags
    <2>1. CASE e \in DOMAIN edges
        <3>1. isGiven(e)
            BY <1>1, <1>3, <2>1 DEF isGiven
        <3>2. /\ edges[e].from = chart.input[e].from /\ edges[e].to = chart.input[e].to
              /\ edges[e].item = chart.input[e].item
              /\ chart.input[e].tags \subseteq edges[e].partitions[1].tags
            BY <2>1, <3>1 DEF ChartInv, AsGiven
        <3>3. /\ edges'[e].from = edges[e].from /\ edges'[e].to = edges[e].to
              /\ edges'[e].item = edges[e].item
              /\ edges'[e].partitions[1] = edges[e].partitions[1]
            <4>1. e # k
                BY <1>3, <2>1
            <4> QED BY <1>7, <2>1, <4>1 DEF EdgesAfter
        <3> QED BY <3>1, <3>2, <3>3
    <2>2. CASE e \notin DOMAIN edges
        <3>1. e = k /\ edges'[e] = entryOf(new, score)
            BY <1>7, <2>2 DEF EdgesAfter
        <3>2. /\ edges'[e].from = new.from /\ edges'[e].to = new.to /\ edges'[e].item = new.item
              /\ edges'[e].partitions[1].tags = tagsOf(new)
            BY <3>1 DEF entryOf
        <3>3. new.tags \subseteq tagsOf(new)
            BY DEF tagsOf, inheritedTags
        <3>4. isGiven(e)
            BY <1>1, <1>3, <3>1 DEF isGiven
        <3> QED BY <1>5, <3>1, <3>2, <3>3, <3>4
    <2> QED BY <2>1, <2>2
<1>9. Len(edges') <= Len(chart.input)
    <2>1. Len(edges') \in Nat /\ DOMAIN edges' = 1 .. Len(edges')
        BY <1>6 DEF Words, Inv, LatticeInv, LatticeTypeOK
    <2>2. Len(edges') # 0 => Len(edges') \in DOMAIN edges'
        BY <2>1
    <2> QED BY <1>3, <1>8, <2>1, <2>2 DEF isGiven
<1>10. AsGiven'
    BY <1>1, <1>8, <1>9 DEF AsGiven, isGiven
<1>11. Prepared'
    BY <1>1, <1>7 DEF ChartInv, Prepared
<1> QED BY <1>1, <1>6, <1>10, <1>11, EmptyLists DEF ChartInv

\* Queries leave the edges of the chart as they are.
LEMMA SameChartEdges ==
    ASSUME UNCHANGED <<text, edges, chart>>
    PROVE  /\ ChartEdges' = ChartEdges
           /\ \A d : /\ category(d)' = category(d) /\ getEdgeSource(d)' = getEdgeSource(d)
                    /\ getEdgeTarget(d)' = getEdgeTarget(d)
BY DEF ChartEdges, onChart, isGiven, category, getEdgeAnnotationItem, getEdgeSource, getEdgeTarget,
       isExplicit

\* What the agenda is filled with are edges of the chart, each of them once.
LEMMA InitialEdges ==
    ASSUME Words
    PROVE  /\ initialEdges \subseteq ChartEdges
           /\ IsFiniteSet(initialEdges) /\ Cardinality(initialEdges) \in Nat
           /\ Cardinality(initialEdges) <= Len(edges)
<1>1. /\ GoodIndex(addTagMaskIndex_(InputMask)) /\ InputMask \in DOMAIN addTagMaskIndex_(InputMask)
      /\ LatticeTypeOK
    BY IndexAdded, ChartAssumption DEF Words, Inv, LatticeInv
<1> DEFINE found == addTagMaskIndex_(InputMask)[InputMask]
<1>2. \A e \in found : e \in DOMAIN edges /\ matches(edges[e].tags, InputMask)
    BY <1>1 DEF GoodIndex
<1> HIDE DEF found
<1>3. initialEdges = {Explicit(e) : e \in {d \in found : /\ edges[d].score >= minScore(1)
                                                       /\ isUseful(edges[d].item.category)}}
    BY DEF initialEdges, found
<1>4. initialEdges \subseteq ChartEdges
    BY <1>2, <1>3 DEF ChartEdges, onChart
<1>5. IsFiniteSet(initialEdges) /\ Cardinality(initialEdges) <= Len(edges)
    <2> DEFINE all == {Explicit(e) : e \in DOMAIN edges}
    <2>1. DOMAIN edges = 1 .. Len(edges) /\ Len(edges) \in Nat
        BY <1>1 DEF LatticeTypeOK
    <2>2. IsFiniteSet(DOMAIN edges) /\ Cardinality(DOMAIN edges) = Len(edges)
        <3> DEFINE n == Len(edges)
        <3>1. n \in Nat /\ DOMAIN edges = 1 .. n
            BY <2>1
        <3> HIDE DEF n
        <3>2. /\ IsFiniteSet(1 .. n)
              /\ Cardinality(1 .. n) = IF 1 > n THEN 0 ELSE n - 1 + 1
            BY <3>1, FS_Interval
        <3>3. Cardinality(1 .. n) = n
            BY <3>1, <3>2
        <3> QED BY <3>1, <3>2, <3>3 DEF n
    <2>3. IsFiniteSet(all) /\ Cardinality(all) <= Len(edges)
        <3> DEFINE f == [e \in DOMAIN edges |-> Explicit(e)]
        <3>1. f \in [DOMAIN edges -> all] /\ \A t \in all : \E e \in DOMAIN edges : f[e] = t
            OBVIOUS
        <3> HIDE DEF f, all
        <3>2. f \in Surjection(DOMAIN edges, all)
            BY <3>1 DEF Surjection
        <3> QED BY <2>2, <3>2, FS_Surjection
    <2>4. initialEdges \subseteq all
        BY <1>2, <1>3
    <2> HIDE DEF all
    <2>5. IsFiniteSet(initialEdges) /\ Cardinality(initialEdges) <= Cardinality(all)
        BY <2>3, <2>4, FS_Subset
    <2>6. Cardinality(all) \in Nat /\ Cardinality(initialEdges) \in Nat
        BY <2>3, <2>5, FS_CardinalityType
    <2> QED BY <2>1, <2>3, <2>5, <2>6
<1> QED BY <1>4, <1>5, FS_CardinalityType

\* The agenda is filled.
LEMMA FillingKeepsChart ==
    ASSUME ChartInv, Fills
    PROVE  ChartInv' /\ UNCHANGED edges
<1>1. /\ phase = "prepare" /\ call = NoCall /\ Len(edges) = Len(chart.input)
      /\ phase' = "parse"
      /\ agenda' \in [1 .. Cardinality(initialEdges) -> initialEdges]
      /\ QueryEdges(InputMask)
      /\ UNCHANGED <<chart, current, combos, marked, limitLevel>>
    BY DEF Fills, Idle
<1>2. Words' /\ UNCHANGED <<text, edges>>
    BY <1>1, QueryKeepsWords, ChartAssumption DEF ChartInv
<1>3. ChartEdges' = ChartEdges
    BY <1>1, <1>2, SameChartEdges
<1>4. agenda' \in Seq(ChartEdges)
    <2>1. initialEdges \subseteq ChartEdges /\ Cardinality(initialEdges) \in Nat
        BY InitialEdges DEF ChartInv
    <2> HIDE DEF initialEdges, ChartEdges
    <2>2. agenda' \in [1 .. Cardinality(initialEdges) -> ChartEdges]
        BY <1>1, <2>1
    <2> QED BY <2>1, <2>2, SequenceOfMany
<1>5. current = NoEdge /\ combos = {} /\ marked = <<>> /\ limitLevel = 1
    BY <1>1 DEF ChartInv, Prepared
<1>6. Lists' /\ Combinable'
    BY <1>1, <1>3, <1>4, <1>5 DEF Lists, Combinable
<1>7. AsGiven'
    <2>1. Len(edges) \in Nat
        BY DEF ChartInv, Words, Inv, LatticeInv, LatticeTypeOK
    <2> QED BY <1>1, <1>2, <2>1 DEF ChartInv, AsGiven, isGiven
<1>8. Prepared'
    BY <1>1 DEF Prepared
<1> QED BY <1>2, <1>6, <1>7, <1>8 DEF ChartInv

\* An edge is taken.
LEMMA TakingKeepsChart ==
    ASSUME ChartInv, Takes
    PROVE  /\ ChartInv' /\ UNCHANGED <<text, edges, edgeCounterHash>>
           /\ limitLevel' \in {limitLevel, limitLevel + 1}
           /\ Head(agenda) \in ChartEdges
<1> DEFINE taken      == Head(agenda)
           isCombined == /\ limitLevel' <= nbLimits
                         /\ edgeScore(taken) >= minScore(limitLevel')
<1>1. /\ phase = "parse" /\ current = NoEdge /\ agenda # <<>>
      /\ agenda' = Tail(agenda)
      /\ limitLevel' = levelReached
      /\ phase' = IF limitLevel' > nbLimits THEN "done" ELSE phase
      /\ current' = IF isCombined THEN taken ELSE NoEdge
      /\ combos' = IF isCombined THEN combinations(taken) ELSE {}
      /\ IF isCombined THEN QueryEdges({{TokenTag}}) ELSE UNCHANGED vars
      /\ UNCHANGED <<chart, marked>>
    BY DEF Takes, At
<1>2. /\ agenda \in Seq(ChartEdges) /\ marked \in Seq(ChartEdges) /\ limitLevel \in Nat \ {0}
      /\ chart.limits \in Limits
    <2>1. chart.limits \in Limits
        BY ChartAssumption DEF ChartInv, Words, Chart
    <2> QED BY <2>1 DEF ChartInv, Lists
<1>3. nbLimits \in Nat
    BY <1>2 DEF nbLimits, Limits
<1>4. limitLevel' \in {limitLevel, limitLevel + 1}
    BY <1>1 DEF levelReached
<1>5. taken \in ChartEdges /\ agenda' \in Seq(ChartEdges)
    <2> HIDE DEF ChartEdges
    <2> QED BY <1>1, <1>2
<1>6. {{TokenTag}} \in Mask
    BY ChartAssumption DEF Mask, Collection
<1>7. call = NoCall
    BY <1>1 DEF ChartInv, Words, TextRead
<1>8. Words' /\ UNCHANGED <<text, edges, edgeCounterHash>>
    BY <1>1, <1>6, <1>7, QueryKeepsWords DEF ChartInv
<1>9. ChartEdges' = ChartEdges /\ (\A d : category(d)' = category(d))
    BY <1>1, <1>8, SameChartEdges
<1>10. Lists'
    <2>1. phase' # "parse" => current' = NoEdge
        BY <1>1, <1>2, <1>3, <1>4
    <2>2. taken # NoEdge
        BY <1>5, ChartEdgeFields DEF ChartInv
    <2> HIDE DEF isCombined, taken, ChartEdges
    <2> QED BY <1>1, <1>2, <1>4, <1>5, <1>9, <2>1, <2>2 DEF Lists
<1>11. Combinable'
    <2> SUFFICES ASSUME NEW c \in combos'
                 PROVE  /\ c.side \in {Alone, Behind, Before}
                        /\ c.side # Alone => c.at \in DOMAIN marked
                        /\ combinesAll(c.rule, linksOf(c, current))'
        BY <1>1 DEF Combinable
    <2>1. c \in combinations(taken) /\ marked' = marked /\ current' = taken
        BY <1>1
    <2> HIDE DEF taken
    <2>2. /\ c \in Combination
          /\ \/ c.side = Alone
             \/ c.side = Behind /\ c.at \in markedInto(sourceBeforeBlanks(taken))
             \/ c.side = Before /\ c.at \in markedOutOf(targetBehindBlank(taken))
          /\ c.rule \in combine([n \in DOMAIN linksOf(c, taken) |-> category(linksOf(c, taken)[n])])
        BY <2>1 DEF combinations
    <2>3. /\ c.side \in {Alone, Behind, Before}
          /\ c.side # Alone => c.at \in DOMAIN marked
        BY <2>2 DEF Alone, Behind, Before, markedInto, markedOutOf
    <2>4. combinesAll(c.rule, linksOf(c, taken))
        BY <2>2 DEF combine, combinesAll
    <2>5. linksOf(c, current)' = linksOf(c, taken)
        BY <2>1 DEF linksOf
    <2> QED BY <1>1, <1>9, <2>3, <2>4, <2>5 DEF combinesAll
<1>12. AsGiven'
    BY <1>1, <1>8 DEF ChartInv, AsGiven, isGiven
<1>13. Prepared'
    BY <1>1 DEF Prepared
<1> QED BY <1>4, <1>5, <1>8, <1>10, <1>11, <1>12, <1>13 DEF ChartInv

\* A combination comes to nothing ...
Dropped(links, i) ==
    /\ UNCHANGED <<vars, agenda>>
    /\ LET new == product(links, i)
       IN  \/ isBelow(links)
          \/ ~isAllowed(new.to - new.from, countEdges(new.from, new.to))
          \/ throws(new)

\* ... or is a new edge, or another partition of one.
Added(new, score) ==
    /\ ~throws(new)
    /\ EdgesAfter(new, score)
    /\ \/ /\ Inserted(new, score) /\ mergedInto(new) = NoEdge
          /\ agenda' = Append(agenda, Explicit(Len(edges) + 1))
       \/ \E e \in DOMAIN edges :
             mergedInto(new) = Explicit(e) /\ Merged(e, new, score) /\ UNCHANGED agenda

\* Combination c, of these edges, is made.
Made(c, links) ==
    /\ links \in Seq(ChartEdges) /\ Len(links) \in {1, 2}
    /\ combinesAll(c.rule, links)
    /\ combos' = combos \ {c}
    /\ \A d \in combos \ {c} : isMadeBefore(c, d)
    /\ \/ Dropped(links, c.rule)
       \/ Added(product(links, c.rule), scoreOf(links, c.rule))

LEMMA CombinationMade ==
    ASSUME ChartInv, Combines
    PROVE  /\ phase = "parse" /\ call = NoCall /\ current \in ChartEdges
           /\ Words' /\ OnlyGrow
           /\ UNCHANGED <<text, chart, phase, current, marked, limitLevel>>
           /\ \E c \in combos : Made(c, linksOf(c, current))
<1>1. PICK c \in combos :
         LET links == linksOf(c, current)
         IN  /\ \A d \in combos \ {c} : isMadeBefore(c, d)
             /\ combos' = combos \ {c}
             /\ \/ isBelow(links) /\ UNCHANGED <<vars, agenda>>
                \/ ~isBelow(links) /\ addsToChart(product(links, c.rule), scoreOf(links, c.rule))
    BY DEF Combines
<1>2. UNCHANGED <<chart, phase, current, marked, limitLevel>>
    BY DEF Combines
<1>3. current \in ChartEdges /\ phase = "parse" /\ marked \in Seq(ChartEdges)
    BY <1>1 DEF ChartInv, Lists
<1>4. call = NoCall
    BY <1>3 DEF ChartInv, Words, TextRead
<1>5. /\ c.side \in {Alone, Behind, Before}
      /\ c.side # Alone => c.at \in DOMAIN marked
      /\ combinesAll(c.rule, linksOf(c, current))
    BY DEF ChartInv, Combinable
<1> DEFINE links == linksOf(c, current)
           new   == product(links, c.rule)
           score == scoreOf(links, c.rule)
<1>6. links \in Seq(ChartEdges) /\ Len(links) \in {1, 2}
    <2> HIDE DEF links
    <2>1. linksOf(c, current) \in Seq(ChartEdges) /\ Len(linksOf(c, current)) \in {1, 2}
        BY <1>3, <1>5, LinksOfCombination
    <2> QED BY <2>1 DEF links
<1>7. c.rule \in chart.grammar
    BY <1>5 DEF combinesAll
<1>8. /\ isWord(new) /\ new.item \in AnnotationItem
      /\ new.from \in Vertices /\ new.to \in Vertices
      /\ new.sequence \in EdgeSequence /\ restsOn(new.sequence, Len(edges) + 1)
      /\ score \in Int
    <2> HIDE DEF links
    <2> QED BY <1>6, <1>7, ProductIsWord DEF ChartInv
<1>9. \/ Dropped(links, c.rule)
      \/ /\ ~throws(new)
         /\ AddEdge(new.from, new.to, new.item, new.tags, new.sequence, score)
         /\ agenda' = IF isNew(new) THEN Append(agenda, addedEdge(mergedInto(new))) ELSE agenda
    <2> HIDE DEF links
    <2> QED BY <1>1 DEF Dropped, addsToChart, throws, links
<1> HIDE DEF links, new, score
<1>10. CASE Dropped(links, c.rule)
    <2>1. UNCHANGED vars
        BY <1>10 DEF Dropped
    <2>2. {{TokenTag}} \in Mask
        BY ChartAssumption DEF Mask, Collection
    <2>3. Words'
        BY <1>2, <2>1, <2>2, QueryKeepsWords DEF ChartInv
    <2>4. OnlyGrow
        BY <2>1, EdgeFields DEF ChartInv, Words, Inv, LatticeInv, vars, latticeVars, OnlyGrow,
                                areInTheSamePlane
    <2>5. Made(c, links)
        BY <1>1, <1>5, <1>6, <1>10 DEF Made, links
    <2> QED BY <1>2, <1>3, <1>4, <2>1, <2>3, <2>4, <2>5 DEF vars, latticeVars, links
<1>11. CASE /\ ~throws(new)
            /\ AddEdge(new.from, new.to, new.item, new.tags, new.sequence, score)
            /\ agenda' = IF isNew(new) THEN Append(agenda, addedEdge(mergedInto(new))) ELSE agenda
    <2>1. Words' /\ OnlyGrow /\ UNCHANGED text
        BY <1>2, <1>8, <1>11, WordKeepsWords DEF ChartInv
    <2>2. /\ LatticeInv /\ WordsPlain /\ SymbolsAside
          /\ addEdge(new.from, new.to, new.item, new.tags, new.sequence, score, FALSE)
        BY <1>11 DEF ChartInv, Words, Inv, AddEdge
    <2>3. EdgesAfter(new, score)
        BY <1>8, <2>2, WordEdges
    <2>4. \/ mergedInto(new) = NoEdge /\ Inserted(new, score)
          \/ \E e \in DOMAIN edges : mergedInto(new) = Explicit(e) /\ Merged(e, new, score)
        BY <1>8, <1>11, <2>2, WordAdded
    <2>5. countEdges(new.from, new.to) \in Nat
        BY <2>2 DEF countEdges, LatticeInv, LatticeTypeOK, IsMap
    <2>6. ASSUME mergedInto(new) = NoEdge, Inserted(new, score)
          PROVE  Added(new, score)
        <3>1. edgeCounterHash'[<<new.from, new.to>>] = countEdges(new.from, new.to) + 1
            BY <2>6 DEF Inserted, With
        <3>2. isNew(new)
            BY <2>5, <3>1 DEF isNew
        <3>3. addedEdge(mergedInto(new)) = Explicit(Len(edges) + 1)
            BY <2>6 DEF addedEdge, isExplicit, NoEdge
        <3> QED BY <1>11, <2>3, <2>6, <3>2, <3>3 DEF Added
    <2>7. ASSUME NEW e \in DOMAIN edges, mergedInto(new) = Explicit(e), Merged(e, new, score)
          PROVE  Added(new, score)
        <3>1. <<new.from, new.to>> \in DOMAIN edgeCounterHash
            <4>1. edges[e].from = new.from /\ edges[e].to = new.to
                BY <2>7 DEF Merged, keyOf
            <4> QED BY <4>1 DEF ChartInv, Words, Counted
        <3>2. edgeCounterHash'[<<new.from, new.to>>] = countEdges(new.from, new.to)
            BY <2>7, <3>1 DEF Merged, countEdges
        <3>3. ~isNew(new)
            BY <2>5, <3>2 DEF isNew
        <3> QED BY <1>11, <2>3, <2>7, <3>3 DEF Added
    <2>8. Added(new, score)
        BY <2>4, <2>6, <2>7
    <2>9. Made(c, links)
        BY <1>1, <1>5, <1>6, <2>8 DEF Made, links, new, score
    <2> QED BY <1>2, <1>3, <1>4, <2>1, <2>9 DEF links
<1> QED BY <1>9, <1>10, <1>11

\* A combination keeps the invariant.
LEMMA CombiningKeepsChart ==
    ASSUME ChartInv, Combines
    PROVE  ChartInv'
<1>1. PICK c \in combos : Made(c, linksOf(c, current))
    BY CombinationMade
<1> DEFINE links == linksOf(c, current)
           new   == product(links, c.rule)
           score == scoreOf(links, c.rule)
<1>2. /\ phase = "parse" /\ call = NoCall /\ current \in ChartEdges
      /\ Words' /\ OnlyGrow
      /\ UNCHANGED <<text, chart, phase, current, marked, limitLevel>>
    BY CombinationMade
<1>3. /\ links \in Seq(ChartEdges) /\ Len(links) \in {1, 2}
      /\ c.rule \in chart.grammar /\ combos' = combos \ {c}
      /\ \/ UNCHANGED <<edges, agenda>>
         \/ Added(new, score)
    BY <1>1 DEF Made, combinesAll, Dropped, vars, latticeVars
<1> HIDE DEF links
<1>4. new.item.category = Rules[c.rule].lhs
    BY <1>3, ProductIsWord DEF ChartInv
<1> HIDE DEF new, score
<1>5. /\ edges \in Seq(EdgeEntry) /\ Len(edges) \in Nat /\ DOMAIN edges = 1 .. Len(edges)
      /\ Len(chart.input) <= Len(edges) /\ Len(chart.input) \in Nat
    <2>1. edges \in Seq(EdgeEntry)
        BY DEF ChartInv, Words, Inv, LatticeInv, LatticeTypeOK
    <2>2. chart.input \in Seq(Input)
        BY ChartFields DEF ChartInv, Words
    <2> QED BY <1>2, <2>1, <2>2 DEF ChartInv, AsGiven
<1>6. /\ Len(edges) <= Len(edges') /\ Len(edges') \in Nat
      /\ \A e \in DOMAIN edges' :
            \/ /\ e \in DOMAIN edges
               /\ edges'[e].from = edges[e].from /\ edges'[e].to = edges[e].to
               /\ edges'[e].item = edges[e].item
               /\ edges'[e].partitions[1] = edges[e].partitions[1]
            \/ /\ e = Len(edges) + 1 /\ Len(edges') = e
               /\ edges'[e].item = new.item
    <2>1. edges' \in Seq(EdgeEntry) /\ DOMAIN edges' = 1 .. Len(edges') /\ Len(edges') \in Nat
        BY <1>2 DEF Words, Inv, LatticeInv, LatticeTypeOK
    <2>2. CASE UNCHANGED <<edges, agenda>>
        BY <1>5, <2>2
    <2>3. CASE Added(new, score)
        <3>1. EdgesAfter(new, score)
            BY <2>3 DEF Added
        <3>2. \A e \in DOMAIN edges' :
                \/ /\ e \in DOMAIN edges
                   /\ edges'[e].from = edges[e].from /\ edges'[e].to = edges[e].to
                   /\ edges'[e].item = edges[e].item
                   /\ edges'[e].partitions[1] = edges[e].partitions[1]
                \/ /\ e = Len(edges) + 1 /\ Len(edges') = e
                   /\ edges'[e].item = new.item
            BY <3>1 DEF EdgesAfter, entryOf
        <3>3. 1 .. Len(edges) \subseteq 1 .. Len(edges')
            BY <1>5, <2>1, <3>1 DEF EdgesAfter
        <3>4. Len(edges) <= Len(edges')
            BY <1>5, <2>1, <3>3
        <3> QED BY <2>1, <3>2, <3>4
    <2> QED BY <1>3, <2>2, <2>3
<1>7. AsGiven'
    <2>1. ASSUME NEW e \in DOMAIN edges'
          PROVE  \/ /\ isGiven(e)
                    /\ edges'[e].from = chart.input[e].from /\ edges'[e].to = chart.input[e].to
                    /\ edges'[e].item = chart.input[e].item
                    /\ chart.input[e].tags \subseteq edges'[e].partitions[1].tags
                 \/ /\ ~isGiven(e)
                    /\ \E i \in chart.grammar : edges'[e].item.category = Rules[i].lhs
        <3>1. CASE e \in DOMAIN edges
            <4>1. e # Len(edges) + 1
                BY <1>5, <3>1
            <4> QED BY <1>6, <3>1, <4>1 DEF ChartInv, AsGiven
        <3>2. CASE e \notin DOMAIN edges
            <4>1. e = Len(edges) + 1 /\ edges'[e].item = new.item
                BY <1>6, <3>2
            <4> QED BY <1>3, <1>4, <1>5, <4>1 DEF isGiven
        <3> QED BY <3>1, <3>2
    <2> QED BY <1>2, <1>5, <1>6, <2>1 DEF AsGiven, isGiven
<1>8. Lists'
    <2>1. agenda \in Seq(ChartEdges') /\ marked \in Seq(ChartEdges') /\ current \in ChartEdges'
        BY <1>2, ChartEdgesKept, ChartListsKept DEF ChartInv, Lists
    <2>2. agenda' \in Seq(ChartEdges')
        <3>1. CASE UNCHANGED agenda
            BY <2>1, <3>1
        <3>2. CASE agenda' # agenda
            <4>1. agenda' = Append(agenda, Explicit(Len(edges) + 1)) /\ Inserted(new, score)
                BY <1>3, <3>2 DEF Added
            <4>2. Len(edges) + 1 \in DOMAIN edges'
                BY <1>5, <4>1 DEF Inserted
            <4>3. Explicit(Len(edges) + 1) \in ChartEdges'
                BY <1>2, <1>5, <4>2 DEF ChartEdges, onChart, isGiven
            <4> HIDE DEF ChartEdges
            <4> QED BY <2>1, <4>1, <4>3
        <3> QED BY <3>1, <3>2
    <2>3. current # NoEdge
        BY <1>2, ChartEdgeFields DEF ChartInv
    <2> QED BY <1>2, <2>1, <2>2, <2>3 DEF ChartInv, Lists
<1>9. Combinable'
    <2> SUFFICES ASSUME NEW d \in combos'
                 PROVE  /\ d.side \in {Alone, Behind, Before}
                        /\ d.side # Alone => d.at \in DOMAIN marked'
                        /\ combinesAll(d.rule, linksOf(d, current))'
        BY DEF Combinable
    <2> DEFINE path == linksOf(d, current)
    <2>1. /\ d.side \in {Alone, Behind, Before}
          /\ d.side # Alone => d.at \in DOMAIN marked
          /\ combinesAll(d.rule, path)
        BY <1>3 DEF ChartInv, Combinable
    <2>2. linksOf(d, current)' = path
        BY <1>2 DEF linksOf
    <2>3. \A e \in ChartEdges : category(e)' = category(e)
        BY <1>2, ChartEdgesKept DEF ChartInv
    <2>4. marked \in Seq(ChartEdges)
        BY DEF ChartInv, Lists
    <2>5. \A n \in DOMAIN path : path[n] \in ChartEdges
        BY <1>2, <2>1, <2>4, LinksOfCombination
    <2>6. combinesAll(d.rule, linksOf(d, current))'
        <3> HIDE DEF path, ChartEdges
        <3>1. PICK x : x = path
            OBVIOUS
        <3>2. \A n \in DOMAIN x : category(x[n])' = category(x[n])
            BY <2>3, <2>5, <3>1
        <3>3. combinesAll(d.rule, x)
            BY <2>1, <3>1
        <3>4. combinesAll(d.rule, x)'
            BY <1>2, <3>2, <3>3 DEF combinesAll
        <3>5. linksOf(d, current)' = x
            BY <2>2, <3>1
        <3> QED BY <3>4, <3>5 DEF combinesAll
    <2> QED BY <1>2, <2>1, <2>6
<1>10. Prepared'
    BY <1>2 DEF Prepared
<1> QED BY <1>2, <1>7, <1>8, <1>9, <1>10 DEF ChartInv

\* An edge is marked, the parser ends, or nothing happens.
LEMMA RestKeepsChart ==
    ASSUME ChartInv, Marks \/ Ends \/ UNCHANGED chartVars
    PROVE  ChartInv' /\ UNCHANGED vars
<1>1. UNCHANGED vars /\ UNCHANGED <<text, edges, call, indexedTagMasks, chart, limitLevel>>
    BY DEF Marks, Ends, chartVars, parserVars, vars, latticeVars
<1>2. {{TokenTag}} \in Mask
    BY ChartAssumption DEF Mask, Collection
<1>3. call # NoCall => phase' = phase
    BY DEF Marks, Ends, At, ChartInv, Words, TextRead, Lists, chartVars, parserVars
<1>4. Words'
    BY <1>1, <1>2, <1>3, QueryKeepsWords DEF ChartInv
<1>5. ChartEdges' = ChartEdges /\ (\A d : category(d)' = category(d))
    BY <1>1, SameChartEdges
<1>6. CASE Marks
    <2>1. /\ current # NoEdge /\ combos = {} /\ combos' = {} /\ current' = NoEdge
          /\ marked' = Append(marked, current) /\ UNCHANGED <<phase, agenda>>
        BY <1>6 DEF Marks
    <2>2. phase = "parse"
        BY <2>1 DEF ChartInv, Lists
    <2>3. AsGiven'
        BY <1>1, <2>1 DEF ChartInv, AsGiven, isGiven
    <2>4. Lists'
        <3>1. marked \in Seq(ChartEdges) /\ current \in ChartEdges
            BY <2>1 DEF ChartInv, Lists
        <3> HIDE DEF ChartEdges
        <3>2. marked' \in Seq(ChartEdges)
            BY <2>1, <3>1
        <3> QED BY <1>1, <1>5, <2>1, <3>2 DEF ChartInv, Lists
    <2> QED BY <1>1, <1>4, <2>1, <2>2, <2>3, <2>4 DEF ChartInv, Prepared, Combinable
<1>7. CASE Ends
    <2>1. /\ current = NoEdge /\ phase = "parse" /\ phase' = "done"
          /\ UNCHANGED <<agenda, current, combos, marked>>
        BY <1>7 DEF Ends, At
    <2>2. combos' = {}
        BY <2>1 DEF ChartInv, Lists
    <2>3. AsGiven'
        BY <1>1, <2>1 DEF ChartInv, AsGiven, isGiven
    <2> QED BY <1>1, <1>4, <1>5, <2>1, <2>2, <2>3 DEF ChartInv, Prepared, Lists, Combinable
<1>8. CASE UNCHANGED chartVars
    <2>1. UNCHANGED <<phase, agenda, current, combos, marked>>
        BY <1>8 DEF chartVars, parserVars
    <2>2. AsGiven' /\ Prepared' /\ Lists'
        BY <1>1, <1>5, <2>1 DEF ChartInv, AsGiven, isGiven, Prepared, Lists
    <2>3. Combinable'
        <3>1. UNCHANGED Combinable
            BY <1>1, <2>1 DEF Combinable, linksOf, combinesAll, category, getEdgeAnnotationItem
        <3> QED BY <3>1 DEF ChartInv
    <2> QED BY <1>1, <1>4, <2>2, <2>3 DEF ChartInv
<1> QED BY <1>1, <1>6, <1>7, <1>8

LEMMA InitChart ==
    ASSUME ParserInit
    PROVE  ChartInv
<1>1. Inv
    BY InitInv DEF ParserInit
<1>2. /\ text = <<>> /\ nLooseVertices = 0 /\ implicitOutEdges = {} /\ edges = <<>>
      /\ vvcHash = <<>> /\ indexedTagMasks = <<>> /\ call = NoCall
      /\ chart \in Charts /\ phase = "prepare" /\ agenda = <<>> /\ current = NoEdge
      /\ combos = {} /\ marked = <<>> /\ limitLevel = 1
    BY DEF ParserInit, Init
<1>3. Words
    <2>1. 0 .. Len(text) - 1 = {}
        BY <1>2
    <2> QED BY <1>1, <1>2, <2>1 DEF Words, WordsPlain, SymbolsAside, TextRead, FirstsBelow, ScoresKept,
                              Counted
<1>4. AsGiven
    <2>1. chart.input \in Seq(Input)
        BY <1>2, ChartFields
    <2> QED BY <1>2, <2>1 DEF AsGiven
<1>5. Prepared /\ Lists /\ Combinable
    <2>1. <<>> \in Seq(ChartEdges)
        OBVIOUS
    <2> QED BY <1>2, <2>1 DEF Prepared, Lists, Combinable
<1> QED BY <1>3, <1>4, <1>5 DEF ChartInv

LEMMA NextKeepsChart ==
    ASSUME ChartInv, [ParserNext]_chartVars
    PROVE  ChartInv'
<1>1. CASE ReadsText \/ ReadsSymbol
    BY <1>1, ReadingKeepsChart
<1>2. CASE GetsEdge
    BY <1>2, GettingKeepsChart
<1>3. CASE Fills
    BY <1>3, FillingKeepsChart
<1>4. CASE Takes
    BY <1>4, TakingKeepsChart
<1>5. CASE Combines
    BY <1>5, CombiningKeepsChart
<1>6. CASE Marks \/ Ends \/ UNCHANGED chartVars
    BY <1>6, RestKeepsChart
<1> QED BY <1>1, <1>2, <1>3, <1>4, <1>5, <1>6 DEF ParserNext

\* Whatever the grammar and the limits, the lattice stays well formed under the parser, the
\* edges of the input and those made by rules stay apart, and the agenda, the marked edges
\* and the combinations that are left are of edges that are on the chart.
THEOREM ChartSound == ParserSpec => []ChartInv
<1>1. ParserInit => ChartInv
    BY InitChart
<1>2. ChartInv /\ [ParserNext]_chartVars => ChartInv'
    BY NextKeepsChart
<1> QED BY <1>1, <1>2, PTL DEF ParserSpec

-----------------------------------------------------------------------------
(* The turns.                                                              *)

\* What is needed beside the bound itself: before the agenda is filled no turn has been made.
TurnsCounted ==
    /\ nbTurns \in Nat
    /\ phase = "prepare" => nbTurns = 0
    /\ TurnsBounded

\* Until it is filled, the agenda is empty.
LEMMA PreparationBounded ==
    ASSUME ChartInv, phase = "prepare", nbTurns = 0
    PROVE  TurnsCounted
<1>1. agenda = <<>> /\ Len(edges) \in Nat
    BY DEF ChartInv, Prepared, Words, Inv, LatticeInv, LatticeTypeOK
<1> QED BY <1>1 DEF TurnsCounted, TurnsBounded

\* At first each edge waits at most once.
LEMMA FillingBounded ==
    ASSUME ChartInv, TurnsCounted, Fills
    PROVE  TurnsCounted'
<1>1. /\ nbTurns = 0 /\ nbTurns' = 0 /\ phase' = "parse"
      /\ agenda' \in [1 .. Cardinality(initialEdges) -> initialEdges]
    BY DEF Fills, TurnsCounted
<1>2. edges' = edges /\ Len(edges) \in Nat
    BY FillingKeepsChart DEF ChartInv, Words, Inv, LatticeInv, LatticeTypeOK
<1>3. /\ Cardinality(initialEdges) \in Nat
      /\ Cardinality(initialEdges) <= Len(edges)
    BY InitialEdges DEF ChartInv
<1>4. Len(agenda') = Cardinality(initialEdges)
    <2> HIDE DEF initialEdges
    <2> QED BY <1>1, <1>3
<1> QED BY <1>1, <1>2, <1>3, <1>4 DEF TurnsCounted, TurnsBounded

\* A turn takes one edge from the agenda.
LEMMA TakingBounded ==
    ASSUME ChartInv, TurnsCounted, Takes
    PROVE  TurnsCounted'
<1>1. /\ phase = "parse" /\ agenda # <<>> /\ agenda' = Tail(agenda)
      /\ nbTurns' = nbTurns + 1 /\ phase' \in {"parse", "done"}
    BY DEF Takes, At
<1>2. edges' = edges /\ Len(edges) \in Nat
    BY TakingKeepsChart DEF ChartInv, Words, Inv, LatticeInv, LatticeTypeOK
<1>3. Len(agenda) \in Nat /\ Len(agenda') = Len(agenda) - 1
    <2>1. agenda \in Seq(ChartEdges)
        BY DEF ChartInv, Lists
    <2> HIDE DEF ChartEdges
    <2> QED BY <1>1, <2>1
<1> QED BY <1>1, <1>2, <1>3 DEF TurnsCounted, TurnsBounded

\* One edge more waits only when there is one edge more: what is merged waits no second time.
LEMMA CombiningBounded ==
    ASSUME ChartInv, TurnsCounted, Combines
    PROVE  TurnsCounted'
<1>1. phase = "parse" /\ UNCHANGED <<phase, nbTurns>>
    BY CombinationMade DEF Combines
<1>2. PICK c \in combos : Made(c, linksOf(c, current))
    BY CombinationMade
<1> DEFINE new   == product(linksOf(c, current), c.rule)
           score == scoreOf(linksOf(c, current), c.rule)
<1>3. \/ UNCHANGED <<edges, agenda>>
      \/ Added(new, score)
    BY <1>2 DEF Made, Dropped, vars, latticeVars
<1> HIDE DEF new, score
<1>4. /\ edges \in Seq(EdgeEntry) /\ Len(edges) \in Nat
      /\ agenda \in Seq(ChartEdges) /\ Len(agenda) \in Nat
    BY DEF ChartInv, Lists, Words, Inv, LatticeInv, LatticeTypeOK
<1>5. CASE UNCHANGED <<edges, agenda>>
    BY <1>1, <1>5 DEF TurnsCounted, TurnsBounded
<1>6. CASE /\ Inserted(new, score)
           /\ agenda' = Append(agenda, Explicit(Len(edges) + 1))
    <2> HIDE DEF ChartEdges
    <2>1. Len(edges') = Len(edges) + 1
        BY <1>4, <1>6 DEF Inserted
    <2>2. Len(agenda') = Len(agenda) + 1
        BY <1>4, <1>6
    <2> QED BY <1>1, <1>4, <2>1, <2>2 DEF TurnsCounted, TurnsBounded
<1>7. CASE \E e \in DOMAIN edges : Merged(e, new, score) /\ UNCHANGED agenda
    <2>1. Len(edges') = Len(edges) /\ UNCHANGED agenda
        BY <1>4, <1>7 DEF Merged
    <2> QED BY <1>1, <2>1 DEF TurnsCounted, TurnsBounded
<1> QED BY <1>3, <1>5, <1>6, <1>7 DEF Added

\* Whatever the grammar, the text and the limits, the turns that go_() counts
\* (agenda_parser.tpl:78) and the edges that wait are no more than the edges there are: cyclic
\* rules, which find the same edges again, cannot keep the agenda full.
THEOREM TurnsStayBounded == ParserSpec => []TurnsBounded
<1>1. ParserInit => ChartInv /\ TurnsCounted
    BY InitChart, PreparationBounded DEF ParserInit
<1>2. ChartInv /\ TurnsCounted /\ [ParserNext]_chartVars => ChartInv' /\ TurnsCounted'
    <2> SUFFICES ASSUME ChartInv, TurnsCounted, [ParserNext]_chartVars
                 PROVE  ChartInv' /\ TurnsCounted'
        OBVIOUS
    <2>1. ChartInv'
        BY NextKeepsChart
    <2>2. CASE ReadsText \/ ReadsSymbol \/ GetsEdge
        <3>1. UNCHANGED <<phase, nbTurns>>
            BY <2>2 DEF ReadsText, ReadsSymbol, GetsEdge, parserVars
        <3>2. phase = "prepare"
            <4>1. ReadsSymbol => call # NoCall
                BY DEF ReadsSymbol, AddSymbolsStep, NoCall
            <4> QED BY <2>2, <4>1 DEF ReadsText, GetsEdge, ChartInv, Words, TextRead
        <3>3. nbTurns = 0 /\ phase' = "prepare" /\ nbTurns' = 0
            BY <3>1, <3>2 DEF TurnsCounted
        <3>4. TurnsCounted'
            <4>1. agenda' = <<>> /\ Len(edges)' \in Nat
                BY <2>1, <3>3 DEF ChartInv, Prepared, Words, Inv, LatticeInv, LatticeTypeOK
            <4> QED BY <3>3, <4>1 DEF TurnsCounted, TurnsBounded
        <3> QED BY <2>1, <3>4
    <2>3. CASE Fills
        BY <2>1, <2>3, FillingBounded
    <2>4. CASE Takes
        BY <2>1, <2>4, TakingBounded
    <2>5. CASE Combines
        BY <2>1, <2>5, CombiningBounded
    <2>6. CASE Marks \/ Ends \/ UNCHANGED chartVars
        <3>1. UNCHANGED <<edges, agenda, nbTurns>> /\ (phase' = phase \/ phase' = "done")
            BY <2>6 DEF Marks, Ends, chartVars, parserVars, vars, latticeVars
        <3> QED BY <2>1, <3>1 DEF TurnsCounted, TurnsBounded
    <2> QED BY <2>2, <2>3, <2>4, <2>5, <2>6 DEF ParserNext
<1>3. TurnsCounted => TurnsBounded
    BY DEF TurnsCounted
<1> QED BY <1>1, <1>2, <1>3, PTL DEF ParserSpec

-----------------------------------------------------------------------------
(* The first trees.                                                        *)

\* From nothing on, each layer holds what has children in the layer before only.
Layered(All, children, top, layer) ==
    layer = [n \in 0 .. top |-> IF n = 0 THEN {} ELSE {x \in All : children[x] \subseteq layer[n - 1]}]

LEMMA LayersExist ==
    ASSUME NEW All, NEW children, NEW top \in Nat
    PROVE  \E layer : Layered(All, children, top, layer)
<1> DEFINE After(S) == {x \in All : children[x] \subseteq S}
           Open    == {n \in Nat : ~ \E layer : Layered(All, children, n, layer)}
<1>1. 0 \notin Open
    <2> DEFINE layer == [n \in 0 .. 0 |-> {}]
    <2>1. Layered(All, children, 0, layer)
        BY DEF Layered
    <2> QED BY <2>1
<1>2. ASSUME NEW n \in Nat, n \notin Open
      PROVE  n + 1 \notin Open
    <2>1. PICK layer : Layered(All, children, n, layer)
        BY <1>2
    <2> DEFINE more == [m \in 0 .. n + 1 |-> IF m = n + 1 THEN After(layer[n]) ELSE layer[m]]
    <2>2. \A m \in 0 .. n : layer[m] = IF m = 0 THEN {} ELSE After(layer[m - 1])
        BY <2>1 DEF Layered
    <2> HIDE DEF After
    <2>3. \A m \in 0 .. n + 1 : more[m] = IF m = 0 THEN {} ELSE After(more[m - 1])
        BY <2>2
    <2>4. more = [m \in 0 .. n + 1 |-> more[m]]
        OBVIOUS
    <2>5. more = [m \in 0 .. n + 1 |-> IF m = 0 THEN {} ELSE After(more[m - 1])]
        <3> HIDE DEF more
        <3> QED BY <2>3, <2>4
    <2>6. Layered(All, children, n + 1, more)
        <3> HIDE DEF more
        <3> QED BY <2>5 DEF Layered, After
    <2> QED BY <2>6
<1> HIDE DEF Open
<1>3. SUFFICES ASSUME Open # {} PROVE FALSE
    BY DEF Open
<1>4. Open \subseteq Nat
    BY DEF Open
<1>5. PICK n \in Open : \A m \in Open : n <= m
    BY <1>3, <1>4, LeastNatural
<1>6. n \in Nat /\ n # 0 /\ n - 1 \in Nat /\ n - 1 \notin Open /\ n - 1 + 1 = n
    BY <1>1, <1>4, <1>5
<1> QED BY <1>2, <1>5, <1>6

\* Where children rank below their parents the layers reach everything.
LEMMA LayersReachAll ==
    ASSUME NEW All, NEW children, NEW top \in Nat, NEW layer, Layered(All, children, top, layer),
           NEW rank \in [All -> 0 .. top - 1],
           \A x \in All : \A y \in children[x] : y \in All /\ rank[y] < rank[x]
    PROVE  layer[top] = All
<1> DEFINE Missed == {n \in 0 .. top : \E x \in All : rank[x] < n /\ x \notin layer[n]}
           After(S) == {x \in All : children[x] \subseteq S}
<1>1. \A n \in 0 .. top : layer[n] = IF n = 0 THEN {} ELSE After(layer[n - 1])
    BY DEF Layered
<1> HIDE DEF After
<1>2. Missed = {}
    <2> SUFFICES ASSUME Missed # {} PROVE FALSE
        OBVIOUS
    <2>0. Missed \in SUBSET Nat
        OBVIOUS
    <2>1. PICK n \in Missed : \A m \in Missed : n <= m
        <3> HIDE DEF Missed
        <3> QED BY <2>0, LeastNatural
    <2>2. PICK x \in All : rank[x] < n /\ x \notin layer[n]
        OBVIOUS
    <2>3. n \in 1 .. top /\ n - 1 \in 0 .. top /\ n - 1 \notin Missed
        BY <2>1, <2>2
    <2>4. PICK y \in children[x] : y \notin layer[n - 1]
        <3>1. layer[n] = After(layer[n - 1])
            BY <1>1, <2>3
        <3> QED BY <2>2, <3>1 DEF After
    <2>5. y \in All /\ rank[y] < n - 1
        BY <2>2, <2>3, <2>4
    <2> QED BY <2>3, <2>4, <2>5
<1>3. All \subseteq layer[top]
    BY <1>2
<1>4. layer[top] \subseteq All
    <2>1. layer[top] = IF top = 0 THEN {} ELSE After(layer[top - 1])
        BY <1>1
    <2> QED BY <2>1 DEF After
<1> QED BY <1>3, <1>4

\* The first children of an edge are edges made before it, or symbols.
LEMMA FirstChildrenBelow ==
    ASSUME ChartInv, NEW e \in DOMAIN edges, NEW child \in firstChildren(Explicit(e))
    PROVE  \/ \E v \in implicitOutEdges : child = Implicit(v)
           \/ \E d \in 1 .. e - 1 : child = Explicit(d)
<1>1. edges[e].partitions \in Seq(Partition) /\ edges[e].partitions # <<>>
    BY EdgeFields DEF ChartInv, Words, Inv, LatticeInv, PartitionTagsHeld
<1>2. partitionsOf(Explicit(e)) = edges[e].partitions
    BY DEF partitionsOf, isExplicit, Explicit
<1> DEFINE sequence == edges[e].partitions[1].sequence
<1>3. child \in SequenceEdges(sequence)
    BY <1>1, <1>2 DEF firstChildren
<1>4. restsOn(sequence, e)
    BY DEF ChartInv, Words, FirstsBelow
<1> HIDE DEF sequence
<1>5. CASE sequence.links # <<>>
    BY <1>3, <1>4, <1>5 DEF SequenceEdges, restsOn
<1>6. CASE sequence.links = <<>>
    <2>1. PICK v \in sequence.begin .. sequence.end - 1 : child = firstSymbolOutEdge(v)
        BY <1>3, <1>6 DEF SequenceEdges
    <2>2. v \in implicitOutEdges
        BY <1>4, <1>6, <2>1 DEF restsOn
    <2> QED BY <2>1, <2>2 DEF firstSymbolOutEdge, FirstOut
<1> QED BY <1>5, <1>6

LEMMA FirstTrees ==
    ASSUME ChartInv
    PROVE  FirstTreesEnd
<1> DEFINE top      == Len(edges) + 1
           children == [edge \in Edges |-> firstChildren(edge)]
           rank     == [edge \in Edges |-> IF isExplicit(edge) THEN edge.at ELSE 0]
           Ending(f) == f = [n \in 0 .. top |->
                               IF n = 0 THEN {}
                               ELSE LET below == f[n - 1]
                                    IN  {edge \in Edges : firstChildren(edge) \subseteq below}]
           ending   == CHOOSE f : Ending(f)
<1>1. Len(edges) \in Nat /\ top \in Nat /\ DOMAIN edges = 1 .. Len(edges)
    BY DEF ChartInv, Words, Inv, LatticeInv, LatticeTypeOK
<1>2. \A f : Ending(f) <=> Layered(Edges, children, top, f)
    <2> SUFFICES ASSUME NEW f PROVE Ending(f) <=> Layered(Edges, children, top, f)
        OBVIOUS
    <2>1. \A n : {edge \in Edges : firstChildren(edge) \subseteq f[n - 1]}
                    = {edge \in Edges : children[edge] \subseteq f[n - 1]}
        OBVIOUS
    <2> QED BY <2>1 DEF Layered
<1>3. Ending(ending)
    <2>1. \E f : Ending(f)
        BY <1>1, <1>2, LayersExist
    <2> HIDE DEF Ending
    <2> QED BY <2>1
<1>4. Layered(Edges, children, top, ending)
    BY <1>2, <1>3
<1>5. rank \in [Edges -> 0 .. top - 1]
    <2> SUFFICES ASSUME NEW edge \in Edges
                 PROVE  (IF isExplicit(edge) THEN edge.at ELSE 0) \in 0 .. top - 1
        OBVIOUS
    <2> QED BY <1>1 DEF Edges, isExplicit, Implicit, Explicit
<1>6. ASSUME NEW edge \in Edges, NEW child \in children[edge]
      PROVE  child \in Edges /\ rank[child] < rank[edge]
    <2>1. CASE \E v \in implicitOutEdges : edge = Implicit(v)
        BY <1>6, <2>1 DEF firstChildren, partitionsOf, isExplicit, Implicit
    <2>2. ASSUME NEW e \in DOMAIN edges, edge = Explicit(e)
          PROVE  child \in Edges /\ rank[child] < rank[edge]
        <3>1. \/ \E v \in implicitOutEdges : child = Implicit(v)
              \/ \E d \in 1 .. e - 1 : child = Explicit(d)
            BY <1>6, <2>2, FirstChildrenBelow
        <3>2. rank[edge] = e /\ e \in Nat \ {0}
            BY <1>1, <2>2 DEF isExplicit, Explicit
        <3>3. ASSUME NEW v \in implicitOutEdges, child = Implicit(v)
              PROVE  child \in Edges /\ rank[child] = 0
            BY <3>3 DEF Edges, isExplicit, Implicit
        <3>4. ASSUME NEW d \in 1 .. e - 1, child = Explicit(d)
              PROVE  child \in Edges /\ rank[child] = d
            <4>1. d \in DOMAIN edges
                BY <1>1, <2>2
            <4> QED BY <3>4, <4>1 DEF Edges, isExplicit, Explicit
        <3> QED BY <3>1, <3>2, <3>3, <3>4
    <2> QED BY <2>1, <2>2 DEF Edges
<1>7. Edges = ending[top]
    <2> HIDE DEF ending, rank, children, top
    <2> QED BY <1>1, <1>4, <1>5, <1>6, LayersReachAll
<1> QED BY <1>7 DEF FirstTreesEnd

\* The trees that are read off the chart by the first partitions of the edges are finite,
\* although rules may lead from a category back to it.
THEOREM FirstTreesAreFinite == ParserSpec => []FirstTreesEnd
<1>1. ChartInv => FirstTreesEnd
    BY FirstTrees
<1> QED BY <1>1, ChartSound, PTL

-----------------------------------------------------------------------------
(* Blanks.                                                                 *)

isBlank(e) == edges[e].item.category = Blank

LEMMA BlankIsGiven ==
    ASSUME ChartInv, isTokenized(chart), NEW e \in DOMAIN edges, isBlank(e)
    PROVE  /\ isGiven(e) /\ e \in DOMAIN chart.input
           /\ edges[e].from = chart.input[e].from /\ edges[e].to = chart.input[e].to
           /\ edges[e].item = chart.input[e].item
           /\ TokenTag \in edges[e].partitions[1].tags
<1>1. \A i \in chart.grammar : Rules[i].lhs # Blank
    BY DEF isTokenized
<1>2. /\ isGiven(e)
      /\ edges[e].from = chart.input[e].from /\ edges[e].to = chart.input[e].to
      /\ edges[e].item = chart.input[e].item
      /\ chart.input[e].tags \subseteq edges[e].partitions[1].tags
    BY <1>1 DEF ChartInv, AsGiven, isBlank
<1>3. e \in DOMAIN chart.input
    <2>1. chart.input \in Seq(Input)
        BY ChartFields DEF ChartInv, Words
    <2> QED BY <1>2, <2>1 DEF isGiven
<1>4. TokenTag \in chart.input[e].tags
    BY <1>2, <1>3 DEF isTokenized, isBlank
<1> QED BY <1>2, <1>3, <1>4

\* All the blanks are found.
LEMMA BlanksFound ==
    ASSUME ChartInv, isTokenized(chart), NEW v
    PROVE  /\ blanks("in", v) = {b \in DOMAIN edges : isBlank(b) /\ edges[b].to = v}
           /\ blanks("out", v) = {b \in DOMAIN edges : isBlank(b) /\ edges[b].from = v}
<1> DEFINE index == addTagMaskIndex_({{TokenTag}})
           found == index[{{TokenTag}}]
<1>1. {{TokenTag}} \in Mask
    BY ChartAssumption DEF Mask, Collection
<1>2. GoodIndex(index) /\ {{TokenTag}} \in DOMAIN index
    BY <1>1, IndexAdded DEF ChartInv, Words, Inv, LatticeInv
<1>3. \A e \in found : e \in DOMAIN edges
    BY <1>2 DEF GoodIndex
<1>4. \A e \in DOMAIN edges : isBlank(e) => e \in found
    <2> SUFFICES ASSUME NEW e \in DOMAIN edges, isBlank(e) PROVE e \in found
        OBVIOUS
    <2>1. matches(edges[e].partitions[1].tags, {{TokenTag}})
        BY BlankIsGiven DEF matches
    <2> QED BY <1>2, <2>1 DEF GoodIndex
<1> HIDE DEF index, found
<1>5. \A side : edgesIndex(side, v, {{TokenTag}}) =
                  {e \in found : v = IF side = "out" THEN edges[e].from ELSE edges[e].to}
    BY DEF edgesIndex, index, found
<1>6. /\ edgesIndex("in", v, {{TokenTag}}) = {e \in found : v = edges[e].to}
      /\ edgesIndex("out", v, {{TokenTag}}) = {e \in found : v = edges[e].from}
    BY <1>5
<1>7. /\ blanks("in", v) = {e \in {d \in found : v = edges[d].to} : isBlank(e)}
      /\ blanks("out", v) = {e \in {d \in found : v = edges[d].from} : isBlank(e)}
    BY <1>6 DEF blanks, isBlank
<1> QED BY <1>3, <1>4, <1>7

\* There is one blank between two words.
LEMMA BlanksApart ==
    ASSUME ChartInv, isTokenized(chart),
           NEW b \in DOMAIN edges, NEW c \in DOMAIN edges, isBlank(b), isBlank(c)
    PROVE  edges[b].to # edges[c].from /\ (edges[b].from = edges[c].from <=> edges[b].to = edges[c].to)
<1>1. /\ b \in DOMAIN chart.input /\ edges[b].from = chart.input[b].from
      /\ edges[b].to = chart.input[b].to /\ chart.input[b].item.category = Blank
    BY BlankIsGiven DEF isBlank
<1>2. /\ c \in DOMAIN chart.input /\ edges[c].from = chart.input[c].from
      /\ edges[c].to = chart.input[c].to /\ chart.input[c].item.category = Blank
    BY BlankIsGiven DEF isBlank
<1> QED BY <1>1, <1>2 DEF isTokenized

LEMMA FirstInList ==
    ASSUME NEW list \in SUBSET Nat, 0 \notin list, list # {}
    PROVE  firstIn(list) \in list
<1>1. \E e \in list : \A f \in list : e <= f
    BY LeastNatural
<1> QED BY <1>1 DEF firstIn

\* The vertex before an edge, and before the blank in front of it.
LEMMA BeforeTheBlank ==
    ASSUME ChartInv, isTokenized(chart), NEW d \in ChartEdges
    PROVE  \/ /\ sourceBeforeBlanks(d) = getEdgeSource(d)
              /\ \A b \in DOMAIN edges : ~(isBlank(b) /\ edges[b].to = getEdgeSource(d))
           \/ \E b \in DOMAIN edges : /\ isBlank(b) /\ edges[b].to = getEdgeSource(d)
                                      /\ sourceBeforeBlanks(d) = edges[b].from
<1> DEFINE into(v) == blanks("in", v)
           Source(f) == f = [v \in 0 .. Len(text) |->
                                IF blanks("in", v) = {} THEN v ELSE f[edges[firstIn(blanks("in", v))].from]]
           source == CHOOSE f : Source(f)
           plain  == [v \in 0 .. Len(text) |->
                         IF into(v) = {} THEN v ELSE edges[firstIn(into(v))].from]
<1>1. \A v : into(v) = {b \in DOMAIN edges : isBlank(b) /\ edges[b].to = v}
    BY BlanksFound
<1> HIDE DEF into
<1>2. edges \in Seq(EdgeEntry) /\ DOMAIN edges = 1 .. Len(edges)
      /\ nLooseVertices = 0 /\ text \in Seq(Char)
    BY DEF ChartInv, Words, Inv, LatticeInv, LatticeTypeOK
<1>3. Vertices = 0 .. Len(text)
    BY <1>2 DEF Vertices
<1>4. \A v : into(v) # {} => firstIn(into(v)) \in into(v)
    <2>1. \A v : into(v) \in SUBSET Nat /\ 0 \notin into(v)
        BY <1>1, <1>2
    <2> QED BY <2>1, FirstInList
<1>5. \A b \in DOMAIN edges : edges[b].from \in 0 .. Len(text)
    BY <1>3 DEF ChartInv, Words, Inv, LatticeInv, WithinText
<1>6. \A v : \A b \in into(v) : into(edges[b].from) = {}
    <2> SUFFICES ASSUME NEW v, NEW b \in into(v), NEW c \in into(edges[b].from) PROVE FALSE
        OBVIOUS
    <2>1. /\ b \in DOMAIN edges /\ c \in DOMAIN edges /\ isBlank(b) /\ isBlank(c)
          /\ edges[c].to = edges[b].from
        BY <1>1
    <2> QED BY <2>1, BlanksApart
<1>7. Source(plain)
    <2>1. \A v \in 0 .. Len(text) :
             plain[v] = IF into(v) = {} THEN v ELSE plain[edges[firstIn(into(v))].from]
        <3> SUFFICES ASSUME NEW v \in 0 .. Len(text), into(v) # {}
                     PROVE  plain[v] = plain[edges[firstIn(into(v))].from]
            OBVIOUS
        <3> DEFINE b == firstIn(into(v))
        <3>1. b \in into(v) /\ b \in DOMAIN edges
            BY <1>1, <1>4
        <3>2. edges[b].from \in 0 .. Len(text) /\ into(edges[b].from) = {}
            BY <1>5, <1>6, <3>1
        <3> QED BY <3>2
    <2>2. plain = [v \in 0 .. Len(text) |-> plain[v]]
        OBVIOUS
    <2> HIDE DEF plain
    <2> QED BY <2>1, <2>2 DEF into
<1>8. Source(source)
    <2> HIDE DEF Source, plain
    <2> QED BY <1>7
<1>9. sourceBeforeBlanks(d) = source[getEdgeSource(d)]
    BY DEF sourceBeforeBlanks
<1> DEFINE w == getEdgeSource(d)
<1>10. w \in 0 .. Len(text)
    BY <1>3, ChartEdgeFields DEF ChartInv
<1>11. \A v \in 0 .. Len(text) :
           source[v] = IF into(v) = {} THEN v ELSE source[edges[firstIn(into(v))].from]
    BY <1>8 DEF into
<1> HIDE DEF source, w
<1>12. CASE into(w) = {}
    BY <1>1, <1>9, <1>10, <1>11, <1>12 DEF w
<1>13. CASE into(w) # {}
    <2> DEFINE b == firstIn(into(w))
    <2>1. b \in into(w)
        BY <1>4, <1>13
    <2>2. b \in DOMAIN edges /\ isBlank(b) /\ edges[b].to = w
        BY <1>1, <2>1
    <2>3. edges[b].from \in 0 .. Len(text) /\ into(edges[b].from) = {}
        BY <1>5, <1>6, <2>1, <2>2
    <2>4. source[w] = edges[b].from
        BY <1>10, <1>11, <1>13, <2>3
    <2> QED BY <1>9, <2>2, <2>4 DEF w
<1> QED BY <1>12, <1>13

\* The vertex behind an edge, and behind the blank after it.
LEMMA BehindTheBlank ==
    ASSUME ChartInv, isTokenized(chart), NEW d \in ChartEdges
    PROVE  \/ /\ targetBehindBlank(d) = getEdgeTarget(d)
              /\ \A b \in DOMAIN edges : ~(isBlank(b) /\ edges[b].from = getEdgeTarget(d))
           \/ \E b \in DOMAIN edges : /\ isBlank(b) /\ edges[b].from = getEdgeTarget(d)
                                      /\ targetBehindBlank(d) = edges[b].to
<1> DEFINE w   == getEdgeTarget(d)
           out == blanks("out", w)
<1>1. out = {b \in DOMAIN edges : isBlank(b) /\ edges[b].from = w}
    BY BlanksFound
<1>2. out \in SUBSET Nat /\ 0 \notin out
    BY <1>1 DEF ChartInv, Words, Inv, LatticeInv, LatticeTypeOK
<1>3. targetBehindBlank(d) = IF out = {} THEN w ELSE edges[firstIn(out)].to
    BY DEF targetBehindBlank
<1> HIDE DEF out, w
<1>4. out # {} => firstIn(out) \in out
    BY <1>2, FirstInList
<1> QED BY <1>1, <1>3, <1>4 DEF w

-----------------------------------------------------------------------------
(* Facts.                                                                  *)

\* What follows from facts by a rule with one category, and with two; and nothing else does.
LEMMA FollowsFromOne ==
    ASSUME NEW facts, NEW i \in chart.grammar, NEW f \in facts, Rules[i].rhs = <<f[1]>>
    PROVE  <<Rules[i].lhs, f[2], f[3]>> \in following(facts)
<1> DEFINE p == <<i, f>>
<1>1. p \in {pair \in chart.grammar \X facts : Rules[pair[1]].rhs = <<pair[2][1]>>}
    OBVIOUS
<1>2. p[1] = i /\ p[2] = f
    OBVIOUS
<1> HIDE DEF p
<1>3. <<Rules[p[1]].lhs, p[2][2], p[2][3]>> \in following(facts)
    BY <1>1 DEF following
<1> QED BY <1>2, <1>3

LEMMA FollowsFromTwo ==
    ASSUME NEW facts, NEW i \in chart.grammar, NEW f \in facts, NEW g \in facts,
           Rules[i].rhs = <<f[1], g[1]>>, isNextTo(f[3], g[2])
    PROVE  <<Rules[i].lhs, f[2], g[3]>> \in following(facts)
<1> DEFINE t == <<i, f, g>>
<1>1. t \in {u \in chart.grammar \X facts \X facts :
                /\ Rules[u[1]].rhs = <<u[2][1], u[3][1]>>
                /\ isNextTo(u[2][3], u[3][2])}
    OBVIOUS
<1>2. t[1] = i /\ t[2] = f /\ t[3] = g
    OBVIOUS
<1> HIDE DEF t
<1>3. <<Rules[t[1]].lhs, t[2][2], t[3][3]>> \in following(facts)
    BY <1>1 DEF following
<1> QED BY <1>2, <1>3

LEMMA WhenceItFollows ==
    ASSUME NEW facts, NEW new \in following(facts)
    PROVE  \/ \E i \in chart.grammar, f \in facts :
                 /\ Rules[i].rhs = <<f[1]>>
                 /\ new = <<Rules[i].lhs, f[2], f[3]>>
           \/ \E i \in chart.grammar, f \in facts, g \in facts :
                 /\ Rules[i].rhs = <<f[1], g[1]>> /\ isNextTo(f[3], g[2])
                 /\ new = <<Rules[i].lhs, f[2], g[3]>>
<1>1. CASE \E p \in {pair \in chart.grammar \X facts : Rules[pair[1]].rhs = <<pair[2][1]>>} :
              new = <<Rules[p[1]].lhs, p[2][2], p[2][3]>>
    BY <1>1
<1>2. CASE \E t \in {u \in chart.grammar \X facts \X facts :
                        /\ Rules[u[1]].rhs = <<u[2][1], u[3][1]>>
                        /\ isNextTo(u[2][3], u[3][2])} :
              new = <<Rules[t[1]].lhs, t[2][2], t[3][3]>>
    BY <1>2
<1> QED BY <1>1, <1>2 DEF following

\* More follows from more.
LEMMA FollowingGrows ==
    ASSUME UNCHANGED chart, NEW facts, NEW more, facts \subseteq more,
           \A v, w : isNextTo(v, w) => isNextTo(v, w)'
    PROVE  following(facts) \subseteq following(more)'
<1> SUFFICES ASSUME NEW new \in following(facts) PROVE new \in following(more)'
    OBVIOUS
<1>1. CASE \E i \in chart.grammar, f \in facts :
              /\ Rules[i].rhs = <<f[1]>>
              /\ new = <<Rules[i].lhs, f[2], f[3]>>
    <2>1. PICK i \in chart.grammar, f \in facts :
              /\ Rules[i].rhs = <<f[1]>>
              /\ new = <<Rules[i].lhs, f[2], f[3]>>
        BY <1>1
    <2> DEFINE p == <<i, f>>
    <2>2. /\ p \in {pair \in chart'.grammar \X more : Rules[pair[1]].rhs = <<pair[2][1]>>}
          /\ p[1] = i /\ p[2] = f
        BY <2>1
    <2> HIDE DEF p
    <2>3. <<Rules[p[1]].lhs, p[2][2], p[2][3]>> \in following(more)'
        BY <2>2 DEF following
    <2> QED BY <2>1, <2>2, <2>3
<1>2. CASE \E i \in chart.grammar, f \in facts, g \in facts :
              /\ Rules[i].rhs = <<f[1], g[1]>> /\ isNextTo(f[3], g[2])
              /\ new = <<Rules[i].lhs, f[2], g[3]>>
    <2>1. PICK i \in chart.grammar, f \in facts, g \in facts :
              /\ Rules[i].rhs = <<f[1], g[1]>> /\ isNextTo(f[3], g[2])
              /\ new = <<Rules[i].lhs, f[2], g[3]>>
        BY <1>2
    <2>2. isNextTo(f[3], g[2])'
        BY <2>1
    <2> DEFINE t == <<i, f, g>>
    <2>3. /\ t \in {u \in chart'.grammar \X more \X more :
                       /\ Rules[u[1]].rhs = <<u[2][1], u[3][1]>>
                       /\ isNextTo(u[2][3], u[3][2])'}
          /\ t[1] = i /\ t[2] = f /\ t[3] = g
        BY <2>1, <2>2
    <2> HIDE DEF t
    <2>4. <<Rules[t[1]].lhs, t[2][2], t[3][3]>> \in following(more)'
        BY <2>3 DEF following
    <2> QED BY <2>1, <2>3, <2>4
<1> QED BY <1>1, <1>2, WhenceItFollows

\* What the chart holds remains, and what is next to each other.
LEMMA FactsKept ==
    ASSUME ChartInv, OnlyGrow, UNCHANGED chart
    PROVE  /\ \A e \in DOMAIN edges : fact(e)' = fact(e) /\ (onChart(e) => onChart(e)')
           /\ \A e \in Nat : factsBefore(e) \subseteq factsBefore(e)'
           /\ \A v, w : isNextTo(v, w) => isNextTo(v, w)'
<1>1. \A e \in DOMAIN edges : /\ e \in DOMAIN edges' /\ fact(e)' = fact(e)
                              /\ onChart(e) => onChart(e)'
    <2> SUFFICES ASSUME NEW e \in DOMAIN edges
                 PROVE  /\ e \in DOMAIN edges' /\ fact(e)' = fact(e)
                        /\ onChart(e) => onChart(e)'
        OBVIOUS
    <2>1. /\ e \in DOMAIN edges' /\ edges'[e].from = edges[e].from /\ edges'[e].to = edges[e].to
          /\ edges'[e].item = edges[e].item /\ edges[e].tags \subseteq edges'[e].tags
        BY DEF OnlyGrow
    <2>2. onChart(e) => onChart(e)'
        BY <2>1 DEF onChart, isGiven, matches
    <2> QED BY <2>1, <2>2 DEF fact
<1>2. ASSUME NEW e \in Nat PROVE factsBefore(e) \subseteq factsBefore(e)'
    BY <1>1 DEF factsBefore
<1>3. ASSUME NEW v, NEW w, isNextTo(v, w) PROVE isNextTo(v, w)'
    BY <1>1, <1>3 DEF isNextTo
<1> QED BY <1>1, <1>2, <1>3

\* The fact of an edge of the chart.
LEMMA FactOfEdge ==
    ASSUME ChartInv, NEW d \in ChartEdges
    PROVE  /\ fact(d.at) = <<category(d), getEdgeSource(d), getEdgeTarget(d)>>
           /\ fact(d.at) \in factsBefore(Len(edges) + 1)
<1>1. /\ d.at \in DOMAIN edges /\ onChart(d.at)
      /\ getEdgeSource(d) = edges[d.at].from /\ getEdgeTarget(d) = edges[d.at].to
      /\ category(d) = edges[d.at].item.category
    BY ChartEdgeFields DEF ChartInv
<1>2. d.at < Len(edges) + 1
    BY <1>1 DEF ChartInv, Words, Inv, LatticeInv, LatticeTypeOK
<1> QED BY <1>1, <1>2 DEF fact, factsBefore

\* The two edges follow each other, perhaps with a blank between them.
isPath(links) == Len(links) = 2 => isNextTo(getEdgeTarget(links[1]), getEdgeSource(links[2]))

\* What a rule makes of a path.
factOf(links, i) ==
    <<Rules[i].lhs, getEdgeSource(links[1]), getEdgeTarget(links[Len(links)])>>

LEMMA ProductFollows ==
    ASSUME ChartInv, NEW links \in Seq(ChartEdges), Len(links) \in {1, 2}, NEW i,
           combinesAll(i, links), isPath(links)
    PROVE  factOf(links, i) \in following(factsBefore(Len(edges) + 1))
<1> DEFINE facts == factsBefore(Len(edges) + 1)
           first == links[1]
           f     == fact(first.at)
<1>1. first \in ChartEdges /\ (Len(links) = 2 => links[2] \in ChartEdges)
    <2> HIDE DEF ChartEdges
    <2> QED OBVIOUS
<1>2. f = <<category(first), getEdgeSource(first), getEdgeTarget(first)>> /\ f \in facts
    BY <1>1, FactOfEdge
<1>3. i \in chart.grammar /\ Rules[i].rhs = [n \in DOMAIN links |-> category(links[n])]
    BY DEF combinesAll
<1>4. DOMAIN links = 1 .. Len(links)
    OBVIOUS
<1> HIDE DEF f, facts
<1>5. CASE Len(links) = 1
    <2>1. Rules[i].rhs = <<f[1]>>
        <3>1. [n \in DOMAIN links |-> category(links[n])] = <<category(first)>>
            BY <1>4, <1>5
        <3> QED BY <1>2, <1>3, <3>1
    <2>2. <<Rules[i].lhs, f[2], f[3]>> \in following(facts)
        BY <1>2, <1>3, <2>1, FollowsFromOne
    <2> QED BY <1>2, <1>5, <2>2 DEF factOf, facts
<1>6. CASE Len(links) = 2
    <2> DEFINE second == links[2]
               g      == fact(second.at)
    <2>1. g = <<category(second), getEdgeSource(second), getEdgeTarget(second)>> /\ g \in facts
        BY <1>1, <1>6, FactOfEdge DEF facts
    <2> HIDE DEF g
    <2>2. Rules[i].rhs = <<f[1], g[1]>>
        <3>1. [n \in DOMAIN links |-> category(links[n])] = <<category(first), category(second)>>
            BY <1>4, <1>6
        <3> QED BY <1>2, <1>3, <2>1, <3>1
    <2>3. isNextTo(f[3], g[2])
        BY <1>2, <1>6, <2>1 DEF isPath
    <2>4. <<Rules[i].lhs, f[2], g[3]>> \in following(facts)
        BY <1>2, <1>3, <2>1, <2>2, <2>3, FollowsFromTwo
    <2> QED BY <1>2, <1>6, <2>1, <2>4 DEF factOf, facts
<1> QED BY <1>5, <1>6

-----------------------------------------------------------------------------
(* The parser finds nothing that does not follow.                          *)

\* Where a blank begins or ends, nothing begins or ends that is of use to a rule.
Apart ==
    \A e, b \in DOMAIN edges :
        isUseful(edges[e].item.category) /\ isBlank(b) =>
            edges[b].from # edges[e].from /\ edges[b].to # edges[e].to

\* What is still to be combined follows each other.
CombosNext == \A c \in combos : isPath(linksOf(c, current))

\* Each edge that is made follows from what is on the chart before it.
Following == \A e \in DOMAIN edges : isGiven(e) \/ fact(e) \in following(factsBefore(e))

SoundInv == isTokenized(chart) => Apart /\ CombosNext /\ Following

LEMMA GivenApart ==
    ASSUME ChartInv, isTokenized(chart), NEW e \in DOMAIN edges, NEW b \in DOMAIN edges,
           isGiven(e), isUseful(edges[e].item.category), isBlank(b)
    PROVE  edges[b].from # edges[e].from /\ edges[b].to # edges[e].to
<1>1. /\ b \in DOMAIN chart.input /\ edges[b].from = chart.input[b].from
      /\ edges[b].to = chart.input[b].to /\ chart.input[b].item.category = Blank
    BY BlankIsGiven DEF isBlank
<1>2. /\ edges[e].from = chart.input[e].from /\ edges[e].to = chart.input[e].to
      /\ edges[e].item = chart.input[e].item
    BY DEF ChartInv, AsGiven
<1>3. e \in DOMAIN chart.input
    <2>1. chart.input \in Seq(Input)
        BY ChartFields DEF ChartInv, Words
    <2> QED BY <2>1 DEF isGiven
<1>4. chart.input[e].item.category # Blank
    BY <1>2 DEF isTokenized, isUseful
<1> QED BY <1>1, <1>2, <1>3, <1>4 DEF isTokenized, isUseful

\* As long as nothing is made.
LEMMA PreparedIsSound == ChartInv /\ phase = "prepare" => SoundInv
<1> SUFFICES ASSUME ChartInv, phase = "prepare", isTokenized(chart)
             PROVE  Apart /\ CombosNext /\ Following
    BY DEF SoundInv
<1>1. \A e \in DOMAIN edges : isGiven(e)
    <2>1. edges \in Seq(EdgeEntry) /\ chart.input \in Seq(Input)
        BY ChartFields DEF ChartInv, Words, Inv, LatticeInv, LatticeTypeOK
    <2>2. Len(edges) <= Len(chart.input)
        BY DEF ChartInv, AsGiven
    <2> QED BY <2>1, <2>2 DEF isGiven
<1>2. Apart
    BY <1>1, GivenApart DEF Apart
<1>3. combos = {}
    BY DEF ChartInv, Prepared
<1> QED BY <1>1, <1>2, <1>3 DEF CombosNext, Following

\* As long as no edge is added.
LEMMA SameFacts ==
    ASSUME UNCHANGED <<text, edges, chart>>
    PROVE  /\ Apart' = Apart /\ Following' = Following
           /\ \A v, w : isNextTo(v, w)' = isNextTo(v, w)
           /\ \A links : isPath(links)' = isPath(links)
<1>1. \A v, w : isNextTo(v, w)' = isNextTo(v, w)
    BY DEF isNextTo, fact
<1>2. \A links : isPath(links)' = isPath(links)
    BY <1>1 DEF isPath, getEdgeTarget, getEdgeSource, isExplicit
<1>3. Apart' = Apart
    BY DEF Apart, isUseful, isBlank
<1>4. Following' = Following
    <2>1. \A e : /\ isGiven(e)' = isGiven(e) /\ fact(e)' = fact(e)
                 /\ onChart(e)' = onChart(e)
        BY DEF isGiven, fact, onChart
    <2>2. \A facts : following(facts)' = following(facts)
        <3> SUFFICES ASSUME NEW facts PROVE following(facts)' = following(facts)
            OBVIOUS
        <3>1. {u \in chart'.grammar \X facts \X facts : /\ Rules[u[1]].rhs = <<u[2][1], u[3][1]>>
                                                       /\ isNextTo(u[2][3], u[3][2])'}
                 = {u \in chart.grammar \X facts \X facts : /\ Rules[u[1]].rhs = <<u[2][1], u[3][1]>>
                                                           /\ isNextTo(u[2][3], u[3][2])}
            BY <1>1
        <3> QED BY <3>1 DEF following
    <2>3. \A e : factsBefore(e)' = factsBefore(e)
        BY <2>1 DEF factsBefore
    <2>4. \A e : following(factsBefore(e))' = following(factsBefore(e))
        <3> SUFFICES ASSUME NEW e PROVE following(factsBefore(e))' = following(factsBefore(e))
            OBVIOUS
        <3>1. PICK facts : facts = factsBefore(e)
            OBVIOUS
        <3>2. following(factsBefore(e))' = following(facts)'
            BY <2>3, <3>1 DEF following
        <3> QED BY <2>2, <3>1, <3>2
    <2> QED BY <2>1, <2>4 DEF Following
<1> QED BY <1>1, <1>2, <1>3, <1>4

\* What is combined with an edge is next to it.
LEMMA CombinationsNext ==
    ASSUME ChartInv, isTokenized(chart), NEW d \in ChartEdges, NEW c \in combinations(d)
    PROVE  isPath(linksOf(c, d))
<1>1. /\ \/ c.side = Alone
         \/ c.side = Behind /\ c.at \in markedInto(sourceBeforeBlanks(d))
         \/ c.side = Before /\ c.at \in markedOutOf(targetBehindBlank(d))
    BY DEF combinations
<1>2. /\ c.side \in {Alone, Behind, Before}
      /\ c.side # Alone => c.at \in DOMAIN marked
    BY <1>1 DEF Alone, Behind, Before, markedInto, markedOutOf
<1>3. marked \in Seq(ChartEdges)
    BY DEF ChartInv, Lists
<1>4. /\ c.side = Alone => linksOf(c, d) = <<d>>
      /\ c.side = Behind => linksOf(c, d) = <<marked[c.at], d>>
      /\ c.side = Before => linksOf(c, d) = <<d, marked[c.at]>>
    BY <1>2, <1>3, LinksOfCombination
<1>5. CASE c.side = Alone
    <2>1. Len(linksOf(c, d)) = 1
        BY <1>4, <1>5
    <2> QED BY <2>1 DEF isPath
<1>6. CASE c.side = Behind
    <2>1. /\ linksOf(c, d)[1] = marked[c.at] /\ linksOf(c, d)[2] = d
          /\ getEdgeTarget(marked[c.at]) = sourceBeforeBlanks(d)
        BY <1>1, <1>4, <1>6 DEF markedInto, Alone, Behind, Before
    <2>2. isNextTo(sourceBeforeBlanks(d), getEdgeSource(d))
        BY BeforeTheBlank DEF isNextTo, fact, isBlank
    <2> QED BY <2>1, <2>2 DEF isPath
<1>7. CASE c.side = Before
    <2>1. /\ linksOf(c, d)[1] = d /\ linksOf(c, d)[2] = marked[c.at]
          /\ getEdgeSource(marked[c.at]) = targetBehindBlank(d)
        BY <1>1, <1>4, <1>7 DEF markedOutOf, Alone, Behind, Before
    <2>2. isNextTo(getEdgeTarget(d), targetBehindBlank(d))
        BY BehindTheBlank DEF isNextTo, fact, isBlank
    <2> QED BY <2>1, <2>2 DEF isPath
<1> QED BY <1>2, <1>5, <1>6, <1>7

LEMMA TakingIsSound ==
    ASSUME ChartInv, SoundInv, Takes
    PROVE  SoundInv'
<1>1. UNCHANGED <<text, edges, chart, marked>> /\ Head(agenda) \in ChartEdges
    BY TakingKeepsChart DEF Takes
<1> SUFFICES ASSUME isTokenized(chart)
             PROVE  CombosNext'
    BY <1>1, SameFacts DEF SoundInv
<1> SUFFICES ASSUME NEW c \in combos'
             PROVE  isPath(linksOf(c, current))'
    BY DEF CombosNext
<1>2. c \in combinations(Head(agenda)) /\ current' = Head(agenda)
    BY DEF Takes
<1>3. PICK links : links = linksOf(c, Head(agenda))
    OBVIOUS
<1>4. isPath(links)'
    BY <1>1, <1>2, <1>3, CombinationsNext, SameFacts
<1>5. linksOf(c, current)' = links
    BY <1>1, <1>2, <1>3 DEF linksOf
<1> QED BY <1>4, <1>5 DEF isPath

\* The edges while nothing is added.
LEMMA RestIsSound ==
    ASSUME ChartInv, SoundInv, Fills \/ Marks \/ Ends \/ UNCHANGED chartVars
    PROVE  SoundInv'
<1>1. UNCHANGED <<text, edges, chart>>
    BY DEF Fills, QueryEdges, Marks, Ends, chartVars, parserVars, vars, latticeVars
<1>2. \/ combos' = {}
      \/ UNCHANGED <<combos, current, marked>>
    <2>1. CASE Fills
        BY <2>1 DEF Fills
    <2>2. CASE Marks
        BY <2>2 DEF Marks
    <2>3. CASE Ends \/ UNCHANGED chartVars
        BY <2>3 DEF Ends, chartVars, parserVars
    <2> QED BY <2>1, <2>2, <2>3
<1> SUFFICES ASSUME isTokenized(chart)
             PROVE  CombosNext'
    BY <1>1, SameFacts DEF SoundInv
<1> SUFFICES ASSUME NEW c \in combos'
             PROVE  isPath(linksOf(c, current))'
    BY DEF CombosNext
<1>3. c \in combos /\ UNCHANGED <<current, marked>>
    BY <1>2
<1>4. isPath(linksOf(c, current))
    BY <1>1, <1>3 DEF SoundInv, CombosNext
<1>5. PICK links : links = linksOf(c, current)
    OBVIOUS
<1>6. isPath(links)'
    BY <1>1, <1>4, <1>5, SameFacts
<1>7. linksOf(c, current)' = links
    BY <1>3, <1>5 DEF linksOf
<1> QED BY <1>6, <1>7 DEF isPath

\* A path remains one.
LEMMA PathsKept ==
    ASSUME ChartInv, OnlyGrow, UNCHANGED chart, NEW links \in Seq(ChartEdges), Len(links) \in {1, 2}
    PROVE  /\ isPath(links) => isPath(links)'
           /\ \A i : factOf(links, i)' = factOf(links, i)
<1>1. /\ \A n \in DOMAIN links : links[n] \in ChartEdges
      /\ 1 \in DOMAIN links /\ Len(links) \in DOMAIN links
    <2> HIDE DEF ChartEdges
    <2> QED OBVIOUS
<1>2. \A n \in DOMAIN links : /\ getEdgeSource(links[n])' = getEdgeSource(links[n])
                              /\ getEdgeTarget(links[n])' = getEdgeTarget(links[n])
    BY <1>1, ChartEdgesKept DEF ChartInv
<1>3. ASSUME isPath(links), Len(links) = 2
      PROVE  isNextTo(getEdgeTarget(links[1]), getEdgeSource(links[2]))'
    <2>1. PICK v, w : v = getEdgeTarget(links[1]) /\ w = getEdgeSource(links[2])
        OBVIOUS
    <2>2. isNextTo(v, w)'
        BY <1>3, <2>1, FactsKept DEF isPath
    <2>3. getEdgeTarget(links[1])' = v /\ getEdgeSource(links[2])' = w
        BY <1>1, <1>2, <1>3, <2>1
    <2> QED BY <2>2, <2>3 DEF isNextTo
<1>4. \A i : factOf(links, i)' = factOf(links, i)
    BY <1>1, <1>2 DEF factOf
<1> QED BY <1>3, <1>4 DEF isPath

\* The edges after a combination has been made: as before, and perhaps a new one.
LEMMA EdgesMade ==
    ASSUME ChartInv, NEW links \in Seq(ChartEdges), Len(links) \in {1, 2}, NEW i,
           combinesAll(i, links),
           Dropped(links, i) \/ Added(product(links, i), scoreOf(links, i)),
           NEW e \in DOMAIN edges'
    PROVE  \/ e \in DOMAIN edges /\ fact(e)' = fact(e)
           \/ e = Len(edges) + 1 /\ e \notin DOMAIN edges /\ fact(e)' = factOf(links, i)
<1> DEFINE new   == product(links, i)
           score == scoreOf(links, i)
<1>1. i \in chart.grammar
    BY DEF combinesAll
<1>2. /\ new.from = getEdgeSource(links[1]) /\ new.to = getEdgeTarget(links[Len(links)])
      /\ new.item.category = Rules[i].lhs
    BY <1>1, ProductIsWord DEF ChartInv
<1> HIDE DEF new, score
<1>3. CASE Dropped(links, i)
    BY <1>3 DEF Dropped, vars, latticeVars, fact
<1>4. CASE Added(new, score)
    <2>1. EdgesAfter(new, score)
        BY <1>4 DEF Added
    <2>2. \/ /\ e \in DOMAIN edges
             /\ edges'[e].from = edges[e].from /\ edges'[e].to = edges[e].to
             /\ edges'[e].item = edges[e].item
          \/ e = Len(edges) + 1 /\ edges'[e] = entryOf(new, score)
        BY <2>1 DEF EdgesAfter
    <2>3. CASE e \in DOMAIN edges
        <3>1. e # Len(edges) + 1
            BY <2>3 DEF ChartInv, Words, Inv, LatticeInv, LatticeTypeOK
        <3> QED BY <2>2, <2>3, <3>1 DEF fact
    <2>4. CASE e \notin DOMAIN edges
        <3>1. e = Len(edges) + 1 /\ edges'[e] = entryOf(new, score)
            BY <2>2, <2>4
        <3>2. /\ edges'[e].from = new.from /\ edges'[e].to = new.to
              /\ edges'[e].item = new.item
            BY <3>1 DEF entryOf
        <3> QED BY <1>2, <2>4, <3>1, <3>2 DEF fact, factOf
    <2> QED BY <2>3, <2>4
<1> QED BY <1>3, <1>4 DEF new, score

\* A rule is of use for what it combines and makes, none of which is a blank.
LEMMA RuleIsUseful ==
    ASSUME NEW links, NEW i, combinesAll(i, links)
    PROVE  /\ isUseful(Rules[i].lhs)
           /\ \A n \in DOMAIN links : isUseful(category(links[n]))
           /\ isTokenized(chart) => Rules[i].lhs # Blank
<1>1. i \in chart.grammar /\ Rules[i].rhs = [n \in DOMAIN links |-> category(links[n])]
    BY DEF combinesAll
<1>2. \A n \in DOMAIN links : n \in DOMAIN Rules[i].rhs /\ Rules[i].rhs[n] = category(links[n])
    BY <1>1
<1> QED BY <1>1, <1>2 DEF isUseful, isTokenized

LEMMA CombiningIsSound ==
    ASSUME ChartInv, SoundInv, Combines
    PROVE  SoundInv'
<1> SUFFICES ASSUME isTokenized(chart)'
             PROVE  Apart' /\ CombosNext' /\ Following'
    BY DEF SoundInv
<1>1. PICK c \in combos : Made(c, linksOf(c, current))
    BY CombinationMade
<1>2. current \in ChartEdges /\ OnlyGrow /\ UNCHANGED <<chart, current, marked>>
    BY CombinationMade
<1>3. /\ isTokenized(chart) /\ Apart /\ CombosNext /\ Following
    BY <1>2 DEF SoundInv, isTokenized
<1> DEFINE links == linksOf(c, current)
           i     == c.rule
<1>4. /\ links \in Seq(ChartEdges) /\ Len(links) \in {1, 2}
      /\ combinesAll(i, links) /\ combos' = combos \ {c}
      /\ Dropped(links, i) \/ Added(product(links, i), scoreOf(links, i))
    BY <1>1 DEF Made
<1>5. isPath(links)
    BY <1>3 DEF CombosNext
<1> HIDE DEF links, i
<1>6. ASSUME NEW e \in DOMAIN edges'
      PROVE  \/ e \in DOMAIN edges /\ fact(e)' = fact(e)
             \/ e = Len(edges) + 1 /\ e \notin DOMAIN edges /\ fact(e)' = factOf(links, i)
    BY <1>4, EdgesMade
<1>7. CombosNext'
    <2> SUFFICES ASSUME NEW d \in combos'
                 PROVE  isPath(linksOf(d, current))'
        BY DEF CombosNext
    <2>1. PICK path : path = linksOf(d, current)
        OBVIOUS
    <2>2. isPath(path) /\ marked \in Seq(ChartEdges)
        BY <1>3, <1>4, <2>1 DEF CombosNext, ChartInv, Lists
    <2>3. d.side \in {Alone, Behind, Before} /\ (d.side # Alone => d.at \in DOMAIN marked)
        BY <1>4 DEF ChartInv, Combinable
    <2>4. path \in Seq(ChartEdges) /\ Len(path) \in {1, 2}
        BY <1>2, <2>1, <2>2, <2>3, LinksOfCombination
    <2>5. isPath(path)'
        BY <1>2, <2>2, <2>4, PathsKept
    <2>6. linksOf(d, current)' = path
        BY <1>2, <2>1 DEF linksOf
    <2> QED BY <2>5, <2>6 DEF isPath
<1>8. Apart'
    <2> SUFFICES ASSUME NEW e \in DOMAIN edges', NEW b \in DOMAIN edges',
                        isUseful(edges[e].item.category)', isBlank(b)'
                 PROVE  edges'[b].from # edges'[e].from /\ edges'[b].to # edges'[e].to
        BY DEF Apart
    <2>1. Rules[i].lhs # Blank
        BY <1>3, <1>4, RuleIsUseful
    <2>2. b \in DOMAIN edges /\ fact(b)' = fact(b) /\ isBlank(b)
        BY <1>6, <2>1 DEF fact, factOf, isBlank
    <2>3. CASE e \in DOMAIN edges /\ fact(e)' = fact(e)
        <3>1. isUseful(edges[e].item.category)
            BY <1>2, <2>3 DEF isUseful, fact
        <3> QED BY <1>3, <2>2, <2>3, <3>1 DEF Apart, fact
    <2>4. CASE e \notin DOMAIN edges
        <3>1. fact(e)' = factOf(links, i)
            BY <1>6, <2>4
        <3> DEFINE first == links[1]
                   last  == links[Len(links)]
        <3>2. first \in ChartEdges /\ last \in ChartEdges
              /\ 1 \in DOMAIN links /\ Len(links) \in DOMAIN links
            <4> HIDE DEF ChartEdges
            <4> QED BY <1>4
        <3>3. isUseful(category(first)) /\ isUseful(category(last))
            BY <1>4, <3>2, RuleIsUseful
        <3> HIDE DEF first, last
        <3>4. /\ first.at \in DOMAIN edges /\ last.at \in DOMAIN edges
              /\ getEdgeSource(first) = edges[first.at].from
              /\ getEdgeTarget(last) = edges[last.at].to
              /\ isUseful(edges[first.at].item.category)
              /\ isUseful(edges[last.at].item.category)
            BY <3>2, <3>3, ChartEdgeFields DEF ChartInv
        <3>5. edges[b].from # getEdgeSource(first) /\ edges[b].to # getEdgeTarget(last)
            BY <1>3, <2>2, <3>4 DEF Apart
        <3> QED BY <2>2, <3>1, <3>5 DEF fact, factOf, first, last
    <2> QED BY <1>6, <2>3, <2>4
<1>9. Following'
    <2> SUFFICES ASSUME NEW e \in DOMAIN edges', ~isGiven(e)'
                 PROVE  (fact(e) \in following(factsBefore(e)))'
        BY DEF Following
    <2>1. fact(e)' \in following(factsBefore(e))
        <3>1. CASE e \in DOMAIN edges /\ fact(e)' = fact(e)
            BY <1>2, <1>3, <3>1 DEF Following, isGiven
        <3>2. CASE e = Len(edges) + 1 /\ fact(e)' = factOf(links, i)
            BY <1>4, <1>5, <3>2, ProductFollows
        <3> QED BY <1>6, <3>1, <3>2
    <2>2. PICK more : more = factsBefore(e)'
        OBVIOUS
    <2>3. e \in Nat
        BY <1>6 DEF ChartInv, Words, Inv, LatticeInv, LatticeTypeOK
    <2>4. following(factsBefore(e)) \subseteq following(more)'
        BY <1>2, <2>2, <2>3, FactsKept, FollowingGrows
    <2>5. fact(e)' \in following(more)'
        BY <2>1, <2>4
    <2> QED BY <2>2, <2>5 DEF following
<1> QED BY <1>7, <1>8, <1>9

LEMMA NextIsSound ==
    ASSUME ChartInv, SoundInv, [ParserNext]_chartVars
    PROVE  SoundInv'
<1>1. CASE ReadsText \/ ReadsSymbol \/ GetsEdge
    <2>1. ChartInv' /\ phase' = "prepare"
        BY <1>1, ReadingKeepsChart, GettingKeepsChart
    <2>2. (ChartInv /\ phase = "prepare" => SoundInv)'
        BY PreparedIsSound, PTL
    <2> QED BY <2>1, <2>2
<1>2. CASE Takes
    BY <1>2, TakingIsSound
<1>3. CASE Combines
    BY <1>3, CombiningIsSound
<1>4. CASE Fills \/ Marks \/ Ends \/ UNCHANGED chartVars
    BY <1>4, RestIsSound
<1> QED BY <1>1, <1>2, <1>3, <1>4 DEF ParserNext

-----------------------------------------------------------------------------
(* The parser finds everything that follows.                               *)

\* The edges that have been taken, and those that wait.
Taken == {marked[m] : m \in DOMAIN marked} \cup ({current} \ {NoEdge})

Waiting == {agenda[n] : n \in DOMAIN agenda}

\* Whatever is of use has been taken or waits for it.
AllQueued == \A d \in ChartEdges : isUseful(category(d)) => d \in Waiting \cup Taken

\* The planes of what rules make of some edges.
planeOf(links) ==
    IF onlyPlaneTags(ParseTags) = {}
    THEN UNION {onlyPlaneTags(edges[links[n].at].tags) : n \in DOMAIN links}
    ELSE onlyPlaneTags(ParseTags)

\* Edge e is what a rule makes of some edges.
leadsTo(links, i, e) ==
    /\ edges[e].from = getEdgeSource(links[1]) /\ edges[e].to = getEdgeTarget(links[Len(links)])
    /\ edges[e].item = [category |-> Rules[i].lhs, text |-> NoText]
    /\ onlyPlaneTags(edges[e].tags) = planeOf(links)

isFound(links, i) == \E e \in DOMAIN edges : leadsTo(links, i, e)

isPending(links, i) == \E c \in combos : c.rule = i /\ linksOf(c, current) = links

\* Each rule has been, or is about to be, applied to whatever has been taken.
PairsMet ==
    \A links \in Seq(Taken), i \in chart.grammar :
        Len(links) \in {1, 2} /\ combinesAll(i, links) /\ isPath(links) =>
            isFound(links, i) \/ isPending(links, i)

Finished == phase = "done" => current = NoEdge /\ (agenda = <<>> \/ limitLevel > nbLimits)

CompleteInv ==
    /\ Finished
    /\ isTokenized(chart) /\ phase # "prepare" /\ isUnlimited => AllQueued /\ PairsMet

\* Numbers of a chart.
LEMMA LimitFields ==
    ASSUME ChartInv
    PROVE  /\ nbLimits \in Nat
           /\ \A level \in 1 .. nbLimits : minScore(level) \in Int
           /\ \A argument \in Int : limitFor(argument) \in Int
           /\ \A from, to : countEdges(from, to) \in Nat
<1>1. chart.limits \in Limits
    BY ChartAssumption DEF ChartInv, Words, Chart
<1> DEFINE levels == chart.limits.levels
           specs  == chart.limits.specs
           Levels == [threshold : Int, score : Int]
           Specs  == [argument : Int, limit : Int]
<1>2. levels \in Seq(Levels) /\ specs \in Seq(Specs) /\ chart.limits.absolute \in Int
    BY <1>1 DEF Limits
<1> HIDE DEF levels, specs
<1>3. nbLimits \in Nat /\ \A level \in 1 .. nbLimits : minScore(level) \in Int
    <2>1. nbLimits = Len(levels)
        BY DEF nbLimits, levels
    <2>2. ASSUME NEW level \in 1 .. nbLimits PROVE minScore(level) \in Int
        <3> HIDE DEF Levels
        <3>1. levels[level] \in Levels
            BY <1>2, <2>1, <2>2, EntryOf
        <3> QED BY <3>1 DEF minScore, levels, Levels
    <2>3. nbLimits \in Nat
        <3> HIDE DEF Levels
        <3> QED BY <1>2, <2>1
    <2> QED BY <2>2, <2>3
<1>4. ASSUME NEW argument \in Int PROVE limitFor(argument) \in Int
    <2> DEFINE fit   == {n \in DOMAIN specs : specs[n].argument >= argument}
               first == CHOOSE n \in fit : \A m \in fit : n <= m
    <2>1. fit \in SUBSET Nat
        <3> HIDE DEF Specs
        <3> QED BY <1>2
    <2>2. fit # {} => first \in fit
        <3> HIDE DEF fit
        <3> QED BY <2>1, LeastNatural
    <2>3. limitFor(argument) = IF fit = {} THEN chart.limits.absolute ELSE specs[first].limit
        BY DEF limitFor, specs
    <2>4. ASSUME NEW n \in DOMAIN specs PROVE specs[n].limit \in Int
        <3> HIDE DEF Specs
        <3>1. specs[n] \in Specs
            BY <1>2, EntryOf
        <3> QED BY <3>1 DEF Specs
    <2> HIDE DEF first
    <2> QED BY <1>2, <2>2, <2>3, <2>4
<1>5. \A from, to : countEdges(from, to) \in Nat
    BY DEF countEdges, ChartInv, Words, Inv, LatticeInv, LatticeTypeOK, IsMap
<1> QED BY <1>3, <1>4, <1>5

\* What is cut short by a limit remains so.
LEMMA UnlimitedBefore ==
    ASSUME ChartInv, ChartInv', UNCHANGED <<text, chart>>,
           limitLevel' \in {limitLevel, limitLevel + 1},
           \A e \in DOMAIN edges : e \in DOMAIN edges' /\ edges'[e].partitions[1] = edges[e].partitions[1],
           \A from, to : countEdges(from, to) <= countEdges(from, to)',
           isUnlimited'
    PROVE  isUnlimited
<1>1. limitLevel = 1 /\ nbLimits >= 1
    BY DEF isUnlimited, nbLimits, ChartInv, Lists
<1>2. \A e \in DOMAIN edges : edges[e].partitions[1].score >= minScore(1)
    BY DEF isUnlimited, minScore
<1>3. Vertices' = Vertices /\ Vertices \subseteq Int
    BY DEF Vertices, ChartInv, Words, Inv, LatticeInv, LatticeTypeOK
<1>4. ASSUME NEW from \in Vertices, NEW to \in Vertices
      PROVE  isAllowed(to - from, countEdges(from, to))
    <2>1. isAllowed(to - from, countEdges(from, to))'
        BY <1>3 DEF isUnlimited
    <2>2. limitFor(to - from)' = limitFor(to - from)
        BY DEF limitFor
    <2>3. countEdges(from, to)' <= limitFor(to - from)
        BY <2>1, <2>2 DEF isAllowed
    <2>4. (\A f, t : countEdges(f, t) \in Nat)'
        BY DEF countEdges, ChartInv, Words, Inv, LatticeInv, LatticeTypeOK, IsMap
    <2>5. to - from \in Int
        BY <1>3
    <2> HIDE DEF limitFor
    <2>6. countEdges(from, to)' \in Nat /\ countEdges(from, to) \in Nat /\ limitFor(to - from) \in Int
        BY <2>4, <2>5, LimitFields
    <2> QED BY <2>3, <2>6 DEF isAllowed
<1> QED BY <1>1, <1>2, <1>4 DEF isUnlimited

\* No edge falls short of the first score.
LEMMA ScoresSuffice ==
    ASSUME ChartInv, isUnlimited, NEW d \in ChartEdges
    PROVE  edgeScore(d) >= minScore(1)
<1>1. d.at \in DOMAIN edges /\ edgeScore(d) = edges[d.at].score /\ edgeScore(d) \in Int
    BY ChartEdgeFields DEF ChartInv
<1> DEFINE kept == edges[d.at].partitions[1].score
<1>2. kept >= minScore(1)
    BY <1>1 DEF isUnlimited
<1>3. kept <= edgeScore(d)
    BY <1>1 DEF ChartInv, Words, ScoresKept
<1>4. kept \in Int
    <2>1. edges[d.at].partitions \in Seq(Partition) /\ edges[d.at].partitions # <<>>
        BY <1>1, EdgeFields DEF ChartInv, Words, Inv, LatticeInv, PartitionTagsHeld
    <2>2. edges[d.at].partitions[1] \in Partition
        <3> HIDE DEF Partition
        <3> QED BY <2>1
    <2> QED BY <2>2 DEF Partition
<1>5. minScore(1) \in Int
    BY LimitFields DEF isUnlimited
<1> HIDE DEF kept
<1> QED BY <1>1, <1>2, <1>3, <1>4, <1>5

\* The agenda is filled with everything that is of use.
LEMMA AllAreInitial ==
    ASSUME ChartInv, phase = "prepare", isUnlimited, NEW d \in ChartEdges, isUseful(category(d)),
           Len(edges) = Len(chart.input)
    PROVE  d \in initialEdges
<1>1. /\ d = Explicit(d.at) /\ d.at \in DOMAIN edges /\ onChart(d.at)
      /\ category(d) = edges[d.at].item.category /\ edgeScore(d) = edges[d.at].score
    BY ChartEdgeFields DEF ChartInv
<1>2. matches(edges[d.at].tags, InputMask)
    <2>1. edges \in Seq(EdgeEntry)
        BY DEF ChartInv, Words, Inv, LatticeInv, LatticeTypeOK
    <2>2. isGiven(d.at)
        BY <1>1, <2>1 DEF isGiven
    <2> QED BY <1>1, <2>2 DEF onChart
<1>3. d.at \in addTagMaskIndex_(InputMask)[InputMask]
    <2>1. CASE InputMask \in DOMAIN indexedTagMasks
        <3>1. InputMask = {{Symbol}}
            BY <2>1 DEF ChartInv, Prepared, symbolMask, SingletonMask
        <3>2. Symbol \in edges[d.at].tags
            BY <1>2, <3>1 DEF matches
        <3> QED BY <1>1, <3>2 DEF ChartInv, Words, WordsPlain
    <2>2. CASE InputMask \notin DOMAIN indexedTagMasks
        BY <1>1, <1>2, <2>2 DEF addTagMaskIndex_, With
    <2> QED BY <2>1, <2>2
<1>4. edges[d.at].score >= minScore(1) /\ isUseful(edges[d.at].item.category)
    BY <1>1, ScoresSuffice
<1> QED BY <1>1, <1>3, <1>4 DEF initialEdges

\* A list in the order of the vertices that is long enough holds them all.
LEMMA ListHoldsAll ==
    ASSUME ChartInv, NEW list \in [1 .. Cardinality(initialEdges) -> initialEdges],
           vertexByVertex(list), NEW d \in initialEdges
    PROVE  \E n \in DOMAIN list : list[n] = d
<1> DEFINE T == initialEdges
           S == 1 .. Cardinality(initialEdges)
<1>1. IsFiniteSet(T) /\ Cardinality(T) \in Nat /\ T \subseteq ChartEdges
    BY InitialEdges DEF ChartInv
<1>2. Cardinality(S) = Cardinality(T)
    <2> HIDE DEF T
    <2>1. Cardinality(T) \in Int /\ 1 \in Int
        BY <1>1
    <2>2. Cardinality(1 .. Cardinality(T)) = IF 1 > Cardinality(T) THEN 0 ELSE Cardinality(T) - 1 + 1
        BY <2>1, FS_Interval
    <2> QED BY <1>1, <2>2 DEF T
<1>3. \A x \in T : getEdgeSource(x) \in Int /\ x.at \in Int
    <2>1. Vertices \subseteq Int
        BY DEF Vertices, ChartInv, Words, Inv, LatticeInv, LatticeTypeOK
    <2>2. DOMAIN edges \subseteq Int
        BY DEF Vertices, ChartInv, Words, Inv, LatticeInv, LatticeTypeOK
    <2> QED BY <1>1, <2>1, <2>2, ChartEdgeFields DEF ChartInv
<1> HIDE DEF T
<1>4. list \in [S -> T]
    BY DEF T
<1>5. \A i, j \in S : i < j => list[i] # list[j]
    <2> SUFFICES ASSUME NEW i \in S, NEW j \in S, i < j, list[i] = list[j] PROVE FALSE
        OBVIOUS
    <2>1. \/ getEdgeSource(list[i]) < getEdgeSource(list[j])
          \/ list[i].at < list[j].at
        BY <1>4 DEF vertexByVertex
    <2>2. list[i] \in T
        BY <1>4
    <2> QED BY <1>3, <2>1, <2>2
<1>6. list \in Injection(S, T)
    <2>1. \A i, j \in S : list[i] = list[j] => i = j
        BY <1>1, <1>5
    <2> QED BY <1>4, <2>1 DEF Injection, IsInjective
<1>7. list \in Surjection(S, T)
    <2> HIDE DEF S
    <2> QED BY <1>1, <1>2, <1>6, FS_Injection
<1> QED BY <1>4, <1>7 DEF Surjection, T

\* While no edge is added and no level is left, the limits are what they were.
LEMMA UnlimitedSame ==
    ASSUME ChartInv, ChartInv', UNCHANGED <<text, edges, edgeCounterHash, chart>>,
           limitLevel' \in {limitLevel, limitLevel + 1}, isUnlimited'
    PROVE  isUnlimited
<1>1. \A from, to : countEdges(from, to) <= countEdges(from, to)'
    <2>1. \A from, to : countEdges(from, to)' = countEdges(from, to)
        BY DEF countEdges
    <2> QED BY <2>1, LimitFields
<1>2. \A e \in DOMAIN edges : e \in DOMAIN edges' /\ edges'[e].partitions[1] = edges[e].partitions[1]
    OBVIOUS
<1> QED BY <1>1, <1>2, UnlimitedBefore

LEMMA FillingIsComplete ==
    ASSUME ChartInv, Fills
    PROVE  CompleteInv'
<1>1. /\ phase = "prepare" /\ phase' = "parse" /\ Len(edges) = Len(chart.input)
      /\ agenda' \in [1 .. Cardinality(initialEdges) -> initialEdges]
      /\ vertexByVertex(agenda')
      /\ UNCHANGED <<text, nLooseVertices, edges, edgeCounterHash, chart, current, marked, limitLevel>>
      /\ marked = <<>> /\ current = NoEdge
    BY DEF Fills, QueryEdges, ChartInv, Prepared
<1>2. Finished'
    BY <1>1 DEF Finished
<1> SUFFICES ASSUME isUnlimited'
             PROVE  AllQueued' /\ PairsMet'
    BY <1>2 DEF CompleteInv
<1>3. isUnlimited
    BY <1>1, FillingKeepsChart, UnlimitedSame
<1>4. AllQueued'
    <2> SUFFICES ASSUME NEW d \in ChartEdges', isUseful(category(d))'
                 PROVE  d \in Waiting'
        BY DEF AllQueued
    <2>1. d \in ChartEdges /\ isUseful(category(d))
        BY <1>1, SameChartEdges DEF isUseful
    <2>2. d \in initialEdges
        BY <1>1, <1>3, <2>1, AllAreInitial
    <2>3. PICK list : list = agenda'
        OBVIOUS
    <2>4. \E n \in DOMAIN list : list[n] = d
        BY <1>1, <2>2, <2>3, ListHoldsAll
    <2> QED BY <2>3, <2>4 DEF Waiting
<1>5. PairsMet'
    <2>1. Taken' = {}
        BY <1>1 DEF Taken
    <2>2. \A links \in Seq({}) : Len(links) \notin {1, 2}
        OBVIOUS
    <2> QED BY <2>1, <2>2 DEF PairsMet
<1> QED BY <1>4, <1>5

\* Two edges that a rule combines meet, across a blank or not.
LEMMA MeetsBehind ==
    ASSUME ChartInv, isTokenized(chart), Apart, NEW m \in ChartEdges, NEW d \in ChartEdges,
           isUseful(category(m)), isNextTo(getEdgeTarget(m), getEdgeSource(d))
    PROVE  getEdgeTarget(m) = sourceBeforeBlanks(d)
<1>1. /\ m.at \in DOMAIN edges /\ getEdgeTarget(m) = edges[m.at].to
      /\ isUseful(edges[m.at].item.category)
    BY ChartEdgeFields DEF ChartInv
<1>2. CASE getEdgeTarget(m) = getEdgeSource(d)
    BY <1>1, <1>2, BeforeTheBlank DEF Apart
<1>3. CASE \E b \in DOMAIN edges : fact(b) = <<Blank, getEdgeTarget(m), getEdgeSource(d)>>
    <2>1. PICK b \in DOMAIN edges : /\ isBlank(b) /\ edges[b].from = getEdgeTarget(m)
                                    /\ edges[b].to = getEdgeSource(d)
        BY <1>3 DEF fact, isBlank
    <2>2. PICK c \in DOMAIN edges : /\ isBlank(c) /\ edges[c].to = getEdgeSource(d)
                                    /\ sourceBeforeBlanks(d) = edges[c].from
        BY <2>1, BeforeTheBlank
    <2> QED BY <2>1, <2>2, BlanksApart
<1> QED BY <1>2, <1>3 DEF isNextTo

LEMMA MeetsBefore ==
    ASSUME ChartInv, isTokenized(chart), Apart, NEW m \in ChartEdges, NEW d \in ChartEdges,
           isUseful(category(m)), isNextTo(getEdgeTarget(d), getEdgeSource(m))
    PROVE  getEdgeSource(m) = targetBehindBlank(d)
<1>1. /\ m.at \in DOMAIN edges /\ getEdgeSource(m) = edges[m.at].from
      /\ isUseful(edges[m.at].item.category)
    BY ChartEdgeFields DEF ChartInv
<1>2. CASE getEdgeTarget(d) = getEdgeSource(m)
    BY <1>1, <1>2, BehindTheBlank DEF Apart
<1>3. CASE \E b \in DOMAIN edges : fact(b) = <<Blank, getEdgeTarget(d), getEdgeSource(m)>>
    <2>1. PICK b \in DOMAIN edges : /\ isBlank(b) /\ edges[b].from = getEdgeTarget(d)
                                    /\ edges[b].to = getEdgeSource(m)
        BY <1>3 DEF fact, isBlank
    <2>2. PICK c \in DOMAIN edges : /\ isBlank(c) /\ edges[c].from = getEdgeTarget(d)
                                    /\ targetBehindBlank(d) = edges[c].to
        BY <2>1, BehindTheBlank
    <2> QED BY <2>1, <2>2, BlanksApart
<1> QED BY <1>2, <1>3 DEF isNextTo

\* Nothing is next to itself: edges lead forwards, from the first of a path to the last.
LEMMA PathsGoForwards ==
    ASSUME ChartInv, NEW c \in ChartEdges, NEW d \in ChartEdges,
           isNextTo(getEdgeTarget(c), getEdgeSource(d))
    PROVE  /\ getEdgeSource(c) < getEdgeTarget(d) /\ c # d
           /\ getEdgeTarget(c) <= getEdgeSource(d)
<1>1. \A e \in DOMAIN edges : edges[e].from < edges[e].to /\ edges[e].from \in Int /\ edges[e].to \in Int
    BY EdgeFields DEF ChartInv, Words, WordsPlain, Inv, LatticeInv
<1>2. /\ c.at \in DOMAIN edges /\ getEdgeSource(c) = edges[c.at].from
      /\ getEdgeTarget(c) = edges[c.at].to
    BY ChartEdgeFields DEF ChartInv
<1>3. /\ d.at \in DOMAIN edges /\ getEdgeSource(d) = edges[d.at].from
      /\ getEdgeTarget(d) = edges[d.at].to
    BY ChartEdgeFields DEF ChartInv
<1>4. getEdgeTarget(c) <= getEdgeSource(d)
    <2>1. CASE getEdgeTarget(c) = getEdgeSource(d)
        BY <1>1, <1>2, <1>3, <2>1
    <2>2. CASE \E b \in DOMAIN edges : fact(b) = <<Blank, getEdgeTarget(c), getEdgeSource(d)>>
        <3>1. PICK b \in DOMAIN edges : /\ edges[b].from = getEdgeTarget(c)
                                        /\ edges[b].to = getEdgeSource(d)
            BY <2>2 DEF fact
        <3> QED BY <1>1, <1>2, <1>3, <3>1
    <2> QED BY <2>1, <2>2 DEF isNextTo
<1> QED BY <1>1, <1>2, <1>3, <1>4

LEMMA AmongCombinations ==
    ASSUME NEW d, NEW c \in Combination,
           \/ c.side = Alone /\ c.at = 0
           \/ c.side = Behind /\ c.at \in markedInto(sourceBeforeBlanks(d))
           \/ c.side = Before /\ c.at \in markedOutOf(targetBehindBlank(d)),
           combinesAll(c.rule, linksOf(c, d))
    PROVE  c \in combinations(d)
<1>1. c.rule \in combine([n \in DOMAIN linksOf(c, d) |-> category(linksOf(c, d)[n])])
    BY DEF combine, combinesAll
<1> QED BY <1>1 DEF combinations

\* An edge that is taken goes into a combination with each marked edge next to it, and alone.
LEMMA AllCombinations ==
    ASSUME ChartInv, isTokenized(chart), Apart, NEW d \in ChartEdges, NEW i \in chart.grammar,
           NEW links \in Seq(ChartEdges), Len(links) \in {1, 2}, combinesAll(i, links), isPath(links),
           \A n \in DOMAIN links : links[n] = d \/ \E m \in DOMAIN marked : links[n] = marked[m],
           \E n \in DOMAIN links : links[n] = d
    PROVE  \E c \in combinations(d) : c.rule = i /\ linksOf(c, d) = links
<1>1. marked \in Seq(ChartEdges)
    BY DEF ChartInv, Lists
<1>2. DOMAIN links = 1 .. Len(links) /\ \A n \in DOMAIN links : links[n] \in ChartEdges
    <2> HIDE DEF ChartEdges
    <2> QED OBVIOUS
<1>3. \A n \in DOMAIN links : isUseful(category(links[n]))
    BY RuleIsUseful
<1>4. Len(marked) \in Nat /\ DOMAIN marked = 1 .. Len(marked)
    <2> HIDE DEF ChartEdges
    <2> QED BY <1>1
<1>5. CASE Len(links) = 1
    <2> DEFINE c == [side |-> Alone, at |-> 0, rule |-> i]
    <2>1. links = <<d>>
        <3> HIDE DEF ChartEdges
        <3> QED BY <1>2, <1>5
    <2>2. c \in Combination /\ c.side = Alone /\ c.at = 0 /\ c.rule = i
        BY <1>4 DEF Combination
    <2> HIDE DEF c
    <2>3. linksOf(c, d) = links
        BY <1>1, <2>1, <2>2, LinksOfCombination
    <2> QED BY <2>2, <2>3, AmongCombinations
<1>6. ASSUME NEW m \in DOMAIN marked, links = <<marked[m], d>>
      PROVE  \E c \in combinations(d) : c.rule = i /\ linksOf(c, d) = links
    <2> DEFINE c == [side |-> Behind, at |-> m, rule |-> i]
    <2>1. c \in Combination /\ c.side = Behind /\ c.at = m /\ c.rule = i
        BY <1>4 DEF Combination
    <2>2. /\ links[1] = marked[m] /\ links[2] = d /\ Len(links) = 2
          /\ marked[m] \in ChartEdges /\ 1 \in DOMAIN links
        BY <1>2, <1>6
    <2>3. getEdgeTarget(marked[m]) = sourceBeforeBlanks(d)
        BY <1>3, <2>2, MeetsBehind DEF isPath
    <2>4. m \in markedInto(sourceBeforeBlanks(d))
        BY <2>3 DEF markedInto
    <2> HIDE DEF c
    <2>5. linksOf(c, d) = links
        BY <1>1, <1>6, <2>1, LinksOfCombination
    <2> QED BY <2>1, <2>4, <2>5, AmongCombinations
<1>7. ASSUME NEW m \in DOMAIN marked, links = <<d, marked[m]>>
      PROVE  \E c \in combinations(d) : c.rule = i /\ linksOf(c, d) = links
    <2> DEFINE c == [side |-> Before, at |-> m, rule |-> i]
    <2>1. c \in Combination /\ c.side = Before /\ c.at = m /\ c.rule = i
        BY <1>4 DEF Combination
    <2>2. /\ links[1] = d /\ links[2] = marked[m] /\ Len(links) = 2
          /\ marked[m] \in ChartEdges /\ 2 \in DOMAIN links
        BY <1>2, <1>7
    <2>3. getEdgeSource(marked[m]) = targetBehindBlank(d)
        BY <1>3, <2>2, MeetsBefore DEF isPath
    <2>4. m \in markedOutOf(targetBehindBlank(d))
        BY <2>3 DEF markedOutOf
    <2> HIDE DEF c
    <2>5. linksOf(c, d) = links
        BY <1>1, <1>7, <2>1, LinksOfCombination
    <2> QED BY <2>1, <2>4, <2>5, AmongCombinations
<1>8. CASE Len(links) = 2
    <2>1. links = <<links[1], links[2]>> /\ 1 \in DOMAIN links /\ 2 \in DOMAIN links
        <3> HIDE DEF ChartEdges
        <3> QED BY <1>2, <1>8
    <2>2. links[1] # links[2]
        BY <1>2, <1>8, <2>1, PathsGoForwards DEF isPath
    <2>3. (links[1] = d \/ links[2] = d)
        BY <1>2, <1>8
    <2> QED BY <1>6, <1>7, <2>1, <2>2, <2>3
<1> QED BY <1>5, <1>8

\* The edges that have been taken are on the chart.
LEMMA TakenOnChart ==
    ASSUME ChartInv
    PROVE  Taken \subseteq ChartEdges
<1>1. marked \in Seq(ChartEdges) /\ current \in ChartEdges \cup {NoEdge}
    BY DEF ChartInv, Lists
<1> HIDE DEF ChartEdges
<1>2. \A m \in DOMAIN marked : marked[m] \in ChartEdges
    BY <1>1
<1> QED BY <1>1, <1>2 DEF Taken

LEMMA SequencesOfMore ==
    ASSUME NEW S, NEW T, S \subseteq T, NEW s \in Seq(S)
    PROVE  s \in Seq(T) /\ \A n \in DOMAIN s : s[n] \in S
OBVIOUS

LEMMA TakingIsComplete ==
    ASSUME ChartInv, SoundInv, CompleteInv, Takes
    PROVE  CompleteInv'
<1> DEFINE taken == Head(agenda)
<1>1. /\ ChartInv' /\ UNCHANGED <<text, edges, edgeCounterHash, chart, marked>>
      /\ limitLevel' \in {limitLevel, limitLevel + 1}
      /\ taken \in ChartEdges
    BY TakingKeepsChart DEF Takes
<1>2. /\ phase = "parse" /\ current = NoEdge /\ agenda # <<>> /\ agenda' = Tail(agenda)
      /\ phase' = IF limitLevel' > nbLimits THEN "done" ELSE phase
      /\ LET isCombined == /\ limitLevel' <= nbLimits
                           /\ edgeScore(taken) >= minScore(limitLevel')
         IN  /\ current' = IF isCombined THEN taken ELSE NoEdge
             /\ combos' = IF isCombined THEN combinations(taken) ELSE {}
    BY DEF Takes, At
<1>3. combos = {}
    BY <1>2 DEF ChartInv, Lists
<1>4. nbLimits' = nbLimits /\ nbLimits \in Nat /\ limitLevel' \in Nat
    BY <1>1, LimitFields DEF nbLimits, ChartInv, Lists
<1>5. Finished'
    BY <1>1, <1>2, <1>4 DEF Finished
<1> SUFFICES ASSUME isTokenized(chart)', isUnlimited'
             PROVE  AllQueued' /\ PairsMet'
    BY <1>5 DEF CompleteInv
<1>6. isTokenized(chart)
    BY <1>1 DEF isTokenized
<1>7. isUnlimited
    BY <1>1, UnlimitedSame
<1>8. AllQueued /\ PairsMet /\ Apart
    BY <1>2, <1>6, <1>7 DEF CompleteInv, SoundInv
<1>9. current' = taken /\ combos' = combinations(taken)
    <2>1. limitLevel' = 1 /\ limitLevel' <= nbLimits
        BY <1>4 DEF isUnlimited
    <2>2. edgeScore(taken) >= minScore(1)
        BY <1>1, <1>7, ScoresSuffice
    <2> QED BY <1>2, <2>1, <2>2
<1>10. taken # NoEdge
    BY <1>1, ChartEdgeFields DEF ChartInv
<1>11. Taken' = Taken \cup {taken} /\ Taken = {marked[m] : m \in DOMAIN marked}
    BY <1>1, <1>2, <1>9, <1>10 DEF Taken
<1>12. Waiting \subseteq Waiting' \cup {taken}
    <2> SUFFICES ASSUME NEW n \in DOMAIN agenda, agenda[n] # taken
                 PROVE  \E k \in DOMAIN agenda' : agenda'[k] = agenda[n]
        BY DEF Waiting
    <2>1. agenda \in Seq(ChartEdges)
        BY DEF ChartInv, Lists
    <2> HIDE DEF ChartEdges
    <2>2. n - 1 \in DOMAIN Tail(agenda) /\ Tail(agenda)[n - 1] = agenda[n]
        BY <1>2, <2>1
    <2> QED BY <1>2, <2>2
<1>13. /\ ChartEdges' = ChartEdges
       /\ \A d : /\ category(d)' = category(d) /\ getEdgeSource(d)' = getEdgeSource(d)
                 /\ getEdgeTarget(d)' = getEdgeTarget(d)
       /\ \A links : isPath(links)' = isPath(links)
    BY <1>1, SameChartEdges, SameFacts
<1> HIDE DEF taken
<1>14. AllQueued'
    <2> SUFFICES ASSUME NEW d \in ChartEdges', isUseful(category(d))'
                 PROVE  d \in Waiting' \cup Taken'
        BY DEF AllQueued
    <2>1. d \in ChartEdges /\ isUseful(category(d))
        BY <1>1, <1>13 DEF isUseful
    <2> QED BY <1>8, <1>11, <1>12, <2>1 DEF AllQueued
<1>15. PairsMet'
    <2> SUFFICES ASSUME NEW links \in Seq(Taken'), NEW i \in chart'.grammar,
                        Len(links) \in {1, 2}, combinesAll(i, links)', isPath(links)'
                 PROVE  isFound(links, i)' \/ isPending(links, i)'
        BY DEF PairsMet
    <2>1. i \in chart.grammar /\ combinesAll(i, links) /\ isPath(links)
        BY <1>1, <1>13 DEF combinesAll
    <2>2. CASE \A n \in DOMAIN links : links[n] # taken
        <3>1. links \in Seq(Taken)
            <4>1. \A n \in DOMAIN links : links[n] \in Taken'
                OBVIOUS
            <4>2. \A n \in DOMAIN links : links[n] \in Taken
                BY <1>11, <2>2, <4>1
            <4> QED BY <4>2, SequenceInto
        <3>2. isFound(links, i)
            BY <1>3, <1>8, <2>1, <3>1 DEF PairsMet, isPending
        <3>3. isFound(links, i)'
            BY <1>1, <1>13, <3>2 DEF isFound, leadsTo, planeOf
        <3> QED BY <3>3
    <2>3. CASE \E n \in DOMAIN links : links[n] = taken
        <3>1. Taken' \subseteq ChartEdges
            BY <1>1, <1>11, TakenOnChart
        <3>2. links \in Seq(ChartEdges) /\ \A n \in DOMAIN links : links[n] \in Taken'
            BY <3>1, SequencesOfMore
        <3>3. \A n \in DOMAIN links : links[n] = taken \/ \E m \in DOMAIN marked : links[n] = marked[m]
            BY <1>11, <3>2
        <3>4. PICK c \in combinations(taken) : c.rule = i /\ linksOf(c, taken) = links
            BY <1>1, <1>6, <1>8, <2>1, <2>3, <3>2, <3>3, AllCombinations
        <3>5. linksOf(c, current)' = links
            BY <1>1, <1>9, <3>4 DEF linksOf
        <3> QED BY <1>9, <3>4, <3>5 DEF isPending
    <2> QED BY <2>2, <2>3
<1> QED BY <1>14, <1>15

\* A word is merged into the one edge with its place, its item and its planes.
LEMMA HitIsTheOne ==
    ASSUME LatticeInv, SymbolsAside, NEW new, new.item.category \in Category, NEW e \in DOMAIN edges
    PROVE  mergedInto(new) = Explicit(e) <=>
              /\ <<edges[e].from, edges[e].to, edges[e].item>> = keyOf(new)
              /\ areInTheSamePlane(tagsOf(new), edges[e].tags)
<1>1. PICK hit : hit = mergedInto(new)
    OBVIOUS
<1>2. hit = isoplanarEdge(keyOf(new), tagsOf(new))
    BY <1>1 DEF mergedInto, tagsOf, keyOf
<1>3. \/ /\ hit = NoEdge
         /\ \A i \in DOMAIN registered(keyOf(new)) :
               ~areInTheSamePlane(tagsOf(new), getEdgeLayerTags(registered(keyOf(new))[i]))
      \/ hit # NoEdge /\ areInTheSamePlane(tagsOf(new), getEdgeLayerTags(hit))
    BY <1>2, IsoplanarHit DEF LatticeInv
<1>4. \A f : Explicit(f) # NoEdge /\ Explicit(f).at = f /\ getEdgeLayerTags(Explicit(f)) = edges[f].tags
    BY DEF Explicit, NoEdge, getEdgeLayerTags, isExplicit
<1>5. ASSUME hit = Explicit(e)
      PROVE  /\ <<edges[e].from, edges[e].to, edges[e].item>> = keyOf(new)
             /\ areInTheSamePlane(tagsOf(new), edges[e].tags)
    BY <1>1, <1>3, <1>4, <1>5, HitOfWord
<1>6. ASSUME <<edges[e].from, edges[e].to, edges[e].item>> = keyOf(new),
             areInTheSamePlane(tagsOf(new), edges[e].tags)
      PROVE  hit = Explicit(e)
    <2>1. \E i \in DOMAIN registered(keyOf(new)) : registered(keyOf(new))[i] = Explicit(e)
        BY <1>6 DEF LatticeInv, RegistryAgrees
    <2>2. hit # NoEdge /\ areInTheSamePlane(tagsOf(new), getEdgeLayerTags(hit))
        BY <1>3, <1>4, <1>6, <2>1
    <2>3. /\ hit.at \in DOMAIN edges /\ hit = Explicit(hit.at)
          /\ <<edges[hit.at].from, edges[hit.at].to, edges[hit.at].item>> = keyOf(new)
        BY <1>1, <2>2, HitOfWord
    <2>4. areInTheSamePlane(edges[e].tags, edges[hit.at].tags)
        BY <1>4, <1>6, <2>2, <2>3 DEF areInTheSamePlane
    <2>5. \A i \in DOMAIN registered(keyOf(new)) : isExplicit(registered(keyOf(new))[i])
        <3>1. keyOf(new)[3].category \notin Char
            BY LatticeAssumption DEF keyOf
        <3> QED BY <3>1 DEF SymbolsAside, registered
    <2>6. e = hit.at
        BY <1>6, <2>3, <2>4, <2>5 DEF LatticeInv, OneEdgePerPlane
    <2> QED BY <2>3, <2>6
<1> QED BY <1>1, <1>5, <1>6

\* The edge that a combination is merged into is the one that it leads to.
LEMMA WhereItLeads ==
    ASSUME ChartInv, NEW links \in Seq(ChartEdges), Len(links) \in {1, 2}, NEW i,
           combinesAll(i, links), NEW new, new = product(links, i)
    PROVE  /\ onlyPlaneTags(tagsOf(new)) = planeOf(links)
           /\ keyOf(new) = <<getEdgeSource(links[1]), getEdgeTarget(links[Len(links)]),
                             [category |-> Rules[i].lhs, text |-> NoText]>>
           /\ \A e \in DOMAIN edges : mergedInto(new) = Explicit(e) <=> leadsTo(links, i, e)
           /\ mergedInto(new) # NoEdge <=> isFound(links, i)
<1>1. i \in chart.grammar
    BY DEF combinesAll
<1>2. /\ isWord(new)
      /\ new.from = getEdgeSource(links[1]) /\ new.to = getEdgeTarget(links[Len(links)])
      /\ new.sequence = [links |-> links, begin |-> 0, end |-> 0]
    BY <1>1, ProductIsWord DEF ChartInv
<1>3. new.item = [category |-> Rules[i].lhs, text |-> NoText] /\ new.tags = ParseTags
    BY DEF product
<1>4. keyOf(new) = <<getEdgeSource(links[1]), getEdgeTarget(links[Len(links)]),
                     [category |-> Rules[i].lhs, text |-> NoText]>>
    BY <1>2, <1>3 DEF keyOf
<1>5. onlyPlaneTags(tagsOf(new)) = planeOf(links)
    <2>1. \A n \in DOMAIN links : getEdgeLayerTags(links[n]) = edges[links[n].at].tags
        <3>1. \A n \in DOMAIN links : links[n] \in ChartEdges
            <4> HIDE DEF ChartEdges
            <4> QED OBVIOUS
        <3> QED BY <3>1, ChartEdgeFields DEF ChartInv, getEdgeLayerTags
    <2> DEFINE planes == UNION {onlyPlaneTags(edges[links[n].at].tags) : n \in DOMAIN links}
    <2>2. gatherPlaneTags(new.sequence) = planes
        BY <1>2, <2>1 DEF gatherPlaneTags
    <2>3. planes \cap PlaneTag = planes
        BY DEF onlyPlaneTags
    <2>4. tagsOf(new) = IF onlyPlaneTags(ParseTags) = {} THEN ParseTags \cup planes ELSE ParseTags
        BY <1>3, <2>2 DEF tagsOf, inheritedTags
    <2> HIDE DEF planes
    <2>5. onlyPlaneTags(ParseTags) = {} => onlyPlaneTags(ParseTags \cup planes) = planes
        BY <2>3 DEF onlyPlaneTags
    <2>6. planeOf(links) = IF onlyPlaneTags(ParseTags) = {} THEN planes ELSE onlyPlaneTags(ParseTags)
        BY DEF planeOf, planes
    <2> QED BY <2>4, <2>5, <2>6
<1>6. ASSUME NEW e \in DOMAIN edges
      PROVE  mergedInto(new) = Explicit(e) <=> leadsTo(links, i, e)
    <2>1. mergedInto(new) = Explicit(e) <=>
             /\ <<edges[e].from, edges[e].to, edges[e].item>> = keyOf(new)
             /\ areInTheSamePlane(tagsOf(new), edges[e].tags)
        BY <1>2, HitIsTheOne DEF ChartInv, Words, Inv, isWord
    <2> QED BY <1>4, <1>5, <2>1 DEF areInTheSamePlane, leadsTo
<1>7. mergedInto(new) # NoEdge <=> isFound(links, i)
    <2>1. PICK hit : hit = mergedInto(new)
        OBVIOUS
    <2>2. ASSUME hit # NoEdge
          PROVE  hit.at \in DOMAIN edges /\ hit = Explicit(hit.at)
        BY <1>2, <2>1, <2>2, HitOfWord DEF ChartInv, Words, Inv, isWord
    <2>3. \A e : Explicit(e) # NoEdge
        BY DEF Explicit, NoEdge
    <2> QED BY <1>6, <2>1, <2>2, <2>3 DEF isFound
<1> QED BY <1>4, <1>5, <1>6, <1>7

\* An edge that a combination leads to is on the chart, with the fact that it stands for.
LEMMA FoundHasFact ==
    ASSUME ChartInv, isTokenized(chart), NEW links, NEW i, i \in chart.grammar,
           NEW e \in DOMAIN edges, leadsTo(links, i, e)
    PROVE  /\ onChart(e) /\ fact(e) = factOf(links, i)
           /\ factOf(links, i) \in factsBefore(Len(edges) + 1)
<1>1. fact(e) = factOf(links, i) /\ edges[e].item.category = Rules[i].lhs
    BY DEF fact, factOf, leadsTo
<1>2. onChart(e)
    <2> SUFFICES ASSUME isGiven(e) PROVE matches(edges[e].tags, InputMask)
        BY DEF onChart
    <2>1. /\ edges[e].item = chart.input[e].item
          /\ chart.input[e].tags \subseteq edges[e].partitions[1].tags
        BY DEF ChartInv, AsGiven
    <2>2. e \in DOMAIN chart.input
        <3>1. chart.input \in Seq(Input)
            BY ChartFields DEF ChartInv, Words
        <3> QED BY <3>1 DEF isGiven
    <2>3. matches(chart.input[e].tags, InputMask)
        BY <1>1, <2>1, <2>2 DEF isTokenized
    <2>4. edges[e].partitions[1].tags \subseteq edges[e].tags
        <3>1. edges[e].partitions \in Seq(Partition) /\ edges[e].partitions # <<>>
            BY EdgeFields DEF ChartInv, Words, Inv, LatticeInv, PartitionTagsHeld
        <3>2. 1 \in DOMAIN edges[e].partitions
            <4> HIDE DEF Partition
            <4> QED BY <3>1
        <3> QED BY <3>2 DEF ChartInv, Words, Inv, LatticeInv, PartitionTagsHeld
    <2> QED BY <2>1, <2>3, <2>4 DEF matches
<1>3. e < Len(edges) + 1
    BY DEF ChartInv, Words, Inv, LatticeInv, LatticeTypeOK
<1> QED BY <1>1, <1>2, <1>3 DEF factsBefore

\* Where a combination leads does not change.
LEMMA LeadsToTheSame ==
    ASSUME ChartInv, OnlyGrow, UNCHANGED chart, NEW links \in Seq(ChartEdges), Len(links) \in {1, 2},
           NEW i
    PROVE  /\ \A e \in DOMAIN edges : leadsTo(links, i, e)' = leadsTo(links, i, e)
           /\ planeOf(links)' = planeOf(links)
           /\ isFound(links, i) => isFound(links, i)'
<1>1. /\ \A n \in DOMAIN links : links[n] \in ChartEdges
      /\ 1 \in DOMAIN links /\ Len(links) \in DOMAIN links
    <2> HIDE DEF ChartEdges
    <2> QED OBVIOUS
<1>2. \A n \in DOMAIN links : /\ getEdgeSource(links[n])' = getEdgeSource(links[n])
                              /\ getEdgeTarget(links[n])' = getEdgeTarget(links[n])
                              /\ links[n].at \in DOMAIN edges
    BY <1>1, ChartEdgesKept, ChartEdgeFields DEF ChartInv
<1>3. \A e \in DOMAIN edges : /\ e \in DOMAIN edges'
                              /\ onlyPlaneTags(edges'[e].tags) = onlyPlaneTags(edges[e].tags)
                              /\ edges'[e].from = edges[e].from /\ edges'[e].to = edges[e].to
                              /\ edges'[e].item = edges[e].item
    BY DEF OnlyGrow, areInTheSamePlane
<1>4. planeOf(links)' = planeOf(links)
    <2>1. \A n \in DOMAIN links : onlyPlaneTags(edges'[links[n].at].tags)
                                     = onlyPlaneTags(edges[links[n].at].tags)
        BY <1>2, <1>3
    <2> HIDE DEF ChartEdges
    <2>2. {onlyPlaneTags(edges'[links[n].at].tags) : n \in DOMAIN links}
             = {onlyPlaneTags(edges[links[n].at].tags) : n \in DOMAIN links}
        BY <2>1
    <2> QED BY <2>2 DEF planeOf
<1>5. ASSUME NEW e \in DOMAIN edges PROVE leadsTo(links, i, e)' = leadsTo(links, i, e)
    BY <1>1, <1>2, <1>3, <1>4 DEF leadsTo
<1> QED BY <1>3, <1>4, <1>5 DEF isFound

\* A combination that no limit drops is of an edge with itself.
LEMMA DroppedLeads ==
    ASSUME ChartInv, isUnlimited, NEW links \in Seq(ChartEdges), Len(links) \in {1, 2}, NEW i,
           combinesAll(i, links), isPath(links), Dropped(links, i)
    PROVE  \E e \in DOMAIN edges : leadsTo(links, i, e) /\ \E n \in DOMAIN links : links[n] = Explicit(e)
<1>1. i \in chart.grammar
    BY DEF combinesAll
<1> DEFINE new == product(links, i)
           hit == mergedInto(new)
<1>2. /\ isWord(new) /\ new.from \in Vertices /\ new.to \in Vertices
      /\ new.from = getEdgeSource(links[1]) /\ new.to = getEdgeTarget(links[Len(links)])
      /\ new.sequence = [links |-> links, begin |-> 0, end |-> 0]
    BY <1>1, ProductIsWord DEF ChartInv
<1>3. \A n \in DOMAIN links : links[n] \in ChartEdges
    <2> HIDE DEF ChartEdges
    <2> QED OBVIOUS
<1>4. \A e \in DOMAIN edges : hit = Explicit(e) <=> leadsTo(links, i, e)
    BY WhereItLeads
<1> HIDE DEF new, hit
<1>5. ~isBelow(links)
    <2> SUFFICES ASSUME Len(links) = 2, NEW n \in 1 .. 2
                 PROVE  ~(edgeScore(links[n]) < minScore(limitLevel))
        BY DEF isBelow
    <2>1. links[n] \in ChartEdges
        BY <1>3
    <2>2. edgeScore(links[n]) >= minScore(1) /\ edgeScore(links[n]) \in Int /\ minScore(1) \in Int
        BY <2>1, ScoresSuffice, ChartEdgeFields, LimitFields DEF ChartInv, isUnlimited
    <2> QED BY <2>2 DEF isUnlimited
<1>6. isAllowed(new.to - new.from, countEdges(new.from, new.to))
    BY <1>2 DEF isUnlimited
<1>7. throws(new)
    BY <1>5, <1>6 DEF Dropped, new
<1>8. new.from < new.to
    <2>1. CASE Len(links) = 1
        <3>1. links[1] \in ChartEdges
            BY <1>3, <2>1
        <3>2. /\ links[1].at \in DOMAIN edges
              /\ new.from = edges[links[1].at].from /\ new.to = edges[links[1].at].to
            BY <1>2, <2>1, <3>1, ChartEdgeFields DEF ChartInv
        <3> QED BY <2>1, <3>2 DEF ChartInv, Words, WordsPlain
    <2>2. CASE Len(links) = 2
        <3>1. links[1] \in ChartEdges /\ links[2] \in ChartEdges
            BY <1>3, <2>2
        <3> QED BY <1>2, <2>2, <3>1, PathsGoForwards DEF isPath
    <2> QED BY <2>1, <2>2
<1>9. forwards(new.from, new.to)
    <2>1. new.from \in Int /\ new.to \in Int
        BY <1>2 DEF Vertices, ChartInv, Words, Inv, LatticeInv, LatticeTypeOK
    <2> QED BY <1>8, <2>1 DEF forwards
<1>10. hit # NoEdge /\ hit \in SequenceEdges(new.sequence)
    BY <1>7, <1>9 DEF throws, addEdgeThrows, hit
<1>11. hit.at \in DOMAIN edges /\ hit = Explicit(hit.at)
    BY <1>2, <1>10, HitOfWord DEF hit, ChartInv, Words, Inv, isWord
<1>12. links # <<>>
    <2> HIDE DEF ChartEdges
    <2> QED OBVIOUS
<1>13. \E n \in DOMAIN links : links[n] = hit
    BY <1>2, <1>10, <1>12 DEF SequenceEdges
<1> QED BY <1>4, <1>11, <1>13

\* A new edge is one that its combination leads to.
LEMMA InsertedLeads ==
    ASSUME ChartInv, OnlyGrow, UNCHANGED chart,
           NEW links \in Seq(ChartEdges), Len(links) \in {1, 2}, NEW i, combinesAll(i, links),
           NEW score, Inserted(product(links, i), score), NEW e, e = Len(edges) + 1
    PROVE  e \in DOMAIN edges' /\ leadsTo(links, i, e)'
<1>1. PICK new : new = product(links, i)
    OBVIOUS
<1>2. edges \in Seq(EdgeEntry) /\ Len(edges) \in Nat
    BY DEF ChartInv, Words, Inv, LatticeInv, LatticeTypeOK
<1>3. edges' = Append(edges, entryOf(new, score))
    BY <1>1 DEF Inserted
<1>4. e \in DOMAIN edges' /\ edges'[e] = entryOf(new, score)
    BY <1>2, <1>3
<1>5. onlyPlaneTags(tagsOf(new)) = planeOf(links)
    BY <1>1, WhereItLeads
<1>6. keyOf(new) = <<getEdgeSource(links[1]), getEdgeTarget(links[Len(links)]),
                     [category |-> Rules[i].lhs, text |-> NoText]>>
    BY <1>1, WhereItLeads
<1>7. planeOf(links)' = planeOf(links)
    BY LeadsToTheSame
<1>8. getEdgeSource(links[1])' = getEdgeSource(links[1])
      /\ getEdgeTarget(links[Len(links)])' = getEdgeTarget(links[Len(links)])
    <2>1. links[1] \in ChartEdges /\ links[Len(links)] \in ChartEdges
        <3> HIDE DEF ChartEdges
        <3> QED OBVIOUS
    <2> QED BY <2>1, ChartEdgesKept DEF ChartInv
<1> QED BY <1>4, <1>5, <1>6, <1>7, <1>8 DEF leadsTo, entryOf, keyOf

\* A combination that no limit drops is found: as a new edge, as another partition of one, or
\* as one that was there.
LEMMA CombinationFound ==
    ASSUME ChartInv, OnlyGrow, UNCHANGED chart, isUnlimited,
           NEW links \in Seq(ChartEdges), Len(links) \in {1, 2}, NEW i, combinesAll(i, links),
           isPath(links),
           Dropped(links, i) \/ Added(product(links, i), scoreOf(links, i))
    PROVE  isFound(links, i)'
<1>1. PICK new, score : new = product(links, i) /\ score = scoreOf(links, i)
    OBVIOUS
<1>2. CASE isFound(links, i)
    BY <1>2, LeadsToTheSame
<1>3. CASE Dropped(links, i)
    BY <1>2, <1>3, DroppedLeads DEF isFound
<1>4. CASE Added(new, score) /\ ~isFound(links, i)
    <2>1. mergedInto(new) = NoEdge
        BY <1>1, <1>4, WhereItLeads
    <2>2. \A e : Explicit(e) # NoEdge
        BY DEF Explicit, NoEdge
    <2>3. Inserted(new, score)
        BY <1>4, <2>1, <2>2 DEF Added
    <2> QED BY <1>1, <2>3, InsertedLeads DEF isFound
<1> QED BY <1>1, <1>2, <1>3, <1>4

\* No edge goes from the counters.
LEMMA CountsGrow ==
    ASSUME ChartInv, NEW new, NEW score,
           \/ UNCHANGED edgeCounterHash
           \/ Inserted(new, score)
           \/ \E e \in DOMAIN edges : Merged(e, new, score)
    PROVE  \A from, to : countEdges(from, to) <= countEdges(from, to)'
<1> SUFFICES ASSUME NEW from, NEW to PROVE countEdges(from, to) <= countEdges(from, to)'
    OBVIOUS
<1>1. countEdges(from, to) \in Nat /\ countEdges(new.from, new.to) \in Nat
    BY LimitFields
<1>2. CASE UNCHANGED edgeCounterHash
    <2>1. countEdges(from, to)' = countEdges(from, to)
        BY <1>2 DEF countEdges
    <2> QED BY <1>1, <2>1
<1>3. CASE Inserted(new, score)
    <2>1. edgeCounterHash' = With(edgeCounterHash, <<new.from, new.to>>,
                                  countEdges(new.from, new.to) + 1)
        BY <1>3 DEF Inserted
    <2>2. CASE <<from, to>> = <<new.from, new.to>>
        <3>1. countEdges(from, to)' = countEdges(new.from, new.to) + 1
            BY <2>1, <2>2 DEF countEdges, With
        <3>2. countEdges(from, to) = countEdges(new.from, new.to)
            BY <2>2
        <3> QED BY <1>1, <3>1, <3>2
    <2>3. CASE <<from, to>> # <<new.from, new.to>>
        <3>1. countEdges(from, to)' = countEdges(from, to)
            BY <2>1, <2>3 DEF countEdges, With
        <3> QED BY <1>1, <3>1
    <2> QED BY <2>2, <2>3
<1>4. CASE \E e \in DOMAIN edges : Merged(e, new, score)
    BY <1>2, <1>4 DEF Merged
<1> QED BY <1>2, <1>3, <1>4

\* The edges that are on the chart after a combination were on it, or are new and wait.
LEMMA ChartAfterCombination ==
    ASSUME ChartInv, OnlyGrow, UNCHANGED chart, isTokenized(chart),
           NEW links \in Seq(ChartEdges), Len(links) \in {1, 2}, NEW i, combinesAll(i, links),
           Dropped(links, i) \/ Added(product(links, i), scoreOf(links, i)),
           NEW d \in ChartEdges'
    PROVE  /\ Waiting \subseteq Waiting'
           /\ \/ d \in ChartEdges /\ category(d)' = category(d)
              \/ d \in Waiting'
<1> DEFINE new   == product(links, i)
           score == scoreOf(links, i)
<1>1. PICK e \in DOMAIN edges' : d = Explicit(e) /\ onChart(e)'
    BY DEF ChartEdges
<1>2. \/ e \in DOMAIN edges
      \/ e = Len(edges) + 1 /\ e \notin DOMAIN edges
    BY EdgesMade
<1>3. ASSUME NEW f \in DOMAIN edges, mergedInto(new) = Explicit(f)
      PROVE  onChart(f)
    <2>1. leadsTo(links, i, f)
        BY <1>3, WhereItLeads
    <2> QED BY <2>1, FoundHasFact DEF combinesAll
<1> HIDE DEF new, score
<1>4. agenda \in Seq(ChartEdges)
    BY DEF ChartInv, Lists
<1>5. \/ UNCHANGED agenda
      \/ agenda' = Append(agenda, Explicit(Len(edges) + 1))
    BY DEF Dropped, Added, new, score
<1>6. /\ Waiting \subseteq Waiting'
      /\ agenda' = Append(agenda, Explicit(Len(edges) + 1)) => Explicit(Len(edges) + 1) \in Waiting'
    <2>1. CASE UNCHANGED agenda
        <3>1. \A x : agenda # Append(agenda, x)
            <4> HIDE DEF ChartEdges
            <4> QED BY <1>4
        <3> QED BY <2>1, <3>1 DEF Waiting
    <2>2. ASSUME NEW x, agenda' = Append(agenda, x)
          PROVE  Waiting \subseteq Waiting' /\ x \in Waiting'
        <3> HIDE DEF ChartEdges
        <3>1. agenda \in Seq(ChartEdges \cup {x})
            BY <1>4
        <3>2. /\ DOMAIN agenda' = 1 .. Len(agenda) + 1 /\ agenda'[Len(agenda) + 1] = x
              /\ DOMAIN agenda = 1 .. Len(agenda) /\ Len(agenda) \in Nat
              /\ \A n \in 1 .. Len(agenda) : agenda'[n] = agenda[n]
            BY <2>2, <3>1
        <3>3. \A n \in DOMAIN agenda : n \in DOMAIN agenda' /\ agenda'[n] = agenda[n]
            BY <3>2
        <3>4. Len(agenda) + 1 \in DOMAIN agenda'
            BY <3>2
        <3> QED BY <3>2, <3>3, <3>4 DEF Waiting
    <2> QED BY <1>5, <2>1, <2>2
<1>7. CASE e \in DOMAIN edges
    <2>1. /\ edges'[e].item = edges[e].item
        BY <1>7 DEF OnlyGrow
    <2>2. onChart(e)
        <3>1. CASE edges'[e] = edges[e]
            BY <1>1, <3>1 DEF onChart, isGiven
        <3>2. CASE edges'[e] # edges[e]
            <4>1. Added(new, score)
                BY <3>2 DEF Dropped, vars, latticeVars, new, score
            <4>2. ~Inserted(new, score)
                <5>1. edges \in Seq(EdgeEntry)
                    BY DEF ChartInv, Words, Inv, LatticeInv, LatticeTypeOK
                <5>2. ASSUME NEW x, edges' = Append(edges, x) PROVE edges'[e] = edges[e]
                    BY <1>7, <5>1, <5>2, AppendEntries
                <5> QED BY <3>2, <5>2 DEF Inserted
            <4>3. PICK f \in DOMAIN edges : mergedInto(new) = Explicit(f) /\ Merged(f, new, score)
                BY <4>1, <4>2 DEF Added
            <4>4. e = f
                BY <1>7, <3>2, <4>3 DEF Merged
            <4> QED BY <1>3, <4>3, <4>4
        <3> QED BY <3>1, <3>2
    <2>3. d \in ChartEdges
        BY <1>1, <1>7, <2>2 DEF ChartEdges
    <2>4. category(d)' = category(d)
        BY <2>3, ChartEdgesKept DEF ChartInv
    <2> QED BY <1>6, <2>3, <2>4
<1>8. CASE e = Len(edges) + 1 /\ e \notin DOMAIN edges
    <2>1. Added(new, score)
        BY <1>8 DEF Dropped, vars, latticeVars, new, score
    <2>2. ~(\E f \in DOMAIN edges : Merged(f, new, score))
        BY <1>8 DEF Merged
    <2>3. agenda' = Append(agenda, Explicit(Len(edges) + 1))
        BY <2>1, <2>2 DEF Added
    <2> QED BY <1>1, <1>6, <1>8, <2>3
<1> QED BY <1>2, <1>7, <1>8

\* A rule makes no blank, so that nothing comes to be next to anything else.
LEMMA NothingNearer ==
    ASSUME ChartInv, OnlyGrow, UNCHANGED chart, isTokenized(chart),
           NEW links \in Seq(ChartEdges), Len(links) \in {1, 2}, NEW i, combinesAll(i, links),
           Dropped(links, i) \/ Added(product(links, i), scoreOf(links, i)),
           NEW path \in Seq(ChartEdges), Len(path) \in {1, 2}, isPath(path)'
    PROVE  isPath(path)
<1> SUFFICES ASSUME Len(path) = 2
             PROVE  isNextTo(getEdgeTarget(path[1]), getEdgeSource(path[2]))
    BY DEF isPath
<1>1. path[1] \in ChartEdges /\ path[2] \in ChartEdges
    <2> HIDE DEF ChartEdges
    <2> QED OBVIOUS
<1>2. PICK v, w : v = getEdgeTarget(path[1]) /\ w = getEdgeSource(path[2])
    OBVIOUS
<1>3. getEdgeTarget(path[1])' = v /\ getEdgeSource(path[2])' = w
    BY <1>1, <1>2, ChartEdgesKept DEF ChartInv
<1>4. isNextTo(v, w)'
    BY <1>3 DEF isPath, isNextTo
<1>5. CASE v = w
    BY <1>2, <1>5 DEF isNextTo
<1>6. CASE \E b \in DOMAIN edges' : fact(b)' = <<Blank, v, w>>
    <2>1. PICK b \in DOMAIN edges' : fact(b)' = <<Blank, v, w>>
        BY <1>6
    <2>2. Rules[i].lhs # Blank
        BY RuleIsUseful
    <2>3. b \in DOMAIN edges /\ fact(b) = <<Blank, v, w>>
        BY <2>1, <2>2, EdgesMade DEF factOf
    <2> QED BY <1>2, <2>3 DEF isNextTo
<1> QED BY <1>4, <1>5, <1>6 DEF isNextTo

LEMMA CombiningIsComplete ==
    ASSUME ChartInv, SoundInv, CompleteInv, Combines
    PROVE  CompleteInv'
<1>1. PICK c \in combos : Made(c, linksOf(c, current))
    BY CombinationMade
<1>2. /\ ChartInv' /\ OnlyGrow /\ phase = "parse" /\ current \in ChartEdges
      /\ UNCHANGED <<text, chart, phase, current, marked, limitLevel>>
    BY CombinationMade, CombiningKeepsChart
<1>3. Finished'
    BY <1>2 DEF Finished
<1> SUFFICES ASSUME isTokenized(chart)', isUnlimited'
             PROVE  AllQueued' /\ PairsMet'
    BY <1>3 DEF CompleteInv
<1>4. isTokenized(chart)
    BY <1>2 DEF isTokenized
<1>5. PICK links, i : links = linksOf(c, current) /\ i = c.rule
    OBVIOUS
<1>6. /\ links \in Seq(ChartEdges) /\ Len(links) \in {1, 2}
      /\ combinesAll(i, links) /\ combos' = combos \ {c}
      /\ Dropped(links, i) \/ Added(product(links, i), scoreOf(links, i))
    BY <1>1, <1>5 DEF Made
<1>7. isUnlimited
    <2>1. ASSUME NEW e \in DOMAIN edges
          PROVE  e \in DOMAIN edges' /\ edges'[e].partitions[1] = edges[e].partitions[1]
        <3>1. edges[e].partitions \in Seq(Partition) /\ edges[e].partitions # <<>>
            BY EdgeFields DEF ChartInv, Words, Inv, LatticeInv, PartitionTagsHeld
        <3>2. 1 \in DOMAIN edges[e].partitions
            <4> HIDE DEF Partition
            <4> QED BY <3>1
        <3> QED BY <1>2, <3>2 DEF OnlyGrow
    <2>2. PICK new, score : new = product(links, i) /\ score = scoreOf(links, i)
        OBVIOUS
    <2>3. \/ UNCHANGED edgeCounterHash
          \/ Inserted(new, score)
          \/ \E e \in DOMAIN edges : Merged(e, new, score)
        <3>1. Dropped(links, i) \/ Added(new, score)
            BY <1>6, <2>2
        <3> QED BY <3>1 DEF Dropped, Added, vars, latticeVars
    <2>4. \A from, to : countEdges(from, to) <= countEdges(from, to)'
        BY <2>3, CountsGrow
    <2> QED BY <1>2, <2>1, <2>4, UnlimitedBefore
<1>8. AllQueued /\ PairsMet /\ CombosNext
    BY <1>2, <1>4, <1>7 DEF CompleteInv, SoundInv
<1>9. isPath(links)
    BY <1>5, <1>8 DEF CombosNext
<1>10. Taken' = Taken /\ Taken \subseteq ChartEdges
    BY <1>2, TakenOnChart DEF Taken
<1>11. AllQueued'
    <2> SUFFICES ASSUME NEW d \in ChartEdges', isUseful(category(d))'
                 PROVE  d \in (Waiting \cup Taken)'
        BY DEF AllQueued
    <2>1. /\ Waiting \subseteq Waiting'
          /\ \/ d \in ChartEdges /\ category(d)' = category(d)
             \/ d \in Waiting'
        BY <1>2, <1>4, <1>6, ChartAfterCombination
    <2>2. CASE d \in ChartEdges /\ category(d)' = category(d)
        <3>1. isUseful(category(d))
            BY <1>2, <2>2 DEF isUseful
        <3> QED BY <1>8, <1>10, <2>1, <2>2, <3>1 DEF AllQueued
    <2> QED BY <2>1, <2>2
<1>12. PairsMet'
    <2> SUFFICES ASSUME NEW path \in Seq(Taken'), NEW j \in chart'.grammar,
                        Len(path) \in {1, 2}, combinesAll(j, path)', isPath(path)'
                 PROVE  isFound(path, j)' \/ isPending(path, j)'
        BY DEF PairsMet
    <2>1. path \in Seq(Taken) /\ path \in Seq(ChartEdges) /\ \A n \in DOMAIN path : path[n] \in ChartEdges
        <3>1. path \in Seq(Taken)
            BY <1>10
        <3> QED BY <1>10, <3>1, SequencesOfMore
    <2>2. isPath(path)
        BY <1>2, <1>4, <1>6, <2>1, NothingNearer
    <2>3. combinesAll(j, path)
        <3>1. \A n \in DOMAIN path : category(path[n])' = category(path[n])
            BY <1>2, <2>1, ChartEdgesKept DEF ChartInv
        <3> QED BY <1>2, <3>1 DEF combinesAll
    <2>4. CASE isFound(path, j)
        BY <1>2, <2>1, <2>4, LeadsToTheSame
    <2>5. CASE isPending(path, j)
        <3>1. PICK d \in combos : d.rule = j /\ linksOf(d, current) = path
            BY <2>5 DEF isPending
        <3>2. CASE d = c
            <4>1. path = links /\ j = i
                BY <1>5, <3>1, <3>2
            <4> QED BY <1>2, <1>4, <1>6, <1>7, <1>9, <4>1, CombinationFound
        <3>3. CASE d # c
            <4>1. d \in combos'
                BY <1>6, <3>3
            <4>2. linksOf(d, current)' = path
                BY <1>2, <3>1 DEF linksOf
            <4> QED BY <3>1, <4>1, <4>2 DEF isPending
        <3> QED BY <3>2, <3>3
    <2>6. j \in chart.grammar
        BY <1>2
    <2> QED BY <1>8, <2>1, <2>2, <2>3, <2>4, <2>5, <2>6 DEF PairsMet
<1> QED BY <1>11, <1>12

\* An edge is marked, the parser ends, or nothing happens.
LEMMA RestIsComplete ==
    ASSUME ChartInv, CompleteInv, Marks \/ Ends \/ UNCHANGED chartVars
    PROVE  CompleteInv'
<1>1. /\ UNCHANGED vars
      /\ UNCHANGED <<text, edges, edgeCounterHash, chart, agenda, combos, limitLevel>>
    BY DEF Marks, Ends, chartVars, parserVars, vars, latticeVars
<1>2. \/ Marks /\ phase' = phase
      \/ phase = "parse" /\ agenda = <<>> /\ current = NoEdge /\ UNCHANGED <<current, marked>>
      \/ UNCHANGED <<phase, current, marked>>
    BY DEF Marks, Ends, At, chartVars, parserVars
<1>3. nbLimits' = nbLimits
    BY <1>1 DEF nbLimits
<1>4. ASSUME Marks
      PROVE  /\ combos = {} /\ phase # "done" /\ Taken' = Taken
    <2>1. current # NoEdge /\ combos = {} /\ marked' = Append(marked, current) /\ current' = NoEdge
        BY <1>4 DEF Marks
    <2>2. marked \in Seq(ChartEdges) /\ current \in ChartEdges /\ phase = "parse"
        BY <2>1 DEF ChartInv, Lists
    <2> DEFINE T  == {marked[m] : m \in DOMAIN marked}
               Ta == {Append(marked, current)[m] : m \in DOMAIN Append(marked, current)}
    <2>3. Ta = T \cup {current}
        <3> HIDE DEF ChartEdges
        <3> QED BY <2>2, AppendEntries
    <2>4. Taken' = Ta
        BY <2>1 DEF Taken
    <2>5. Taken = T \cup {current}
        BY <2>1 DEF Taken
    <2> QED BY <2>1, <2>2, <2>3, <2>4, <2>5
<1>5. Finished'
    BY <1>1, <1>2, <1>3, <1>4 DEF CompleteInv, Finished
<1> SUFFICES ASSUME isTokenized(chart)', (phase # "prepare")', isUnlimited'
             PROVE  AllQueued' /\ PairsMet'
    BY <1>5 DEF CompleteInv
<1>6. isTokenized(chart) /\ phase # "prepare"
    BY <1>1, <1>2 DEF isTokenized
<1>7. isUnlimited
    <2>1. ChartInv'
        BY RestKeepsChart
    <2> QED BY <1>1, <2>1, UnlimitedSame
<1>8. AllQueued /\ PairsMet
    BY <1>6, <1>7 DEF CompleteInv
<1>9. Taken' = Taken /\ Waiting' = Waiting
    BY <1>1, <1>2, <1>4 DEF Taken, Waiting
<1>10. /\ ChartEdges' = ChartEdges /\ \A d : category(d)' = category(d)
       /\ \A links : isPath(links)' = isPath(links)
       /\ \A i, links : isFound(links, i)' = isFound(links, i)
    <2>1. \A i, links : isFound(links, i)' = isFound(links, i)
        BY <1>1 DEF isFound, leadsTo, planeOf, getEdgeSource, getEdgeTarget, isExplicit
    <2> QED BY <1>1, <2>1, SameChartEdges, SameFacts
<1>11. AllQueued'
    BY <1>1, <1>8, <1>9, <1>10 DEF AllQueued, isUseful
<1>12. PairsMet'
    <2> SUFFICES ASSUME NEW links \in Seq(Taken'), NEW i \in chart'.grammar,
                        Len(links) \in {1, 2}, combinesAll(i, links)', isPath(links)'
                 PROVE  isFound(links, i)' \/ isPending(links, i)'
        BY DEF PairsMet
    <2>1. /\ links \in Seq(Taken) /\ i \in chart.grammar /\ combinesAll(i, links)
          /\ isPath(links)
        BY <1>1, <1>9, <1>10 DEF combinesAll
    <2>2. isFound(links, i) \/ isPending(links, i)
        BY <1>8, <2>1 DEF PairsMet
    <2>3. isPending(links, i) => isPending(links, i)'
        <3>1. isPending(links, i) => UNCHANGED <<current, marked>>
            BY <1>2, <1>4 DEF isPending
        <3> QED BY <1>1, <3>1 DEF isPending, linksOf
    <2> QED BY <1>10, <2>2, <2>3
<1> QED BY <1>11, <1>12

LEMMA NextIsComplete ==
    ASSUME ChartInv, SoundInv, CompleteInv, [ParserNext]_chartVars
    PROVE  CompleteInv'
<1>1. CASE ReadsText \/ ReadsSymbol \/ GetsEdge
    <2>1. phase' = "prepare"
        BY <1>1, ReadingKeepsChart, GettingKeepsChart
    <2> QED BY <2>1 DEF CompleteInv, Finished
<1>2. CASE Fills
    BY <1>2, FillingIsComplete
<1>3. CASE Takes
    BY <1>3, TakingIsComplete
<1>4. CASE Combines
    BY <1>4, CombiningIsComplete
<1>5. CASE Marks \/ Ends \/ UNCHANGED chartVars
    BY <1>5, RestIsComplete
<1> QED BY <1>1, <1>2, <1>3, <1>4, <1>5 DEF ParserNext

\* An edge for each fact.
LEMMA EdgeOfFact ==
    ASSUME ChartInv, AllQueued, Waiting = {}, NEW f \in factsBefore(Len(edges) + 1),
           isUseful(f[1])
    PROVE  \E d \in Taken : f = <<category(d), getEdgeSource(d), getEdgeTarget(d)>>
<1>1. PICK e \in DOMAIN edges : onChart(e) /\ f = fact(e)
    BY DEF factsBefore
<1>2. PICK d \in ChartEdges : d.at = e
    <2>1. Explicit(e) \in ChartEdges /\ Explicit(e).at = e
        BY <1>1 DEF ChartEdges, Explicit
    <2> QED BY <2>1
<1>3. f = <<category(d), getEdgeSource(d), getEdgeTarget(d)>>
    BY <1>1, <1>2, FactOfEdge
<1>4. isUseful(category(d))
    BY <1>3
<1> QED BY <1>3, <1>4 DEF AllQueued

\* When the parser has ended, and no limit has cut it short, nothing more follows.
LEMMA NothingMoreFollows ==
    ASSUME ChartInv, CompleteInv, isTokenized(chart), phase = "done", isUnlimited
    PROVE  following(factsBefore(Len(edges) + 1)) \subseteq factsBefore(Len(edges) + 1)
<1> DEFINE facts == factsBefore(Len(edges) + 1)
<1>1. agenda = <<>> /\ current = NoEdge /\ combos = {}
    <2>1. nbLimits \in Nat /\ limitLevel = 1 /\ nbLimits >= 1
        BY LimitFields DEF isUnlimited
    <2>2. current = NoEdge /\ agenda = <<>>
        BY <2>1 DEF CompleteInv, Finished
    <2> QED BY <2>2 DEF ChartInv, Lists
<1>2. Waiting = {} /\ AllQueued /\ PairsMet
    BY <1>1 DEF CompleteInv, Waiting
<1>3. ASSUME NEW links \in Seq(Taken), NEW i \in chart.grammar, Len(links) \in {1, 2},
             combinesAll(i, links), isPath(links)
      PROVE  factOf(links, i) \in facts
    <2>1. isFound(links, i)
        BY <1>1, <1>2, <1>3 DEF PairsMet, isPending
    <2> QED BY <2>1, FoundHasFact DEF isFound
<1> HIDE DEF facts
<1> SUFFICES ASSUME NEW new \in following(facts)
             PROVE  new \in facts
    BY DEF facts
<1>4. CASE \E i \in chart.grammar, f \in facts :
              /\ Rules[i].rhs = <<f[1]>>
              /\ new = <<Rules[i].lhs, f[2], f[3]>>
    <2>1. PICK i \in chart.grammar, f \in facts :
              /\ Rules[i].rhs = <<f[1]>>
              /\ new = <<Rules[i].lhs, f[2], f[3]>>
        BY <1>4
    <2>2. 1 \in DOMAIN Rules[i].rhs /\ Rules[i].rhs[1] = f[1]
        BY <2>1
    <2>3. isUseful(f[1])
        BY <2>2 DEF isUseful
    <2>4. PICK d \in Taken : f = <<category(d), getEdgeSource(d), getEdgeTarget(d)>>
        BY <1>2, <2>3, EdgeOfFact DEF facts
    <2> DEFINE links == <<d>>
    <2>5. links \in Seq(Taken) /\ Len(links) = 1 /\ DOMAIN links = 1 .. 1 /\ links[1] = d
        BY ShortSequences
    <2>6. combinesAll(i, links)
        <3>1. [n \in DOMAIN links |-> category(links[n])] = <<category(d)>>
            OBVIOUS
        <3> QED BY <2>1, <2>4, <3>1 DEF combinesAll
    <2> HIDE DEF links
    <2>7. factOf(links, i) \in facts
        BY <1>3, <2>5, <2>6 DEF isPath
    <2> QED BY <2>1, <2>4, <2>5, <2>7 DEF factOf
<1>5. CASE \E i \in chart.grammar, f \in facts, g \in facts :
              /\ Rules[i].rhs = <<f[1], g[1]>> /\ isNextTo(f[3], g[2])
              /\ new = <<Rules[i].lhs, f[2], g[3]>>
    <2>1. PICK i \in chart.grammar, f \in facts, g \in facts :
              /\ Rules[i].rhs = <<f[1], g[1]>> /\ isNextTo(f[3], g[2])
              /\ new = <<Rules[i].lhs, f[2], g[3]>>
        BY <1>5
    <2>2. /\ 1 \in DOMAIN Rules[i].rhs /\ Rules[i].rhs[1] = f[1]
          /\ 2 \in DOMAIN Rules[i].rhs /\ Rules[i].rhs[2] = g[1]
        BY <2>1
    <2>3. isUseful(f[1]) /\ isUseful(g[1])
        BY <2>2 DEF isUseful
    <2>4. PICK c \in Taken : f = <<category(c), getEdgeSource(c), getEdgeTarget(c)>>
        BY <1>2, <2>3, EdgeOfFact DEF facts
    <2>5. PICK d \in Taken : g = <<category(d), getEdgeSource(d), getEdgeTarget(d)>>
        BY <1>2, <2>3, EdgeOfFact DEF facts
    <2> DEFINE links == <<c, d>>
    <2>6. links \in Seq(Taken) /\ Len(links) = 2 /\ DOMAIN links = 1 .. 2
          /\ links[1] = c /\ links[2] = d
        BY ShortSequences
    <2>7. combinesAll(i, links)
        <3>1. [n \in DOMAIN links |-> category(links[n])] = <<category(c), category(d)>>
            OBVIOUS
        <3> QED BY <2>1, <2>4, <2>5, <3>1 DEF combinesAll
    <2> HIDE DEF links
    <2>8. isPath(links)
        BY <2>1, <2>4, <2>5, <2>6 DEF isPath
    <2>9. factOf(links, i) \in facts
        BY <1>3, <2>6, <2>7, <2>8
    <2> QED BY <2>1, <2>4, <2>5, <2>6, <2>9 DEF factOf
<1> QED BY <1>4, <1>5, WhenceItFollows

\* Whatever the text, the grammar and the limits: when the parser has ended, each edge it made
\* follows by a rule from what was on the chart before, and, if no limit cut it short, nothing
\* follows that is not on the chart.  The blanks have to be tokens that stand apart from each
\* other and from what the rules are about.
THEOREM ParsesCompletely == ParserSpec => [](isTokenized(chart) => ChartComplete)
<1>1. ParserInit => ChartInv /\ SoundInv /\ CompleteInv
    <2> SUFFICES ASSUME ParserInit PROVE ChartInv /\ SoundInv /\ CompleteInv
        OBVIOUS
    <2>1. ChartInv /\ phase = "prepare"
        BY InitChart DEF ParserInit
    <2> QED BY <2>1, PreparedIsSound DEF CompleteInv, Finished
<1>2. /\ ChartInv /\ SoundInv /\ CompleteInv /\ [ParserNext]_chartVars
      => (ChartInv /\ SoundInv /\ CompleteInv)'
    BY NextKeepsChart, NextIsSound, NextIsComplete
<1>3. ChartInv /\ SoundInv /\ CompleteInv => (isTokenized(chart) => ChartComplete)
    BY NothingMoreFollows DEF ChartComplete, SoundInv, Following
<1> QED BY <1>1, <1>2, <1>3, PTL DEF ParserSpec

-----------------------------------------------------------------------------
(* A derivation is recorded once.                                          *)

\* Nothing is in the list twice.
listsOnce(list) == \A m, n \in DOMAIN list : list[m] = list[n] => m = n

\* An edge waits once, and is marked once.
QueuedOnce ==
    /\ listsOnce(agenda) /\ listsOnce(marked)
    /\ Waiting \cap Taken = {}
    /\ \A m \in DOMAIN marked : marked[m] # current

\* No two combinations are of the same edges by the same rule.
PendingOnce ==
    \A c, d \in combos :
        c.rule = d.rule /\ linksOf(c, current) = linksOf(d, current) => c = d

\* One more in a list.
LEMMA AppendedOnce ==
    ASSUME NEW S, NEW list \in Seq(S), listsOnce(list), NEW d,
           \A n \in DOMAIN list : list[n] # d
    PROVE  listsOnce(Append(list, d))
<1>1. /\ list \in Seq(S \cup {d}) /\ Len(list) \in Nat /\ DOMAIN list = 1 .. Len(list)
      /\ DOMAIN Append(list, d) = 1 .. Len(list) + 1
      /\ \A n \in DOMAIN list : Append(list, d)[n] = list[n]
      /\ Append(list, d)[Len(list) + 1] = d
    OBVIOUS
<1> QED BY <1>1 DEF listsOnce

\* What is in a list with one more.
LEMMA AppendedEntries ==
    ASSUME NEW S, NEW list \in Seq(S), NEW d
    PROVE  {Append(list, d)[n] : n \in DOMAIN Append(list, d)}
              = {list[n] : n \in DOMAIN list} \cup {d}
<1>1. /\ Len(list) \in Nat /\ DOMAIN list = 1 .. Len(list)
      /\ DOMAIN Append(list, d) = 1 .. Len(list) + 1
      /\ \A n \in DOMAIN list : Append(list, d)[n] = list[n]
      /\ Append(list, d)[Len(list) + 1] = d
    OBVIOUS
<1> QED BY <1>1

\* The first of a list is not among the others.
LEMMA TailOnce ==
    ASSUME NEW S, NEW list \in Seq(S), list # <<>>, listsOnce(list)
    PROVE  /\ listsOnce(Tail(list))
           /\ {Tail(list)[n] : n \in DOMAIN Tail(list)} = {list[n] : n \in DOMAIN list} \ {Head(list)}
<1>1. /\ Len(list) \in Nat /\ Len(list) >= 1 /\ DOMAIN list = 1 .. Len(list)
      /\ DOMAIN Tail(list) = 1 .. Len(list) - 1
      /\ \A n \in DOMAIN Tail(list) : Tail(list)[n] = list[n + 1]
      /\ Head(list) = list[1]
    OBVIOUS
<1>2. listsOnce(Tail(list))
    BY <1>1 DEF listsOnce
<1> DEFINE rest == Tail(list)
           head == Head(list)
<1>3. \A n \in DOMAIN rest : n + 1 \in DOMAIN list /\ rest[n] = list[n + 1] /\ list[n + 1] # head
    BY <1>1 DEF listsOnce
<1>4. \A n \in DOMAIN list : list[n] # head => n - 1 \in DOMAIN rest /\ rest[n - 1] = list[n]
    BY <1>1
<1> HIDE DEF rest, head
<1>5. {rest[n] : n \in DOMAIN rest} = {list[n] : n \in DOMAIN list} \ {head}
    BY <1>3, <1>4
<1> QED BY <1>2, <1>5 DEF rest, head

\* The combinations of an edge that has not been marked differ.
LEMMA CombinationsDiffer ==
    ASSUME NEW S, marked \in Seq(S), listsOnce(marked), NEW d, \A m \in DOMAIN marked : marked[m] # d,
           NEW b \in combinations(d), NEW c \in combinations(d),
           b.rule = c.rule, linksOf(b, d) = linksOf(c, d)
    PROVE  b = c
<1>1. /\ b \in Combination /\ c \in Combination
      /\ (b.side = Alone /\ b.at = 0) \/ (b.side \in {Behind, Before} /\ b.at \in DOMAIN marked)
      /\ (c.side = Alone /\ c.at = 0) \/ (c.side \in {Behind, Before} /\ c.at \in DOMAIN marked)
    BY DEF combinations, markedInto, markedOutOf
<1> DEFINE links == linksOf(b, d)
<1>2. ASSUME NEW x, linksOf(x, d) = links
      PROVE  /\ x.side = Alone => Len(links) = 1
             /\ x.side = Behind => Len(links) = 2 /\ links[1] = marked[x.at] /\ links[2] = d
             /\ x.side = Before => Len(links) = 2 /\ links[1] = d /\ links[2] = marked[x.at]
    <2>1. /\ x.side = Alone => linksOf(x, d) = <<d>>
          /\ x.side = Behind => linksOf(x, d) = <<marked[x.at], d>>
          /\ x.side = Before => linksOf(x, d) = <<d, marked[x.at]>>
        BY DEF linksOf, Alone, Behind, Before
    <2>2. \A e, f : /\ Len(<<e>>) = 1 /\ Len(<<e, f>>) = 2
                   /\ <<e, f>>[1] = e /\ <<e, f>>[2] = f
        OBVIOUS
    <2> QED BY <1>2, <2>1, <2>2
<1> HIDE DEF links
<1>3. /\ b.side = Alone => Len(links) = 1
      /\ b.side = Behind => Len(links) = 2 /\ links[1] = marked[b.at] /\ links[2] = d
      /\ b.side = Before => Len(links) = 2 /\ links[1] = d /\ links[2] = marked[b.at]
      /\ c.side = Alone => Len(links) = 1
      /\ c.side = Behind => Len(links) = 2 /\ links[1] = marked[c.at] /\ links[2] = d
      /\ c.side = Before => Len(links) = 2 /\ links[1] = d /\ links[2] = marked[c.at]
    BY <1>2 DEF links
<1>4. b.side = c.side /\ b.at = c.at
    BY <1>1, <1>3 DEF listsOnce, Alone, Behind, Before
<1> QED BY <1>1, <1>4 DEF Combination

\* The planes of an edge of the input.
planesGiven(k) ==
    LET next == chart.input[k]
    IN  IF onlyPlaneTags(next.tags) = {}
        THEN UNION {onlyPlaneTags(edges[next.over[n]].tags) : n \in DOMAIN next.over}
        ELSE onlyPlaneTags(next.tags)

\* Edge e is edge k of the input.
isGivenAs(e, k) ==
    LET next == chart.input[k]
    IN  /\ edges[e].from = next.from /\ edges[e].to = next.to /\ edges[e].item = next.item
        /\ onlyPlaneTags(edges[e].tags) = planesGiven(k)

\* The edges that are given have one partition each: as long as an edge is given that is
\* there already, no other one is.
GivenOnce ==
    phase = "prepare" =>
        \/ \A e \in DOMAIN edges : Len(edges[e].partitions) = 1
        \/ \E e \in DOMAIN edges : Len(edges) < Len(chart.input) /\ isGivenAs(e, Len(edges) + 1)

\* Where an edge of the input is merged into.
LEMMA GivenIsMerged ==
    ASSUME ChartInv, call = NoCall, text # <<>>, NEW k \in DOMAIN chart.input,
           NEW new, new = given(k)
    PROVE  \A e \in DOMAIN edges : mergedInto(new) = Explicit(e) <=> isGivenAs(e, k)
<1> DEFINE next   == chart.input[k]
           planes == UNION {onlyPlaneTags(edges[next.over[n]].tags) : n \in DOMAIN next.over}
<1>1. /\ new.from = next.from /\ new.to = next.to /\ new.item = next.item
      /\ new.tags = next.tags /\ new.sequence = sequenceOver(next)
    BY DEF given
<1>2. gatherPlaneTags(new.sequence) = planes
    <2>1. CASE next.over # <<>>
        <3> DEFINE path == [n \in DOMAIN next.over |-> Explicit(next.over[n])]
        <3>1. /\ DOMAIN path = DOMAIN next.over
              /\ \A n \in DOMAIN path : getEdgeLayerTags(path[n]) = edges[next.over[n]].tags
              /\ \A n \in DOMAIN path : ~isEdgeHidden(path[n])
            BY DEF Explicit, isExplicit, getEdgeLayerTags, isEdgeHidden
        <3>2. sequenceOver(next) = build(path)
            BY <2>1 DEF sequenceOver
        <3>3. 1 \in DOMAIN path
            <4>1. next.over \in Seq(Nat)
                BY InputFields DEF ChartInv, Words
            <4> QED BY <2>1, <3>1, <4>1
        <3> HIDE DEF path
        <3>4. sequenceOver(next) = [links |-> path, begin |-> 0, end |-> 0]
            BY <3>1, <3>2, <3>3 DEF build
        <3>5. gatherPlaneTags(new.sequence) = UNION {onlyPlaneTags(getEdgeLayerTags(path[n])) : n \in DOMAIN path}
            BY <1>1, <3>4 DEF gatherPlaneTags
        <3> QED BY <3>1, <3>5
    <2>2. CASE next.over = <<>>
        <3> DEFINE path == [i \in 1 .. next.to - next.from |-> Implicit(next.from + i - 1)]
        <3>1. \A n \in DOMAIN path : onlyPlaneTags(getEdgeLayerTags(path[n])) = {}
            BY TagAssumption DEF Implicit, isExplicit, getEdgeLayerTags, onlyPlaneTags
        <3>2. sequenceOver(next) = build(path)
            BY <2>2 DEF sequenceOver
        <3>3. planes = {}
            BY <2>2
        <3> HIDE DEF path, planes
        <3>4. sequenceOver(next).links \in {<<>>, path}
            BY <3>2 DEF build
        <3>5. \A n \in DOMAIN new.sequence.links :
                 onlyPlaneTags(getEdgeLayerTags(new.sequence.links[n])) = {}
            BY <1>1, <3>1, <3>4
        <3> QED BY <3>3, <3>5 DEF gatherPlaneTags
    <2> QED BY <2>1, <2>2
<1>3. onlyPlaneTags(tagsOf(new)) = planesGiven(k)
    <2>1. planes \cap PlaneTag = planes
        BY DEF onlyPlaneTags
    <2>2. planesGiven(k) = IF onlyPlaneTags(next.tags) = {} THEN planes ELSE onlyPlaneTags(next.tags)
        BY DEF planesGiven
    <2>3. tagsOf(new) = IF onlyPlaneTags(next.tags) = {} THEN next.tags \cup planes ELSE next.tags
        BY <1>1, <1>2 DEF tagsOf, inheritedTags
    <2> HIDE DEF planes
    <2>4. onlyPlaneTags(next.tags) = {} => onlyPlaneTags(next.tags \cup planes) = planes
        BY <2>1 DEF onlyPlaneTags
    <2> QED BY <2>2, <2>3, <2>4
<1>4. new.item.category \in Category
    BY <1>1, InputFields DEF ChartInv, Words
<1> SUFFICES ASSUME NEW e \in DOMAIN edges
             PROVE  mergedInto(new) = Explicit(e) <=> isGivenAs(e, k)
    OBVIOUS
<1>5. mergedInto(new) = Explicit(e) <=>
         /\ <<edges[e].from, edges[e].to, edges[e].item>> = keyOf(new)
         /\ areInTheSamePlane(tagsOf(new), edges[e].tags)
    BY <1>4, HitIsTheOne DEF ChartInv, Words, Inv
<1>6. <<edges[e].from, edges[e].to, edges[e].item>> = keyOf(new)
         <=> edges[e].from = next.from /\ edges[e].to = next.to /\ edges[e].item = next.item
    BY <1>1 DEF keyOf
<1> QED BY <1>3, <1>5, <1>6 DEF areInTheSamePlane, isGivenAs

\* While no edge is added nothing changes of them.
LEMMA GivenSame ==
    ASSUME GivenOnce, UNCHANGED <<chart, phase, edges>>
    PROVE  GivenOnce'
<1>1. \A k : planesGiven(k)' = planesGiven(k)
    BY DEF planesGiven
<1>2. \A e, k : isGivenAs(e, k)' = isGivenAs(e, k)
    BY <1>1 DEF isGivenAs
<1> QED BY <1>2 DEF GivenOnce

\* Reading the text gives no edges.
LEMMA ReadingGivesOnce ==
    ASSUME ChartInv, GivenOnce, ReadsText \/ ReadsSymbol
    PROVE  GivenOnce'
<1>1. UNCHANGED <<chart, phase>>
    BY DEF ReadsText, ReadsSymbol, parserVars
<1>2. UNCHANGED edges
    <2>1. CASE ReadsText
        BY <2>1, TextKeepsWords DEF ChartInv, ReadsText, parserVars, latticeVars
    <2>2. CASE ReadsSymbol
        BY <1>1, <2>2, SymbolKeepsWords DEF ChartInv, ReadsSymbol
    <2> QED BY <2>1, <2>2
<1> QED BY <1>1, <1>2, GivenSame

\* An edge that is given is new, is refused, or stays the next one for ever.
LEMMA GettingGivesOnce ==
    ASSUME ChartInv, GivenOnce, GetsEdge
    PROVE  GivenOnce'
<1>0. PICK k : k = Len(edges) + 1
    OBVIOUS
<1> DEFINE new   == given(k)
           score == chart.input[k].score
<1>1. /\ phase = "prepare" /\ text # <<>> /\ Len(edges) < Len(chart.input)
      /\ UNCHANGED <<chart, phase>>
      /\ AddEdge(new.from, new.to, new.item, new.tags, new.sequence, score)
    BY <1>0 DEF GetsEdge, parserVars, given
<1>2. call = NoCall
    BY <1>1 DEF AddEdge, Idle
<1>3. /\ k \in DOMAIN chart.input /\ Len(edges) \in Nat /\ Len(chart.input) \in Nat
      /\ DOMAIN edges = 1 .. Len(edges) /\ edges \in Seq(EdgeEntry)
    <2>1. edges \in Seq(EdgeEntry) /\ chart.input \in Seq(Input)
        BY ChartFields DEF ChartInv, Words, Inv, LatticeInv, LatticeTypeOK
    <2> QED BY <1>0, <1>1, <2>1
<1>4. isWord(new)
    BY <1>1, <1>2, <1>3, GivenIsWord DEF ChartInv
<1>5. \A e \in DOMAIN edges : mergedInto(new) = Explicit(e) <=> isGivenAs(e, k)
    BY <1>1, <1>2, <1>3, GivenIsMerged
<1>6. OnlyGrow
    <2>1. /\ new.item \in AnnotationItem /\ new.from \in Vertices /\ new.to \in Vertices
          /\ new.sequence \in EdgeSequence /\ restsOn(new.sequence, Len(edges) + 1) /\ score \in Int
        BY <1>0, <1>1, <1>2, <1>3, GivenIsWord, InputFields DEF ChartInv, Words
    <2> HIDE DEF new, score
    <2> QED BY <1>1, <1>4, <2>1, WordKeepsWords DEF ChartInv
<1> HIDE DEF new, score
<1>7. \/ UNCHANGED edges
      \/ mergedInto(new) = NoEdge /\ Inserted(new, score)
      \/ \E e \in DOMAIN edges : mergedInto(new) = Explicit(e) /\ Merged(e, new, score)
    BY <1>1, <1>4, WordAdded DEF ChartInv, Words, Inv, AddEdge
<1>8. CASE UNCHANGED edges
    BY <1>1, <1>8, GivenSame
<1>9. CASE mergedInto(new) = NoEdge /\ Inserted(new, score)
    <2>1. \A e \in DOMAIN edges : ~isGivenAs(e, k)
        <3>1. \A e : Explicit(e) # NoEdge
            BY DEF Explicit, NoEdge
        <3> QED BY <1>5, <1>9, <3>1
    <2>2. \A e \in DOMAIN edges : Len(edges[e].partitions) = 1
        BY <1>0, <1>1, <2>1 DEF GivenOnce
    <2>3. edges' = Append(edges, entryOf(new, score))
        BY <1>9 DEF Inserted
    <2>4. Len(entryOf(new, score).partitions) = 1
        BY DEF entryOf
    <2>5. \A e \in DOMAIN edges' : edges'[e] = entryOf(new, score) \/ (e \in DOMAIN edges /\ edges'[e] = edges[e])
        <3> HIDE DEF EdgeEntry
        <3> QED BY <1>3, <2>3
    <2> QED BY <2>2, <2>4, <2>5 DEF GivenOnce
<1>10. CASE \E e \in DOMAIN edges : mergedInto(new) = Explicit(e) /\ Merged(e, new, score)
    <2>1. PICK e \in DOMAIN edges : mergedInto(new) = Explicit(e) /\ Merged(e, new, score)
        BY <1>10
    <2>2. isGivenAs(e, k)
        BY <1>5, <2>1
    <2>3. e \in DOMAIN edges' /\ Len(edges') = Len(edges)
        BY <1>3, <2>1 DEF Merged
    <2>4. \A d \in DOMAIN edges : /\ edges'[d].from = edges[d].from /\ edges'[d].to = edges[d].to
                                  /\ edges'[d].item = edges[d].item
                                  /\ onlyPlaneTags(edges'[d].tags) = onlyPlaneTags(edges[d].tags)
        BY <1>6 DEF OnlyGrow, areInTheSamePlane
    <2>5. planesGiven(k)' = planesGiven(k)
        <3> DEFINE over == chart.input[k].over
        <3>1. \A n \in DOMAIN over : over[n] \in DOMAIN edges
            BY <1>0, <1>3, InputFields DEF ChartInv, Words
        <3>2. {onlyPlaneTags(edges'[over[n]].tags) : n \in DOMAIN over}
                 = {onlyPlaneTags(edges[over[n]].tags) : n \in DOMAIN over}
            BY <2>4, <3>1
        <3> QED BY <1>1, <2>3, <3>2 DEF planesGiven
    <2>6. isGivenAs(e, k)'
        BY <1>1, <2>2, <2>4, <2>5 DEF isGivenAs
    <2> QED BY <1>0, <1>1, <2>3, <2>6 DEF GivenOnce
<1> QED BY <1>7, <1>8, <1>9, <1>10

\* As long as the parser has not begun its lists are empty.
LEMMA EmptyIsOnce == Prepared /\ phase = "prepare" => QueuedOnce /\ PendingOnce
<1> SUFFICES ASSUME Prepared, phase = "prepare" PROVE QueuedOnce /\ PendingOnce
    OBVIOUS
<1>1. agenda = <<>> /\ marked = <<>> /\ combos = {}
    BY DEF Prepared
<1>2. DOMAIN agenda = {} /\ DOMAIN marked = {}
    BY <1>1
<1> QED BY <1>1, <1>2 DEF QueuedOnce, PendingOnce, listsOnce, Waiting

\* The agenda is filled with different edges.
LEMMA FillingQueuesOnce ==
    ASSUME ChartInv, Fills
    PROVE  QueuedOnce' /\ PendingOnce'
<1>1. /\ agenda' \in [1 .. Cardinality(initialEdges) -> initialEdges]
      /\ vertexByVertex(agenda')
      /\ UNCHANGED <<current, combos, marked>>
      /\ marked = <<>> /\ current = NoEdge /\ combos = {}
    BY DEF Fills, ChartInv, Prepared
<1>2. \A d \in initialEdges : getEdgeSource(d) \in Int /\ d.at \in Int
    <2>1. Vertices \subseteq Int /\ DOMAIN edges \subseteq Int
        BY DEF Vertices, ChartInv, Words, Inv, LatticeInv, LatticeTypeOK
    <2> QED BY <2>1, InitialEdges, ChartEdgeFields DEF ChartInv
<1>3. PICK list : list = agenda'
    OBVIOUS
<1>4. listsOnce(list)
    <2> DEFINE n == Cardinality(initialEdges)
    <2>1. n \in Nat
        BY InitialEdges DEF ChartInv
    <2>2. list \in [1 .. n -> initialEdges] /\ DOMAIN list = 1 .. n
        BY <1>1, <1>3
    <2>3. vertexByVertex(list)
        BY <1>1, <1>3 DEF vertexByVertex
    <2> HIDE DEF n
    <2>4. ASSUME NEW i \in 1 .. n, NEW j \in 1 .. n, i < j PROVE list[i] # list[j]
        <3>1. \/ getEdgeSource(list[i]) < getEdgeSource(list[j])
              \/ list[i].at < list[j].at
            BY <2>2, <2>3, <2>4 DEF vertexByVertex
        <3>2. list[i] \in initialEdges
            BY <2>2
        <3> QED BY <1>2, <3>1, <3>2
    <2> QED BY <2>1, <2>2, <2>4 DEF listsOnce
<1>5. marked' = <<>> /\ Taken' = {} /\ combos' = {} /\ listsOnce(agenda')
    BY <1>1, <1>3, <1>4 DEF Taken
<1>6. listsOnce(marked')
    BY <1>5 DEF listsOnce
<1> QED BY <1>5, <1>6 DEF QueuedOnce, PendingOnce, listsOnce

\* The edge that is taken no longer waits, and its combinations differ.
LEMMA TakingQueuesOnce ==
    ASSUME ChartInv, QueuedOnce, Takes
    PROVE  QueuedOnce' /\ PendingOnce'
<1> DEFINE taken == Head(agenda)
<1>1. /\ current = NoEdge /\ agenda # <<>> /\ agenda' = Tail(agenda) /\ UNCHANGED marked
      /\ \/ current' = taken /\ combos' = combinations(taken)
         \/ current' = NoEdge /\ combos' = {}
    BY DEF Takes, At
<1>2. agenda \in Seq(ChartEdges) /\ marked \in Seq(ChartEdges)
    BY DEF ChartInv, Lists
<1>3. listsOnce(agenda') /\ Waiting' = Waiting \ {taken}
    <2> HIDE DEF ChartEdges
    <2> QED BY <1>1, <1>2, TailOnce DEF QueuedOnce, Waiting
<1>4. taken \in Waiting /\ taken \in ChartEdges
    <2>1. 1 \in DOMAIN agenda /\ agenda[1] = taken /\ taken \in ChartEdges
        <3> HIDE DEF ChartEdges
        <3> QED BY <1>1, <1>2
    <2> QED BY <2>1 DEF Waiting
<1>5. taken \notin Taken
    BY <1>4 DEF QueuedOnce
<1> HIDE DEF taken
<1>6. \A m \in DOMAIN marked : marked[m] # taken
    BY <1>5 DEF Taken
<1>7. \A m \in DOMAIN marked : marked[m] # NoEdge
    <2>1. \A m \in DOMAIN marked : marked[m] \in ChartEdges
        <3> HIDE DEF ChartEdges
        <3> QED BY <1>2
    <2> QED BY <2>1, ChartEdgeFields DEF ChartInv
<1>8. QueuedOnce'
    <2>1. Waiting' \cap Taken' = {}
        BY <1>1, <1>3, <1>5 DEF QueuedOnce, Taken
    <2>2. \A m \in DOMAIN marked' : marked'[m] # current'
        BY <1>1, <1>6, <1>7
    <2> QED BY <1>1, <1>3, <2>1, <2>2 DEF QueuedOnce, listsOnce
<1>9. PendingOnce'
    <2> SUFFICES ASSUME NEW b \in combos', NEW c \in combos', b.rule = c.rule,
                        linksOf(b, current)' = linksOf(c, current)'
                 PROVE  b = c
        BY DEF PendingOnce
    <2>1. /\ b \in combinations(taken) /\ c \in combinations(taken)
          /\ linksOf(b, taken) = linksOf(c, taken)
        BY <1>1 DEF linksOf
    <2> HIDE DEF ChartEdges
    <2> QED BY <1>2, <1>6, <2>1, CombinationsDiffer DEF QueuedOnce
<1> QED BY <1>8, <1>9

\* Only a new edge is appended to the agenda.
LEMMA CombiningQueuesOnce ==
    ASSUME ChartInv, QueuedOnce, PendingOnce, Combines
    PROVE  QueuedOnce' /\ PendingOnce'
<1>1. PICK c \in combos : Made(c, linksOf(c, current))
    BY CombinationMade
<1>2. UNCHANGED <<current, marked>> /\ combos' \subseteq combos
    BY <1>1, CombinationMade DEF Made
<1>3. UNCHANGED agenda \/ agenda' = Append(agenda, Explicit(Len(edges) + 1))
    BY <1>1 DEF Made, Dropped, Added
<1>4. agenda \in Seq(ChartEdges) /\ Waiting \subseteq ChartEdges /\ Taken \subseteq ChartEdges
    <2>1. agenda \in Seq(ChartEdges)
        BY DEF ChartInv, Lists
    <2>2. Waiting \subseteq ChartEdges
        <3> HIDE DEF ChartEdges
        <3> QED BY <2>1 DEF Waiting
    <2> QED BY <2>1, <2>2, TakenOnChart
<1>5. Explicit(Len(edges) + 1) \notin ChartEdges
    <2>1. Len(edges) + 1 \notin DOMAIN edges
        BY DEF ChartInv, Words, Inv, LatticeInv, LatticeTypeOK
    <2>2. \A e, f : Explicit(e) = Explicit(f) => e = f
        BY DEF Explicit
    <2> QED BY <2>1, <2>2 DEF ChartEdges
<1>6. PICK new : new = Explicit(Len(edges) + 1)
    OBVIOUS
<1>7. listsOnce(agenda') /\ Waiting' \subseteq Waiting \cup {new}
    <2>1. CASE UNCHANGED agenda
        BY <2>1 DEF QueuedOnce, Waiting
    <2>2. CASE agenda' = Append(agenda, new)
        <3>1. \A n \in DOMAIN agenda : agenda[n] # new
            BY <1>4, <1>5, <1>6 DEF Waiting
        <3> HIDE DEF ChartEdges
        <3> QED BY <1>4, <2>2, <3>1, AppendedOnce, AppendedEntries DEF QueuedOnce, Waiting
    <2> QED BY <1>3, <1>6, <2>1, <2>2
<1>8. QueuedOnce'
    <2>1. Taken' = Taken
        BY <1>2 DEF Taken
    <2>2. Waiting' \cap Taken' = {}
        BY <1>4, <1>5, <1>6, <1>7, <2>1 DEF QueuedOnce
    <2> QED BY <1>2, <1>7, <2>2 DEF QueuedOnce
<1>9. PendingOnce'
    BY <1>2 DEF PendingOnce, linksOf
<1> QED BY <1>8, <1>9

\* The edge that is marked had not been before.
LEMMA RestQueuesOnce ==
    ASSUME ChartInv, QueuedOnce, PendingOnce, Marks \/ Ends \/ UNCHANGED chartVars
    PROVE  QueuedOnce' /\ PendingOnce'
<1>1. CASE Marks
    <2>1. /\ current # NoEdge /\ combos = {} /\ UNCHANGED <<agenda, combos>>
          /\ marked' = Append(marked, current) /\ current' = NoEdge
        BY <1>1 DEF Marks
    <2>2. marked \in Seq(ChartEdges) /\ current \in ChartEdges
        BY <2>1 DEF ChartInv, Lists
    <2>3. listsOnce(marked') /\ {marked'[m] : m \in DOMAIN marked'} = {marked[m] : m \in DOMAIN marked} \cup {current}
        <3> HIDE DEF ChartEdges
        <3> QED BY <2>1, <2>2, AppendedOnce, AppendedEntries DEF QueuedOnce
    <2>4. Taken' = Taken
        BY <2>1, <2>3 DEF Taken
    <2>5. \A m \in DOMAIN marked' : marked'[m] # NoEdge
        <3>1. Taken \subseteq ChartEdges
            BY TakenOnChart
        <3>2. \A m \in DOMAIN marked' : marked'[m] \in Taken
            BY <2>4 DEF Taken
        <3> QED BY <3>1, <3>2, ChartEdgeFields DEF ChartInv
    <2> QED BY <2>1, <2>3, <2>4, <2>5 DEF QueuedOnce, PendingOnce, Waiting
<1>2. CASE Ends \/ UNCHANGED chartVars
    <2>1. UNCHANGED <<agenda, current, combos, marked>>
        BY <1>2 DEF Ends, chartVars, parserVars
    <2>2. Taken' = Taken /\ Waiting' = Waiting
        BY <2>1 DEF Taken, Waiting
    <2>3. \A c : linksOf(c, current)' = linksOf(c, current)
        BY <2>1 DEF linksOf
    <2>4. QueuedOnce'
        BY <2>1, <2>2 DEF QueuedOnce, listsOnce
    <2>5. PendingOnce'
        BY <2>1, <2>3 DEF PendingOnce
    <2> QED BY <2>4, <2>5
<1> QED BY <1>1, <1>2

\* The rules that have made edge e of these links.
applied(e, links) ==
    {i \in chart.grammar :
        /\ links \in Seq(Taken) /\ Len(links) \in {1, 2}
        /\ combinesAll(i, links) /\ isPath(links)
        /\ ~isPending(links, i)
        /\ leadsTo(links, i, e)
        /\ \A n \in DOMAIN links : links[n] # Explicit(e)}

\* Whatever a rule has made is a partition, and is so once.
Recorded ==
    \A e \in DOMAIN edges : \A links :
        Cardinality(recorded(e, links)) = Cardinality(applied(e, links))

OnceInv ==
    /\ QueuedOnce /\ PendingOnce /\ GivenOnce
    /\ isTokenized(chart) /\ phase # "prepare" /\ isUnlimited => Recorded

\* Rules and partitions can be counted.
LEMMA CountedSets ==
    ASSUME ChartInv, NEW e \in DOMAIN edges, NEW links
    PROVE  IsFiniteSet(recorded(e, links)) /\ IsFiniteSet(applied(e, links))
<1>1. edges[e].partitions \in Seq(Partition)
    BY EdgeFields DEF ChartInv, Words, Inv, LatticeInv
<1>2. IsFiniteSet(DOMAIN edges[e].partitions)
    <2>1. Len(edges[e].partitions) \in Nat /\ DOMAIN edges[e].partitions = 1 .. Len(edges[e].partitions)
        <3> HIDE DEF Partition
        <3> QED BY <1>1
    <2> QED BY <2>1, FS_Interval
<1>3. IsFiniteSet(chart.grammar)
    <2>1. chart.grammar \subseteq DOMAIN Rules /\ DOMAIN Rules = 1 .. Len(Rules) /\ Len(Rules) \in Nat
        BY ChartFields, ChartAssumption DEF ChartInv, Words
    <2>2. IsFiniteSet(1 .. Len(Rules))
        BY <2>1, FS_Interval
    <2> QED BY <2>1, <2>2, FS_Subset
<1>4. recorded(e, links) \subseteq DOMAIN edges[e].partitions
    BY DEF recorded
<1>5. applied(e, links) \subseteq chart.grammar
    BY DEF applied
<1> QED BY <1>2, <1>3, <1>4, <1>5, FS_Subset

\* While the edges stay as they are, nothing is recorded; what has been applied is what has
\* been taken and is no longer pending.
LEMMA RecordedSame ==
    ASSUME Recorded, UNCHANGED <<text, edges, chart>>,
           \A links, i :
              Len(links) \in {1, 2} /\ combinesAll(i, links) /\ isPath(links) =>
                 (links \in Seq(Taken) /\ ~isPending(links, i)
                    <=> links \in Seq(Taken') /\ ~isPending(links, i)')
    PROVE  Recorded'
<1>1. /\ \A d : /\ category(d)' = category(d) /\ getEdgeSource(d)' = getEdgeSource(d)
                /\ getEdgeTarget(d)' = getEdgeTarget(d)
      /\ \A links : isPath(links)' = isPath(links)
    BY SameChartEdges, SameFacts
<1>2. \A links, i : combinesAll(i, links)' = combinesAll(i, links)
    BY <1>1 DEF combinesAll
<1>3. \A links, i, e : leadsTo(links, i, e)' = leadsTo(links, i, e)
    <2>1. \A links : planeOf(links)' = planeOf(links)
        BY DEF planeOf
    <2> QED BY <1>1, <2>1 DEF leadsTo
<1>4. \A e, links : applied(e, links)' = applied(e, links)
    <2> SUFFICES ASSUME NEW e, NEW links, NEW i \in chart.grammar
                 PROVE  i \in applied(e, links)' <=> i \in applied(e, links)
        BY DEF applied
    <2> QED BY <1>1, <1>2, <1>3 DEF applied
<1>5. \A e, links : recorded(e, links)' = recorded(e, links)
    BY DEF recorded, isGiven
<1> QED BY <1>4, <1>5 DEF Recorded

\* At first nothing has been taken, and nothing recorded.
LEMMA FillingRecords ==
    ASSUME ChartInv, GivenOnce, Fills
    PROVE  Recorded'
<1>1. /\ phase = "prepare" /\ Len(edges) = Len(chart.input) /\ UNCHANGED <<edges, chart, current, marked>>
      /\ marked = <<>> /\ current = NoEdge
    BY FillingKeepsChart DEF Fills, ChartInv, Prepared
<1>2. \A e \in DOMAIN edges : Len(edges[e].partitions) = 1 /\ isGiven(e)
    <2>1. Len(edges) \in Nat /\ DOMAIN edges = 1 .. Len(edges)
        BY DEF ChartInv, Words, Inv, LatticeInv, LatticeTypeOK
    <2> QED BY <1>1, <2>1 DEF GivenOnce, isGiven
<1> SUFFICES ASSUME NEW e \in DOMAIN edges, NEW links
             PROVE  recorded(e, links)' = {} /\ applied(e, links)' = {}
    BY <1>1, FS_EmptySet DEF Recorded
<1>3. recorded(e, links)' = {}
    <2>1. edges[e].partitions \in Seq(Partition)
        BY EdgeFields DEF ChartInv, Words, Inv, LatticeInv
    <2>2. DOMAIN edges[e].partitions = 1 .. 1
        <3> HIDE DEF Partition
        <3> QED BY <1>2, <2>1
    <2>3. \A i \in DOMAIN edges[e].partitions : isGiven(e) /\ i = 1
        BY <1>2, <2>2
    <2>4. recorded(e, links) = {}
        BY <2>3 DEF recorded
    <2>5. recorded(e, links)' = recorded(e, links)
        BY <1>1 DEF recorded, isGiven
    <2> QED BY <2>4, <2>5
<1>4. applied(e, links)' = {}
    <2>1. Taken' = {}
        BY <1>1 DEF Taken
    <2>2. links \in Seq({}) => Len(links) \notin {1, 2}
        OBVIOUS
    <2> QED BY <2>1, <2>2 DEF applied
<1> QED BY <1>3, <1>4

\* All the paths that an edge opens when it is taken are pending.
LEMMA TakingRecords ==
    ASSUME ChartInv, SoundInv, OnceInv, Takes, isTokenized(chart)', isUnlimited'
    PROVE  Recorded'
<1> DEFINE taken == Head(agenda)
<1>1. /\ ChartInv' /\ UNCHANGED <<text, edges, edgeCounterHash, chart, marked>>
      /\ limitLevel' \in {limitLevel, limitLevel + 1}
      /\ taken \in ChartEdges
    BY TakingKeepsChart DEF Takes
<1>2. /\ phase = "parse" /\ current = NoEdge /\ agenda # <<>>
      /\ LET isCombined == /\ limitLevel' <= nbLimits
                           /\ edgeScore(taken) >= minScore(limitLevel')
         IN  /\ current' = IF isCombined THEN taken ELSE NoEdge
             /\ combos' = IF isCombined THEN combinations(taken) ELSE {}
    BY DEF Takes, At
<1>3. combos = {}
    BY <1>2 DEF ChartInv, Lists
<1>4. nbLimits' = nbLimits /\ nbLimits \in Nat /\ limitLevel' \in Nat
    BY <1>1, LimitFields DEF nbLimits, ChartInv, Lists
<1>5. isTokenized(chart) /\ isUnlimited
    BY <1>1, UnlimitedSame DEF isTokenized
<1>6. Recorded /\ Apart
    BY <1>2, <1>5 DEF OnceInv, SoundInv
<1>7. current' = taken /\ combos' = combinations(taken)
    <2>1. limitLevel' = 1 /\ limitLevel' <= nbLimits
        BY <1>4 DEF isUnlimited
    <2>2. edgeScore(taken) >= minScore(1)
        BY <1>1, <1>5, ScoresSuffice
    <2> QED BY <1>2, <2>1, <2>2
<1>8. taken \notin Taken
    <2>1. taken \in Waiting
        <3>1. agenda \in Seq(ChartEdges)
            BY DEF ChartInv, Lists
        <3>2. 1 \in DOMAIN agenda /\ agenda[1] = taken
            <4> HIDE DEF ChartEdges
            <4> QED BY <1>2, <3>1
        <3> QED BY <3>2 DEF Waiting
    <2> QED BY <2>1 DEF OnceInv, QueuedOnce
<1>9. taken # NoEdge
    BY <1>1, ChartEdgeFields DEF ChartInv
<1>10. Taken' = Taken \cup {taken} /\ Taken = {marked[m] : m \in DOMAIN marked}
    BY <1>1, <1>2, <1>7, <1>9 DEF Taken
<1> HIDE DEF taken
<1>11. ASSUME NEW links, NEW i, Len(links) \in {1, 2}, combinesAll(i, links), isPath(links)
       PROVE  links \in Seq(Taken) /\ ~isPending(links, i)
                 <=> links \in Seq(Taken') /\ ~isPending(links, i)'
    <2>1. ~isPending(links, i)
        BY <1>3 DEF isPending
    <2>2. ASSUME links \in Seq(Taken)
          PROVE  links \in Seq(Taken') /\ ~isPending(links, i)'
        <3>1. links \in Seq(Taken') /\ \A n \in DOMAIN links : links[n] \in Taken
            BY <1>10, <2>2, SequencesOfMore
        <3>2. ASSUME NEW c \in combos', linksOf(c, current)' = links
              PROVE  FALSE
            <4>1. c \in combinations(taken) /\ linksOf(c, taken) = links
                BY <1>1, <1>7, <3>2 DEF linksOf
            <4>2. c.side \in {Alone, Behind, Before}
                BY <4>1 DEF combinations, Combination
            <4>3. links \in {<<taken>>, <<marked[c.at], taken>>, <<taken, marked[c.at]>>}
                BY <4>1, <4>2 DEF linksOf, Alone, Behind, Before
            <4>4. \E n \in DOMAIN links : links[n] = taken
                <5>1. CASE links = <<taken>>
                    <6>1. 1 \in DOMAIN links /\ links[1] = taken
                        BY <5>1
                    <6> QED BY <6>1
                <5>2. CASE links = <<taken, marked[c.at]>>
                    <6>1. 1 \in DOMAIN links /\ links[1] = taken
                        BY <5>2
                    <6> QED BY <6>1
                <5>3. CASE links = <<marked[c.at], taken>>
                    <6>1. 2 \in DOMAIN links /\ links[2] = taken
                        BY <5>3
                    <6> QED BY <6>1
                <5> QED BY <4>3, <5>1, <5>2, <5>3
            <4> QED BY <1>8, <3>1, <4>4
        <3> QED BY <3>1, <3>2 DEF isPending
    <2>3. ASSUME links \in Seq(Taken'), ~isPending(links, i)'
          PROVE  links \in Seq(Taken)
        <3>1. Taken' \subseteq ChartEdges
            BY <1>1, <1>10, TakenOnChart
        <3>2. links \in Seq(ChartEdges) /\ \A n \in DOMAIN links : links[n] \in Taken'
            BY <2>3, <3>1, SequencesOfMore
        <3>3. ASSUME NEW k \in DOMAIN links, links[k] = taken
              PROVE  FALSE
            <4>1. i \in chart.grammar
                BY <1>11 DEF combinesAll
            <4>2. \A n \in DOMAIN links : links[n] = taken \/ \E m \in DOMAIN marked : links[n] = marked[m]
                BY <1>10, <3>2
            <4>3. PICK c \in combinations(taken) : c.rule = i /\ linksOf(c, taken) = links
                BY <1>1, <1>5, <1>6, <1>11, <3>2, <3>3, <4>1, <4>2, AllCombinations
            <4>4. linksOf(c, current)' = links
                BY <1>1, <1>7, <4>3 DEF linksOf
            <4> QED BY <1>7, <2>3, <4>3, <4>4 DEF isPending
        <3>4. \A n \in DOMAIN links : links[n] \in Taken
            BY <1>10, <3>2, <3>3
        <3> QED BY <2>3, <3>4, SequenceInto
    <2> QED BY <2>1, <2>2, <2>3
<1> QED BY <1>1, <1>6, <1>11, RecordedSame

\* Marking an edge applies nothing.
LEMMA RestRecords ==
    ASSUME ChartInv, OnceInv, Marks \/ Ends \/ UNCHANGED chartVars,
           isTokenized(chart)', (phase # "prepare")', isUnlimited'
    PROVE  Recorded'
<1>1. UNCHANGED <<text, edges, edgeCounterHash, chart, combos, limitLevel>>
    BY DEF Marks, Ends, chartVars, parserVars, vars, latticeVars
<1>2. phase # "prepare" /\ isTokenized(chart) /\ isUnlimited
    <2>1. phase # "prepare"
        <3>1. Marks => phase' = phase
            BY DEF Marks
        <3>2. Ends => phase = "parse"
            BY DEF Ends, At
        <3>3. UNCHANGED chartVars => phase' = phase
            BY DEF chartVars, parserVars
        <3> QED BY <3>1, <3>2, <3>3
    <2>2. ChartInv'
        BY RestKeepsChart
    <2> QED BY <1>1, <2>1, <2>2, UnlimitedSame DEF isTokenized
<1>3. Taken' = Taken /\ (combos # {} => UNCHANGED <<current, marked>>)
    <2>1. CASE Marks
        <3>1. /\ current # NoEdge /\ combos = {}
              /\ marked' = Append(marked, current) /\ current' = NoEdge
            BY <2>1 DEF Marks
        <3>2. marked \in Seq(ChartEdges)
            BY DEF ChartInv, Lists
        <3>3. {marked'[m] : m \in DOMAIN marked'} = {marked[m] : m \in DOMAIN marked} \cup {current}
            <4> HIDE DEF ChartEdges
            <4> QED BY <3>1, <3>2, AppendedEntries
        <3> QED BY <3>1, <3>3 DEF Taken
    <2>2. CASE Ends \/ UNCHANGED chartVars
        BY <2>2 DEF Ends, chartVars, parserVars, Taken
    <2> QED BY <2>1, <2>2
<1>4. \A links, i : isPending(links, i)' = isPending(links, i)
    <2>1. CASE combos = {}
        BY <1>1, <2>1 DEF isPending
    <2>2. CASE combos # {}
        <3>1. \A c : linksOf(c, current)' = linksOf(c, current)
            BY <1>3, <2>2 DEF linksOf
        <3> QED BY <1>1, <3>1 DEF isPending
    <2> QED BY <2>1, <2>2
<1> QED BY <1>1, <1>2, <1>3, <1>4, RecordedSame DEF OnceInv

\* One more partition.
LEMMA RecordedMore ==
    ASSUME ChartInv, UNCHANGED chart, NEW e \in DOMAIN edges, NEW p, NEW path, p.sequence.links = path,
           edges'[e].partitions = Append(edges[e].partitions, p)
    PROVE  /\ Cardinality(recorded(e, path)') = Cardinality(recorded(e, path)) + 1
           /\ \A links : links # path => recorded(e, links)' = recorded(e, links)
<1> DEFINE parts == edges[e].partitions
           more  == Append(parts, p)
           n     == Len(parts) + 1
<1>1. /\ parts \in Seq(Partition) /\ parts # <<>>
    BY EdgeFields DEF ChartInv, Words, Inv, LatticeInv, PartitionTagsHeld
<1>2. /\ n \in Nat /\ n > 1 /\ DOMAIN parts = 1 .. n - 1 /\ DOMAIN more = 1 .. n
      /\ \A i \in DOMAIN parts : more[i] = parts[i]
      /\ more[n] = p
    <2> HIDE DEF Partition
    <2>1. parts \in Seq(Partition \cup {p})
        BY <1>1
    <2> QED BY <1>1, <2>1, AppendEntries
<1> HIDE DEF parts, more, n
<1>3. \A links : recorded(e, links) = {i \in DOMAIN parts : parts[i].sequence.links = links /\ ~(isGiven(e) /\ i = 1)}
    BY DEF recorded, parts
<1>4. \A links : recorded(e, links)' = {i \in DOMAIN more : more[i].sequence.links = links /\ ~(isGiven(e) /\ i = 1)}
    BY DEF recorded, more, parts, isGiven
<1>5. recorded(e, path)' = recorded(e, path) \cup {n} /\ n \notin recorded(e, path)
    BY <1>2, <1>3, <1>4
<1>6. ASSUME NEW links, links # path PROVE recorded(e, links)' = recorded(e, links)
    <2> DEFINE before == {i \in DOMAIN parts : parts[i].sequence.links = links /\ ~(isGiven(e) /\ i = 1)}
               after  == {i \in DOMAIN more : more[i].sequence.links = links /\ ~(isGiven(e) /\ i = 1)}
    <2>1. \A i \in DOMAIN more : more[i].sequence.links = links => i \in DOMAIN parts
        BY <1>2, <1>6
    <2>2. after = before
        BY <1>2, <2>1
    <2>3. recorded(e, links) = before /\ recorded(e, links)' = after
        BY <1>3, <1>4
    <2> HIDE DEF before, after
    <2> QED BY <2>2, <2>3
<1>7. Cardinality(recorded(e, path) \cup {n}) = Cardinality(recorded(e, path)) + 1
    BY <1>5, CountedSets, FS_AddElement
<1> QED BY <1>5, <1>6, <1>7

\* No more is recorded of what does not change.
LEMMA RecordedKept ==
    ASSUME UNCHANGED chart, NEW e, edges'[e] = edges[e]
    PROVE  \A links : recorded(e, links)' = recorded(e, links)
BY DEF recorded, isGiven

\* A combination that is made of edges that have been taken.
TakenLinks(c, links, i) ==
    /\ c \in combos /\ Made(c, links) /\ links = linksOf(c, current) /\ i = c.rule
    /\ links \in Seq(Taken) /\ isPath(links)

\* When it has been made it is no longer pending, and nothing else changes of the paths.
LEMMA PendingAfter ==
    ASSUME ChartInv, PendingOnce, OnlyGrow, UNCHANGED <<chart, current, marked>>, isTokenized(chart),
           NEW c, NEW links, NEW i, TakenLinks(c, links, i)
    PROVE  /\ links \in Seq(ChartEdges) /\ links \in Seq(Taken) /\ Len(links) \in {1, 2}
           /\ i \in chart.grammar /\ combinesAll(i, links) /\ isPath(links) /\ isPending(links, i)
           /\ Dropped(links, i) \/ Added(product(links, i), scoreOf(links, i))
           /\ Taken' = Taken /\ Taken \subseteq ChartEdges
           /\ \A path, j : isPending(path, j)' <=> isPending(path, j) /\ ~(path = links /\ j = i)
           /\ \A path \in Seq(Taken) : Len(path) \in {1, 2} =>
                 /\ path \in Seq(ChartEdges) /\ \A n \in DOMAIN path : path[n] \in ChartEdges
                 /\ isPath(path)' = isPath(path)
                 /\ \A j : combinesAll(j, path)' = combinesAll(j, path)
<1>1. /\ links \in Seq(ChartEdges) /\ Len(links) \in {1, 2} /\ combinesAll(i, links) /\ isPath(links)
      /\ combos' = combos \ {c} /\ c \in combos /\ c.rule = i /\ linksOf(c, current) = links
      /\ Dropped(links, i) \/ Added(product(links, i), scoreOf(links, i))
      /\ links \in Seq(Taken) /\ i \in chart.grammar
    BY DEF TakenLinks, Made, combinesAll
<1>2. Taken' = Taken /\ Taken \subseteq ChartEdges
    BY TakenOnChart DEF Taken
<1>3. \A d : linksOf(d, current)' = linksOf(d, current)
    BY DEF linksOf
<1>4. isPending(links, i)
    BY <1>1 DEF isPending
<1>5. ASSUME NEW path, NEW j
      PROVE  isPending(path, j)' <=> isPending(path, j) /\ ~(path = links /\ j = i)
    <2>1. \A d \in combos : d.rule = i /\ linksOf(d, current) = links => d = c
        BY <1>1 DEF PendingOnce
    <2> QED BY <1>1, <1>3, <2>1 DEF isPending
<1>6. ASSUME NEW path \in Seq(Taken), Len(path) \in {1, 2}
      PROVE  /\ path \in Seq(ChartEdges) /\ \A n \in DOMAIN path : path[n] \in ChartEdges
             /\ isPath(path)' = isPath(path)
             /\ \A j : combinesAll(j, path)' = combinesAll(j, path)
    <2>1. path \in Seq(ChartEdges) /\ \A n \in DOMAIN path : path[n] \in ChartEdges
        BY <1>2, SequencesOfMore
    <2>2. isPath(path)' = isPath(path)
        <3>1. isPath(path) => isPath(path)'
            BY <1>6, <2>1, PathsKept
        <3>2. isPath(path)' => isPath(path)
            BY <1>1, <1>6, <2>1, NothingNearer
        <3> QED BY <3>1, <3>2 DEF isPath
    <2>3. \A j : combinesAll(j, path)' = combinesAll(j, path)
        <3>1. \A n \in DOMAIN path : category(path[n])' = category(path[n])
            BY <2>1, ChartEdgesKept DEF ChartInv
        <3> QED BY <3>1 DEF combinesAll
    <2> QED BY <2>1, <2>2, <2>3
<1> QED BY <1>1, <1>2, <1>4, <1>5, <1>6

\* Of the edges that are there, a combination applies one rule to one path, and has not before.
LEMMA AppliedMore ==
    ASSUME ChartInv, PendingOnce, OnlyGrow, UNCHANGED <<chart, current, marked>>, isTokenized(chart),
           NEW c, NEW links, NEW i, TakenLinks(c, links, i), NEW e \in DOMAIN edges
    PROVE  /\ \A path : path # links => applied(e, path)' = applied(e, path)
           /\ IF leadsTo(links, i, e) /\ \A n \in DOMAIN links : links[n] # Explicit(e)
              THEN applied(e, links)' = applied(e, links) \cup {i}
              ELSE applied(e, links)' = applied(e, links)
           /\ i \notin applied(e, links)
<1>1. /\ i \in chart.grammar /\ combinesAll(i, links) /\ isPath(links) /\ isPending(links, i)
      /\ links \in Seq(Taken) /\ Len(links) \in {1, 2} /\ Taken' = Taken
    BY PendingAfter
<1>2. \A path, j : isPending(path, j)' <=> isPending(path, j) /\ ~(path = links /\ j = i)
    BY PendingAfter
<1>3. ASSUME NEW path \in Seq(Taken), Len(path) \in {1, 2}, NEW j
      PROVE  /\ combinesAll(j, path)' = combinesAll(j, path) /\ isPath(path)' = isPath(path)
             /\ leadsTo(path, j, e)' = leadsTo(path, j, e)
    <2>1. /\ path \in Seq(ChartEdges)
          /\ combinesAll(j, path)' = combinesAll(j, path) /\ isPath(path)' = isPath(path)
        BY <1>3, PendingAfter
    <2> QED BY <1>3, <2>1, LeadsToTheSame
<1>4. ASSUME NEW path, NEW j \in chart.grammar
      PROVE  j \in applied(e, path)' <=>
                \/ j \in applied(e, path)
                \/ /\ path = links /\ j = i /\ leadsTo(links, i, e)
                   /\ \A n \in DOMAIN links : links[n] # Explicit(e)
    <2>1. CASE path \in Seq(Taken) /\ Len(path) \in {1, 2}
        BY <1>1, <1>2, <1>3, <2>1 DEF applied
    <2>2. CASE ~(path \in Seq(Taken) /\ Len(path) \in {1, 2})
        BY <1>1, <2>2 DEF applied
    <2> QED BY <2>1, <2>2
<1>5. \A path : applied(e, path) \subseteq chart.grammar /\ applied(e, path)' \subseteq chart.grammar
    BY DEF applied
<1>6. i \notin applied(e, links)
    BY <1>1 DEF applied
<1> QED BY <1>1, <1>4, <1>5, <1>6

\* What a new edge is made of.
LEMMA AppliedNew ==
    ASSUME ChartInv, PendingOnce, PairsMet, OnlyGrow, UNCHANGED <<chart, current, marked>>,
           isTokenized(chart),
           NEW c, NEW links, NEW i, TakenLinks(c, links, i),
           NEW score, Inserted(product(links, i), score), mergedInto(product(links, i)) = NoEdge,
           NEW e, e = Len(edges) + 1
    PROVE  \A path : applied(e, path)' = IF path = links THEN {i} ELSE {}
<1>1. /\ i \in chart.grammar /\ combinesAll(i, links) /\ isPath(links)
      /\ links \in Seq(Taken) /\ links \in Seq(ChartEdges) /\ Len(links) \in {1, 2} /\ Taken' = Taken
    BY PendingAfter
<1>2. \A path, j : isPending(path, j)' <=> isPending(path, j) /\ ~(path = links /\ j = i)
    BY PendingAfter
<1>3. leadsTo(links, i, e)' /\ ~isFound(links, i)
    BY <1>1, InsertedLeads, WhereItLeads
<1>4. \A n \in DOMAIN links : links[n] # Explicit(e)
    <2>1. e \notin DOMAIN edges
        BY DEF ChartInv, Words, Inv, LatticeInv, LatticeTypeOK
    <2>2. \A n \in DOMAIN links : links[n] \in ChartEdges
        BY <1>1, PendingAfter
    <2>3. \A n \in DOMAIN links : links[n].at \in DOMAIN edges
        BY <2>2, ChartEdgeFields DEF ChartInv
    <2> QED BY <2>1, <2>3 DEF Explicit
<1>5. i \in applied(e, links)'
    <2>1. combinesAll(i, links)' /\ isPath(links)' /\ ~isPending(links, i)'
        BY <1>1, PendingAfter
    <2> QED BY <1>1, <1>3, <1>4, <2>1 DEF applied
<1>6. ASSUME NEW path, NEW j, j \in applied(e, path)', ~(path = links /\ j = i)
      PROVE  FALSE
    <2>1. /\ j \in chart.grammar /\ path \in Seq(Taken) /\ Len(path) \in {1, 2}
          /\ combinesAll(j, path)' /\ isPath(path)' /\ ~isPending(path, j)' /\ leadsTo(path, j, e)'
        BY <1>1, <1>6 DEF applied
    <2>2. /\ path \in Seq(ChartEdges) /\ combinesAll(j, path) /\ isPath(path) /\ ~isPending(path, j)
        BY <1>2, <1>6, <2>1, PendingAfter
    <2>3. PICK f \in DOMAIN edges : leadsTo(path, j, f)
        BY <2>1, <2>2 DEF PairsMet, isFound
    <2>4. f \in DOMAIN edges' /\ leadsTo(path, j, f)'
        BY <2>1, <2>2, <2>3, LeadsToTheSame DEF OnlyGrow
    <2>5. leadsTo(links, i, f)'
        BY <1>3, <2>1, <2>4 DEF leadsTo
    <2>6. leadsTo(links, i, f)
        BY <1>1, <2>3, <2>5, LeadsToTheSame
    <2> QED BY <1>3, <2>3, <2>6 DEF isFound
<1>7. \A path : applied(e, path)' = IF path = links THEN {i} ELSE {}
    BY <1>5, <1>6
<1> QED BY <1>7

\* A combination that is applied is recorded once, where it leads.
LEMMA CombiningRecords ==
    ASSUME ChartInv, SoundInv, CompleteInv, OnceInv, Combines, isTokenized(chart)', isUnlimited'
    PROVE  Recorded'
<1>1. PICK c \in combos : Made(c, linksOf(c, current))
    BY CombinationMade
<1>2. /\ ChartInv' /\ OnlyGrow /\ phase = "parse" /\ current \in ChartEdges
      /\ UNCHANGED <<text, chart, phase, current, marked, limitLevel>>
    BY CombinationMade, CombiningKeepsChart
<1>3. isTokenized(chart)
    BY <1>2 DEF isTokenized
<1>4. PICK links, i : links = linksOf(c, current) /\ i = c.rule
    OBVIOUS
<1>5. PICK new, score : new = product(links, i) /\ score = scoreOf(links, i)
    OBVIOUS
<1>6. /\ links \in Seq(ChartEdges) /\ Len(links) \in {1, 2} /\ combinesAll(i, links)
      /\ Dropped(links, i) \/ Added(new, score)
    BY <1>1, <1>4, <1>5 DEF Made
<1>7. isUnlimited
    <2>1. ASSUME NEW e \in DOMAIN edges
          PROVE  e \in DOMAIN edges' /\ edges'[e].partitions[1] = edges[e].partitions[1]
        <3>1. edges[e].partitions \in Seq(Partition) /\ edges[e].partitions # <<>>
            BY EdgeFields DEF ChartInv, Words, Inv, LatticeInv, PartitionTagsHeld
        <3>2. 1 \in DOMAIN edges[e].partitions
            <4> HIDE DEF Partition
            <4> QED BY <3>1
        <3> QED BY <1>2, <3>2 DEF OnlyGrow
    <2>2. \/ UNCHANGED edgeCounterHash
          \/ Inserted(new, score)
          \/ \E e \in DOMAIN edges : Merged(e, new, score)
        BY <1>6 DEF Dropped, Added, vars, latticeVars
    <2>3. \A from, to : countEdges(from, to) <= countEdges(from, to)'
        BY <2>2, CountsGrow
    <2> QED BY <1>2, <2>1, <2>3, UnlimitedBefore
<1>8. PairsMet /\ CombosNext /\ Recorded /\ PendingOnce
    BY <1>2, <1>3, <1>7 DEF CompleteInv, SoundInv, OnceInv
<1>9. TakenLinks(c, links, i)
    <2>1. links \in Seq(Taken)
        <3>1. current \in Taken
            BY <1>2, ChartEdgeFields DEF ChartInv, Taken
        <3>2. marked \in Seq(Taken)
            <4>1. marked \in Seq(ChartEdges)
                BY DEF ChartInv, Lists
            <4>2. \A m \in DOMAIN marked : marked[m] \in Taken
                BY DEF Taken
            <4> QED BY <4>1, <4>2, SequenceInto
        <3>3. c.side \in {Alone, Behind, Before} /\ (c.side # Alone => c.at \in DOMAIN marked)
            BY DEF ChartInv, Combinable
        <3> QED BY <1>4, <3>1, <3>2, <3>3, LinksOfCombination
    <2>2. isPath(links)
        BY <1>4, <1>8 DEF CombosNext
    <2> QED BY <1>1, <1>4, <2>1, <2>2 DEF TakenLinks
<1>10. \A e \in DOMAIN edges :
          /\ \A path : path # links => applied(e, path)' = applied(e, path)
          /\ IF leadsTo(links, i, e) /\ \A n \in DOMAIN links : links[n] # Explicit(e)
             THEN applied(e, links)' = applied(e, links) \cup {i}
             ELSE applied(e, links)' = applied(e, links)
          /\ i \notin applied(e, links)
    BY <1>2, <1>3, <1>8, <1>9, AppliedMore
<1>11. \A e \in DOMAIN edges : mergedInto(new) = Explicit(e) <=> leadsTo(links, i, e)
    BY <1>5, <1>6, WhereItLeads
<1>12. \A e, f : Explicit(e) = Explicit(f) => e = f
    BY DEF Explicit
<1>13. new.sequence = [links |-> links, begin |-> 0, end |-> 0] /\ new.sequence.links = links
    <2>1. new.sequence = [links |-> links, begin |-> 0, end |-> 0]
        BY <1>5, <1>6, ProductIsWord DEF ChartInv, combinesAll
    <2> QED BY <2>1
<1>14. ASSUME NEW e \in DOMAIN edges, edges'[e] = edges[e],
              leadsTo(links, i, e) => \E n \in DOMAIN links : links[n] = Explicit(e)
       PROVE  \A path : Cardinality(recorded(e, path)') = Cardinality(applied(e, path)')
    <2>1. \A path : recorded(e, path)' = recorded(e, path)
        BY <1>2, <1>14, RecordedKept
    <2>2. \A path : applied(e, path)' = applied(e, path)
        BY <1>10, <1>14
    <2> QED BY <1>8, <2>1, <2>2 DEF Recorded
<1>15. CASE Dropped(links, i)
    <2>1. UNCHANGED edges
        BY <1>15 DEF Dropped, vars, latticeVars
    <2>2. PICK f \in DOMAIN edges : leadsTo(links, i, f) /\ \E n \in DOMAIN links : links[n] = Explicit(f)
        BY <1>6, <1>7, <1>9, <1>15, DroppedLeads DEF TakenLinks
    <2>3. \A e \in DOMAIN edges : leadsTo(links, i, e) => e = f
        BY <1>11, <1>12, <2>2
    <2> QED BY <1>14, <2>1, <2>2, <2>3 DEF Recorded
<1>16. CASE mergedInto(new) = NoEdge /\ Inserted(new, score)
    <2>0. PICK last : last = Len(edges) + 1
        OBVIOUS
    <2>1. /\ edges \in Seq(EdgeEntry) /\ Len(edges) \in Nat /\ DOMAIN edges = 1 .. Len(edges)
          /\ edges' = Append(edges, entryOf(new, score))
        BY <1>16 DEF Inserted, ChartInv, Words, Inv, LatticeInv, LatticeTypeOK
    <2>2. /\ \A e \in DOMAIN edges : edges'[e] = edges[e]
          /\ DOMAIN edges' = DOMAIN edges \cup {last}
          /\ edges'[last] = entryOf(new, score)
        <3> HIDE DEF EdgeEntry
        <3> QED BY <2>0, <2>1
    <2>3. \A e \in DOMAIN edges : ~leadsTo(links, i, e)
        <3>1. \A e : Explicit(e) # NoEdge
            BY DEF Explicit, NoEdge
        <3> QED BY <1>11, <1>16, <3>1
    <2>4. ASSUME NEW path
          PROVE  Cardinality(recorded(last, path)') = Cardinality(applied(last, path)')
        <3>1. applied(last, path)' = IF path = links THEN {i} ELSE {}
            BY <1>2, <1>3, <1>5, <1>8, <1>9, <1>16, <2>0, AppliedNew
        <3>2. recorded(last, path)' = IF path = links THEN {1} ELSE {}
            <4>1. chart'.input = chart.input /\ ~isGiven(last)'
                <5>1. Len(chart.input) \in Nat /\ Len(chart.input) <= Len(edges)
                    <6>1. chart.input \in Seq(Input)
                        BY ChartFields DEF ChartInv, Words
                    <6> QED BY <1>2, <6>1 DEF ChartInv, AsGiven
                <5> QED BY <1>2, <2>0, <2>1, <5>1 DEF isGiven
            <4>2. edges'[last].partitions =
                     <<[tags |-> tagsOf(new), sequence |-> new.sequence, score |-> score]>>
                BY <2>2 DEF entryOf
            <4>3. /\ DOMAIN edges'[last].partitions = {1}
                  /\ edges'[last].partitions[1].sequence.links = links
                <5> DEFINE first == [tags |-> tagsOf(new), sequence |-> new.sequence, score |-> score]
                <5>1. first.sequence.links = links
                    BY <1>13
                <5> HIDE DEF first
                <5>2. edges'[last].partitions = <<first>>
                    BY <4>2 DEF first
                <5> QED BY <5>1, <5>2
            <4> QED BY <4>1, <4>3 DEF recorded
        <3>3. Cardinality({1}) = 1 /\ Cardinality({i}) = 1
            BY FS_Singleton
        <3> QED BY <3>1, <3>2, <3>3
    <2> QED BY <1>14, <2>2, <2>3, <2>4 DEF Recorded
<1>17. CASE ~throws(new) /\ \E e \in DOMAIN edges : mergedInto(new) = Explicit(e) /\ Merged(e, new, score)
    <2>1. PICK f \in DOMAIN edges : mergedInto(new) = Explicit(f) /\ Merged(f, new, score)
        BY <1>17
    <2>2. /\ edges' = [edges EXCEPT ![f] = mergedEntry(f, new, score)]
          /\ DOMAIN edges' = DOMAIN edges
        BY <2>1 DEF Merged
    <2>3. \A e \in DOMAIN edges : e # f => edges'[e] = edges[e] /\ ~leadsTo(links, i, e)
        BY <1>11, <1>12, <2>1, <2>2
    <2>4. leadsTo(links, i, f) /\ \A n \in DOMAIN links : links[n] # Explicit(f)
        <3>2. links # <<>>
            BY <1>6
        <3>3. \A n \in DOMAIN links : links[n] \in SequenceEdges(new.sequence)
            BY <1>13, <3>2 DEF SequenceEdges
        <3>4. Explicit(f) # NoEdge
            BY DEF Explicit, NoEdge
        <3>5. Explicit(f) \notin SequenceEdges(new.sequence)
            BY <1>17, <2>1, <3>4 DEF throws, addEdgeThrows
        <3> QED BY <1>11, <2>1, <3>3, <3>5
    <2>5. ASSUME NEW path
          PROVE  Cardinality(recorded(f, path)') = Cardinality(applied(f, path)')
        <3> DEFINE p == [tags |-> edges[f].tags \cup tagsOf(new), sequence |-> new.sequence,
                         score |-> score]
        <3>1. edges'[f].partitions = Append(edges[f].partitions, p)
            <4> DEFINE best == betterScore(edges[f].score, score)
                       all  == edges[f].tags \cup tagsOf(new)
            <4>1. edges'[f] = [edges[f] EXCEPT !.tags = all, !.score = best,
                                               !.partitions = Append(edges[f].partitions, p)]
                BY <2>2 DEF mergedEntry
            <4>2. edges[f] \in EdgeEntry
                BY EdgeFields DEF ChartInv, Words, Inv, LatticeInv
            <4> HIDE DEF p, best, all
            <4> QED BY <4>1, <4>2 DEF EdgeEntry
        <3>2. p.sequence.links = links
            BY <1>13
        <3> HIDE DEF p
        <3>3. /\ Cardinality(recorded(f, links)') = Cardinality(recorded(f, links)) + 1
              /\ path # links => recorded(f, path)' = recorded(f, path)
            BY <1>2, <3>1, <3>2, RecordedMore
        <3>4. /\ applied(f, links)' = applied(f, links) \cup {i} /\ i \notin applied(f, links)
              /\ path # links => applied(f, path)' = applied(f, path)
            BY <1>10, <2>4
        <3>5. Cardinality(applied(f, links) \cup {i}) = Cardinality(applied(f, links)) + 1
            BY <3>4, CountedSets, FS_AddElement
        <3> QED BY <1>8, <3>3, <3>4, <3>5 DEF Recorded
    <2> QED BY <1>14, <2>2, <2>3, <2>5 DEF Recorded
<1> QED BY <1>6, <1>15, <1>16, <1>17 DEF Added

\* Every step keeps the invariant.
LEMMA NextIsOnce ==
    ASSUME ChartInv, SoundInv, CompleteInv, OnceInv, [ParserNext]_chartVars
    PROVE  OnceInv'
<1>1. CASE ReadsText \/ ReadsSymbol \/ GetsEdge
    <2>1. ChartInv' /\ phase' = "prepare"
        BY <1>1, ReadingKeepsChart, GettingKeepsChart
    <2>2. QueuedOnce' /\ PendingOnce'
        <3>1. (Prepared /\ phase = "prepare" => QueuedOnce /\ PendingOnce)'
            BY EmptyIsOnce, PTL
        <3> QED BY <2>1, <3>1 DEF ChartInv
    <2>3. GivenOnce'
        BY <1>1, ReadingGivesOnce, GettingGivesOnce DEF OnceInv
    <2> QED BY <2>1, <2>2, <2>3 DEF OnceInv
<1>2. CASE Fills
    <2>1. phase' # "prepare"
        BY <1>2 DEF Fills
    <2> QED BY <1>2, <2>1, FillingQueuesOnce, FillingRecords DEF OnceInv, GivenOnce
<1>3. CASE Takes
    <2>1. phase = "parse" /\ phase' # "prepare"
        BY <1>3 DEF Takes, At
    <2> QED BY <1>3, <2>1, TakingQueuesOnce, TakingRecords DEF OnceInv, GivenOnce
<1>4. CASE Combines
    <2>1. phase' # "prepare"
        BY <1>4, CombinationMade
    <2> QED BY <1>4, <2>1, CombiningQueuesOnce, CombiningRecords DEF OnceInv, GivenOnce
<1>5. CASE Marks \/ Ends \/ UNCHANGED chartVars
    <2>1. QueuedOnce' /\ PendingOnce'
        BY <1>5, RestQueuesOnce DEF OnceInv
    <2>2. GivenOnce'
        <3>1. UNCHANGED <<chart, edges>>
            BY <1>5 DEF Marks, Ends, chartVars, parserVars, vars, latticeVars
        <3>2. UNCHANGED phase \/ phase' = "done"
            BY <1>5 DEF Marks, Ends, chartVars, parserVars
        <3>3. CASE UNCHANGED phase
            BY <3>1, <3>3, GivenSame DEF OnceInv
        <3>4. CASE phase' = "done"
            BY <3>4 DEF GivenOnce
        <3> QED BY <3>2, <3>3, <3>4
    <2>3. (isTokenized(chart) /\ phase # "prepare" /\ isUnlimited)' => Recorded'
        BY <1>5, RestRecords
    <2> QED BY <2>1, <2>2, <2>3 DEF OnceInv
<1> QED BY <1>1, <1>2, <1>3, <1>4, <1>5 DEF ParserNext

\* When the parser has ended, what has been applied is all that there is to derive.
LEMMA AllApplied ==
    ASSUME ChartInv, CompleteInv, isTokenized(chart), phase = "done", isUnlimited,
           NEW e \in DOMAIN edges, NEW links \in paths
    PROVE  applied(e, links) = derivations(e, links)
<1>1. agenda = <<>> /\ combos = {}
    <2>1. nbLimits \in Nat /\ limitLevel = 1 /\ nbLimits >= 1
        BY LimitFields DEF isUnlimited
    <2>2. current = NoEdge /\ agenda = <<>>
        BY <2>1 DEF CompleteInv, Finished
    <2> QED BY <2>2 DEF ChartInv, Lists
<1>2. Waiting = {} /\ AllQueued
    BY <1>1 DEF CompleteInv, Waiting
<1> DEFINE explicit == {Explicit(d) : d \in DOMAIN edges}
<1>3. /\ links \in Seq(explicit) /\ Len(links) \in {1, 2} /\ isPath(links)
      /\ \A n \in DOMAIN links : links[n] \in explicit
    <2>1. \/ \E d \in explicit : links = <<d>>
          \/ \E c, d \in explicit : links = <<c, d>> /\ isNextTo(getEdgeTarget(c), getEdgeSource(d))
        BY DEF paths
    <2> HIDE DEF explicit
    <2>2. CASE \E d \in explicit : links = <<d>>
        BY <2>2 DEF isPath
    <2>3. CASE \E c, d \in explicit : links = <<c, d>> /\ isNextTo(getEdgeTarget(c), getEdgeSource(d))
        BY <2>3 DEF isPath
    <2> QED BY <2>1, <2>2, <2>3
<1>4. \A n \in DOMAIN links : onChart(links[n].at) <=> links[n] \in ChartEdges
    <2>1. \A d : Explicit(d).at = d
        BY DEF Explicit
    <2> QED BY <1>3, <2>1 DEF ChartEdges
<1>5. Taken \subseteq ChartEdges
    BY TakenOnChart
<1>6. ASSUME NEW i, combinesAll(i, links), \A n \in DOMAIN links : links[n] \in ChartEdges
      PROVE  links \in Seq(Taken)
    <2>1. \A n \in DOMAIN links : links[n] \in Taken
        BY <1>2, <1>6, RuleIsUseful DEF AllQueued
    <2> HIDE DEF explicit
    <2> QED BY <1>3, <2>1, SequenceInto
<1>7. ASSUME NEW i, combinesAll(i, links), links \in Seq(ChartEdges)
      PROVE  mergedInto(product(links, i)) = Explicit(e) <=> leadsTo(links, i, e)
    BY <1>3, <1>7, WhereItLeads
<1>8. ASSUME NEW i \in chart.grammar
      PROVE  i \in applied(e, links) <=> i \in derivations(e, links)
    <2>1. ASSUME i \in applied(e, links)
          PROVE  i \in derivations(e, links)
        <3>1. /\ links \in Seq(Taken) /\ combinesAll(i, links) /\ leadsTo(links, i, e)
              /\ \A n \in DOMAIN links : links[n] # Explicit(e)
            BY <2>1 DEF applied
        <3>2. links \in Seq(ChartEdges) /\ \A n \in DOMAIN links : links[n] \in ChartEdges
            BY <1>5, <3>1, SequencesOfMore
        <3>3. \A n \in DOMAIN links : onChart(links[n].at)
            BY <1>4, <3>2
        <3>4. mergedInto(product(links, i)) = Explicit(e)
            BY <1>7, <3>1, <3>2
        <3> QED BY <3>1, <3>3, <3>4 DEF derivations, combinesAll
    <2>2. ASSUME i \in derivations(e, links)
          PROVE  i \in applied(e, links)
        <3>1. /\ \A n \in DOMAIN links : links[n] # Explicit(e)
              /\ \A n \in DOMAIN links : onChart(links[n].at)
              /\ combinesAll(i, links)
              /\ mergedInto(product(links, i)) = Explicit(e)
            BY <2>2 DEF derivations, combinesAll
        <3>2. links \in Seq(Taken)
            BY <1>4, <1>6, <3>1
        <3>3. links \in Seq(ChartEdges)
            BY <1>5, <3>2, SequencesOfMore
        <3>4. leadsTo(links, i, e)
            BY <1>7, <3>1, <3>3
        <3> QED BY <1>1, <1>3, <3>1, <3>2, <3>4 DEF applied, isPending
    <2> QED BY <2>1, <2>2
<1>9. applied(e, links) \subseteq chart.grammar /\ derivations(e, links) \subseteq chart.grammar
    BY DEF applied, derivations
<1> QED BY <1>8, <1>9

\* When the parser has ended and no limit cut it short, the chart is a packed forest: an edge
\* has a partition for each way in which a rule makes it of others, and has it once, whatever
\* the text, the grammar and the order in which the edges were found.
THEOREM DerivationsRecorded == ParserSpec => [](isTokenized(chart) => DerivationsOnce)
<1> DEFINE AllInv == ChartInv /\ SoundInv /\ CompleteInv /\ OnceInv
<1>1. ParserInit => AllInv
    <2> SUFFICES ASSUME ParserInit PROVE AllInv
        OBVIOUS
    <2>1. ChartInv /\ phase = "prepare"
        BY InitChart DEF ParserInit
    <2>2. edges = <<>>
        BY DEF ParserInit, Init
    <2>3. QueuedOnce /\ PendingOnce
        BY <2>1, EmptyIsOnce DEF ChartInv
    <2>4. GivenOnce
        BY <2>2 DEF GivenOnce
    <2> QED BY <2>1, <2>3, <2>4, PreparedIsSound DEF CompleteInv, Finished, OnceInv
<1>2. AllInv /\ [ParserNext]_chartVars => AllInv'
    BY NextKeepsChart, NextIsSound, NextIsComplete, NextIsOnce
<1>3. AllInv => (isTokenized(chart) => DerivationsOnce)
    <2> SUFFICES ASSUME AllInv, isTokenized(chart), phase = "done", isUnlimited,
                        NEW e \in DOMAIN edges, NEW links \in paths
                 PROVE  Cardinality(recorded(e, links)) = Cardinality(derivations(e, links))
        BY DEF DerivationsOnce
    <2>1. Recorded
        BY DEF OnceInv
    <2> QED BY <2>1, AllApplied DEF Recorded
<1> QED BY <1>1, <1>2, <1>3, PTL DEF ParserSpec

=============================================================================
