----------------------------- MODULE ChartParser -----------------------------
(***************************************************************************)
(* The chart parser of gobio (tools/parsers/gobio): agenda_parser, the     *)
(* chart it keeps in the lattice, the index of its marked edges and the    *)
(* limits of both.                                                         *)
(*                                                                         *)
(* The edges of a mask go on an agenda.  The edge taken from it is         *)
(* combined, by the rules of a grammar, alone and with every marked edge   *)
(* on either side of it, where the blank between two words is skipped;     *)
(* then it is marked itself.  What comes out is added to the lattice, and  *)
(* goes on the agenda if it is a new edge: if there are more edges between *)
(* the two vertices than before.                                           *)
(*                                                                         *)
(* A rule names the categories of one or two edges, the category they      *)
(* make and a score.  The attributes of the categories, the variants and   *)
(* the trees that come with the rules are left out, as is everything the   *)
(* chooser does afterwards.                                                *)
(***************************************************************************)
EXTENDS Traversal

CONSTANTS
    Rules,       \* those the grammars are made of, in their order
    Charts,      \* what is parsed: a text, its edges, a grammar and limits
    Blank,       \* the category of blank tokens
    TokenTag,
    InputMask,   \* inputTagMask_
    ParseTags,   \* outputTags_
    MaxInt       \* std::numeric_limits<int>::max(), the threshold unless a grammar sets some

\* An edge of the lattice that is parsed: over symbols, or over other edges.
Input == [from : Nat, to : Nat, item : AnnotationItem, tags : Collection,
          over : Seq(Nat), score : Int]

\* thresholds with the scores asked for below them; the edges allowed between
\* two vertices by their distance, and beyond that.
Limits == [levels : Seq([threshold : Int, score : Int]),
           specs : Seq([argument : Int, limit : Int]), absolute : Int]

Chart == [text : Seq(Char), input : Seq(Input), grammar : SUBSET DOMAIN Rules,
          limits : Limits]

\* Every edge has its place in the text, and is made of edges before it; the
\* symbols are not among them.
isPlaced(c) ==
    \A k \in DOMAIN c.input :
        LET new == c.input[k]
        IN  /\ new.from < new.to /\ new.to <= Len(c.text)
            /\ new.item.category \in Category
            /\ Symbol \notin new.tags
            /\ \A n \in DOMAIN new.over : new.over[n] \in 1 .. k - 1

\* What the completeness of the chart rests on: blanks are tokens, one between two
\* words, of no rule; what is of use to a rule neither begins nor ends with one;
\* and an edge that a rule could have made is on the chart.
isTokenized(c) ==
    /\ \A i \in c.grammar :
          Rules[i].lhs # Blank /\ \A n \in DOMAIN Rules[i].rhs : Rules[i].rhs[n] # Blank
    /\ \A k \in DOMAIN c.input :
          /\ c.input[k].item.category = Blank => TokenTag \in c.input[k].tags
          /\ \/ matches(c.input[k].tags, InputMask)
             \/ \A i \in c.grammar : Rules[i].lhs # c.input[k].item.category
    /\ \A b, k \in DOMAIN c.input :
          LET blank == c.input[b]
              other == c.input[k]
          IN  blank.item.category = Blank =>
                 IF other.item.category = Blank
                 THEN /\ blank.to # other.from
                      /\ blank.from = other.from <=> blank.to = other.to
                 ELSE (\E i \in c.grammar :
                          \/ other.item.category = Rules[i].lhs
                          \/ \E n \in DOMAIN Rules[i].rhs : other.item.category = Rules[i].rhs[n])
                      => blank.from # other.from /\ blank.to # other.to

ASSUME ChartAssumption ==
    /\ Rules \in Seq([rhs : Seq(Category), lhs : Category, score : Int])
    /\ \A i \in DOMAIN Rules : Len(Rules[i].rhs) \in {1, 2}
    /\ Charts \subseteq {c \in Chart : isPlaced(c)}
    /\ Blank \in Category
    /\ TokenTag \in Tag
    /\ InputMask \in Mask
    /\ ParseTags \in Collection /\ Symbol \notin ParseTags

VARIABLES
    chart,      \* what is parsed
    phase,      \* "prepare", "parse" or "done"
    agenda,     \* the edges still to be taken
    current,    \* the edge that has been taken
    combos,     \* the combinations it is still to go into
    marked,     \* the edges that have been, in order
    nbTurns, limitLevel

parserVars == <<chart, phase, agenda, current, combos, marked, nbTurns, limitLevel>>
chartVars == <<vars, parserVars>>

category(edge) == getEdgeAnnotationItem(edge).category

edgeScore(edge) == IF isExplicit(edge) THEN edges[edge.at].score ELSE 0

ParserInit ==
    /\ Init
    /\ chart \in Charts
    /\ phase = "prepare"
    /\ agenda = <<>>
    /\ current = NoEdge
    /\ combos = {}
    /\ marked = <<>>
    /\ nbTurns = 0
    /\ limitLevel = 1

-----------------------------------------------------------------------------
(* The lattice is prepared by the workers before.                          *)

ReadsText ==
    /\ phase = "prepare" /\ text = <<>>
    /\ AppendStringWithSymbols(chart.text)
    /\ UNCHANGED parserVars

ReadsSymbol == AddSymbolsStep /\ UNCHANGED parserVars

sequenceOver(input) ==
    build(IF input.over # <<>> THEN [i \in DOMAIN input.over |-> Explicit(input.over[i])]
          ELSE [i \in 1 .. input.to - input.from |-> Implicit(input.from + i - 1)])

GetsEdge ==
    /\ phase = "prepare" /\ text # <<>>
    /\ Len(edges) < Len(chart.input)
    /\ LET next == chart.input[Len(edges) + 1]
       IN  AddEdge(next.from, next.to, next.item, next.tags, sequenceOver(next), next.score)
    /\ UNCHANGED parserVars

-----------------------------------------------------------------------------
(* The combinator.                                                         *)

\* combine_unary() and combine_binary(), the conditions on attributes left out; the
\* rules are tried in their order.
combine(categories) == {i \in chart.grammar : Rules[i].rhs = categories}

\* Symbols of no rule are of no use.
isUseful(c) ==
    \E i \in chart.grammar : c = Rules[i].lhs \/ \E n \in DOMAIN Rules[i].rhs : c = Rules[i].rhs[n]

nbLimits == Len(chart.limits.levels)

minScore(level) == chart.limits.levels[level].score

\* The first of the limits for that argument.
limitFor(argument) ==
    LET specs  == chart.limits.specs
        fit    == {n \in DOMAIN specs : specs[n].argument >= argument}
    IN  IF fit = {} THEN chart.limits.absolute
        ELSE specs[CHOOSE n \in fit : \A m \in fit : n <= m].limit

\* LimitChecker::isAllowed()
isAllowed(argument, value) == value <= limitFor(argument)

-----------------------------------------------------------------------------
(* The chart.                                                              *)

\* Blank tokens into a vertex, or out of it.
blanks(side, vertex) ==
    {e \in edgesIndex(side, vertex, {{TokenTag}}) : edges[e].item.category = Blank}

\* edge_source(edge, true): before all the blanks in front of the edge.
sourceBeforeBlanks(edge) ==
    LET source[v \in 0 .. Len(text)] ==
            IF blanks("in", v) = {} THEN v ELSE source[edges[firstIn(blanks("in", v))].from]
    IN  source[getEdgeSource(edge)]

\* Slip: no blank is skipped.
targetBehindBlank_Plain(edge) == getEdgeTarget(edge)

\* edge_target(edge, true): behind one blank after it.
targetBehindBlank(edge) ==
    LET v == getEdgeTarget(edge)
    IN  IF blanks("out", v) = {} THEN v ELSE edges[firstIn(blanks("out", v))].to

\* marked_edges_index(): the places in the order of marking of marked_in_edges()
\* and marked_out_edges().
markedInto(vertex) == {m \in DOMAIN marked : getEdgeTarget(marked[m]) = vertex}

markedOutOf(vertex) == {m \in DOMAIN marked : getEdgeSource(marked[m]) = vertex}

\* What a rule makes of some edges.
product(links, i) ==
    [from |-> getEdgeSource(links[1]), to |-> getEdgeTarget(links[Len(links)]),
     item |-> [category |-> Rules[i].lhs, text |-> NoText], tags |-> ParseTags,
     sequence |-> build(links)]

scoreOf(links, i) ==
    Rules[i].score + edgeScore(links[1]) + IF Len(links) = 2 THEN edgeScore(links[2]) ELSE 0

\* Slip: whatever comes out of a rule is pushed.
isNew_Always(new) == TRUE

\* There are more edges between the vertices than before.
isNew(new) == edgeCounterHash'[<<new.from, new.to>>] > countEdges(new.from, new.to)

\* add_edge(): within the limit, and if it does not refer to itself.
addsToChart(new, score) ==
    LET isPossible == /\ isAllowed(new.to - new.from, countEdges(new.from, new.to))
                      /\ ~addEdgeThrows(new.from, new.to, mergedInto(new), new.sequence)
    IN  \/ /\ ~isPossible
           /\ UNCHANGED <<vars, agenda>>
        \/ /\ isPossible
           /\ AddEdge(new.from, new.to, new.item, new.tags, new.sequence, score)
           /\ agenda' = IF isNew(new) THEN Append(agenda, addedEdge(mergedInto(new))) ELSE agenda

-----------------------------------------------------------------------------
(* The parser.                                                             *)

\* What the agenda is filled with ...
initialEdges ==
    {Explicit(e) : e \in {d \in addTagMaskIndex_(InputMask)[InputMask] :
                             /\ edges[d].score >= minScore(1)
                             /\ isUseful(edges[d].item.category)}}

\* ... vertex by vertex, each with the edges out of it in their order.
vertexByVertex(list) ==
    \A i, j \in DOMAIN list : i < j =>
        \/ getEdgeSource(list[i]) < getEdgeSource(list[j])
        \/ getEdgeSource(list[i]) = getEdgeSource(list[j]) /\ list[i].at < list[j].at

\* fill_()
Fills ==
    /\ phase = "prepare" /\ Idle
    /\ Len(edges) = Len(chart.input)
    /\ phase' = "parse"
    /\ agenda' \in [1 .. Cardinality(initialEdges) -> initialEdges]
    /\ vertexByVertex(agenda')
    /\ QueryEdges(InputMask)
    /\ UNCHANGED <<chart, current, combos, marked, nbTurns, limitLevel>>

\* An edge goes alone, behind a marked edge or in front of one.
Alone  == 0
Behind == 1
Before == 2

Combination == [side : {Alone, Behind, Before}, at : 0 .. Len(marked), rule : chart.grammar]

\* The edges that a combination combines.
linksOf(c, edge) ==
    CASE c.side = Alone  -> <<edge>>
      [] c.side = Behind -> <<marked[c.at], edge>>
      [] c.side = Before -> <<edge, marked[c.at]>>

\* All the combinations of an edge: with each rule, alone, behind the marked edges
\* before it and in front of those after it.
combinations(edge) ==
    LET into  == markedInto(sourceBeforeBlanks(edge))
        outOf == markedOutOf(targetBehindBlank(edge))
    IN  {c \in Combination :
            /\ \/ c.side = Alone /\ c.at = 0
               \/ c.side = Behind /\ c.at \in into
               \/ c.side = Before /\ c.at \in outOf
            /\ LET links == linksOf(c, edge)
               IN  c.rule \in combine([n \in DOMAIN links |-> category(links[n])])}

\* The order in which they are made.
isMadeBefore(c, d) ==
    \/ c.side < d.side
    \/ c.side = d.side /\ (c.at < d.at \/ (c.at = d.at /\ c.rule < d.rule))

\* At the head of the loop of go_().
At == phase = "parse" /\ current = NoEdge

\* The turns and the edges that wait reach the threshold of the next limit.
levelReached ==
    IF nbTurns + Len(agenda) > chart.limits.levels[limitLevel].threshold
    THEN limitLevel + 1 ELSE limitLevel

\* go_(): an edge is taken.
Takes ==
    /\ At /\ agenda # <<>>
    /\ nbTurns' = nbTurns + 1
    /\ agenda' = Tail(agenda)
    /\ limitLevel' = levelReached
    /\ phase' = IF limitLevel' > nbLimits THEN "done" ELSE phase
    /\ LET isCombined == /\ limitLevel' <= nbLimits
                         /\ edgeScore(Head(agenda)) >= minScore(limitLevel')
       IN  /\ current' = IF isCombined THEN Head(agenda) ELSE NoEdge
           /\ combos' = IF isCombined THEN combinations(Head(agenda)) ELSE {}
           /\ IF isCombined THEN QueryEdges({{TokenTag}}) ELSE UNCHANGED vars
    /\ UNCHANGED <<chart, marked>>

\* The score of one of two edges is too low by now.
isBelow(links) == Len(links) = 2 /\ \E i \in 1 .. 2 : edgeScore(links[i]) < minScore(limitLevel)

\* apply_unary_rules_() and apply_binary_rules_for_pair_(): one rule.
Combines ==
    /\ \E c \in combos :
          LET links == linksOf(c, current)
          IN  /\ \A d \in combos \ {c} : isMadeBefore(c, d)
              /\ combos' = combos \ {c}
              /\ \/ isBelow(links) /\ UNCHANGED <<vars, agenda>>
                 \/ ~isBelow(links) /\ addsToChart(product(links, c.rule), scoreOf(links, c.rule))
    /\ UNCHANGED <<chart, phase, current, marked, nbTurns, limitLevel>>

\* mark_edge().
Marks ==
    /\ current # NoEdge /\ combos = {}
    /\ marked' = Append(marked, current)
    /\ current' = NoEdge
    /\ UNCHANGED <<vars, chart, phase, agenda, combos, nbTurns, limitLevel>>

Ends ==
    /\ At /\ agenda = <<>>
    /\ phase' = "done"
    /\ UNCHANGED <<vars, chart, agenda, current, combos, marked, nbTurns, limitLevel>>

ParserNext ==
    \/ ReadsText \/ ReadsSymbol \/ GetsEdge
    \/ Fills \/ Takes \/ Combines \/ Marks \/ Ends

\* The parser runs in a thread of its own that nothing holds up.
ParserSpec == ParserInit /\ [][ParserNext]_chartVars /\ WF_chartVars(ParserNext)

-----------------------------------------------------------------------------
(* Properties.                                                             *)

\* Nothing is cut short by a limit: the first level was not left, every edge was
\* made with the score it asks for, and none was one too many.
isUnlimited ==
    /\ limitLevel = 1 /\ nbLimits >= 1
    /\ \A e \in DOMAIN edges : edges[e].partitions[1].score >= minScore(1)
    /\ \A from, to \in Vertices : isAllowed(to - from, countEdges(from, to))

\* The edges that the parser is given.
isGiven(e) == e \in 1 .. Len(chart.input)

\* The edges it works on: of those it is given, the ones of the mask.
onChart(e) == isGiven(e) => matches(edges[e].tags, InputMask)

\* The edge as a fact: what stands where.
fact(e) == <<edges[e].item.category, edges[e].from, edges[e].to>>

\* Nothing, or a blank, is between the two vertices.
isNextTo(v, w) == v = w \/ \E b \in DOMAIN edges : fact(b) = <<Blank, v, w>>

\* The facts that follow from facts by one rule.
following(facts) ==
    {<<Rules[p[1]].lhs, p[2][2], p[2][3]>> :
        p \in {pair \in chart.grammar \X facts : Rules[pair[1]].rhs = <<pair[2][1]>>}}
    \cup
    {<<Rules[t[1]].lhs, t[2][2], t[3][3]>> :
        t \in {u \in chart.grammar \X facts \X facts :
                  /\ Rules[u[1]].rhs = <<u[2][1], u[3][1]>>
                  /\ isNextTo(u[2][3], u[3][2])}}

\* The facts of the chart before some edge was added.
factsBefore(e) == {fact(d) : d \in {c \in DOMAIN edges : c < e /\ onChart(c)}}

\* The parser finds what the grammar derives, and nothing else: each edge it
\* adds follows by a rule from what is on the chart before it; and in whatever
\* order the edges come from the agenda, two that a rule combines meet, the
\* second one to be taken finding the first one among the marked edges, across
\* a blank or not, so that in the end nothing more follows.  Where a limit is
\* reached some of it may be missing.
ChartComplete ==
    phase = "done" =>
        /\ \A e \in DOMAIN edges : isGiven(e) \/ fact(e) \in following(factsBefore(e))
        /\ isUnlimited =>
              LET facts == factsBefore(Len(edges) + 1) IN following(facts) \subseteq facts

\* The paths that a rule might combine.
paths ==
    LET explicit == {Explicit(e) : e \in DOMAIN edges}
    IN  {<<d>> : d \in explicit} \cup
        {path \in explicit \X explicit :
            isNextTo(getEdgeTarget(path[1]), getEdgeSource(path[2]))}

\* The ways in which rules make edge e of these links.
derivations(e, links) ==
    IF Explicit(e) \in {links[n] : n \in DOMAIN links} THEN {}
    ELSE {i \in chart.grammar :
            /\ \A n \in DOMAIN links : onChart(links[n].at)
            /\ Rules[i].rhs = [n \in DOMAIN links |-> category(links[n])]
            /\ mergedInto(product(links, i)) = Explicit(e)}

\* The partitions of e that are these links.
recorded(e, links) ==
    {i \in DOMAIN edges[e].partitions :
        /\ edges[e].partitions[i].sequence.links = links
        /\ ~(isGiven(e) /\ i = 1)}

\* The chart is a packed forest: each way to derive an edge is one of its
\* partitions, and is so once.  An edge is taken only once, and is marked only
\* after it has been combined, so that two edges do not meet a second time.
DerivationsOnce ==
    phase = "done" /\ isUnlimited =>
        \A e \in DOMAIN edges, links \in paths :
            Cardinality(recorded(e, links)) = Cardinality(derivations(e, links))

\* What edgeToZsyntree_() takes for the children of an edge.
firstChildren(edge) ==
    IF partitionsOf(edge) = <<>> THEN {}
    ELSE SequenceEdges(Head(partitionsOf(edge)).sequence)

\* The tree that is read off the chart by the first partitions is finite, also
\* where rules lead from a category back to it and the partitions of the edges
\* are cyclic: edgeToZsyntreeWithSpec_() and getEdgeOrigin() come to an end.
FirstTreesEnd ==
    LET ending[n \in 0 .. Len(edges) + 1] ==
            IF n = 0 THEN {}
            ELSE LET below == ending[n - 1]
                 IN  {edge \in Edges : firstChildren(edge) \subseteq below}
    IN  Edges = ending[Len(edges) + 1]

\* The turns that go_() has counted and the edges that still wait are no more than
\* the edges of the lattice, whatever the grammar and the limits: one that is found
\* again, by a merge, does not go back to the agenda (chart.tpl:150-151), and
\* the parser does not depend on a threshold to stop it.
TurnsBounded == nbTurns + Len(agenda) <= Len(edges)

\* No grammar has set thresholds.
hasDefaultLimits ==
    \A l \in DOMAIN chart.limits.levels : chart.limits.levels[l].threshold = MaxInt

\* The parser stops, whatever the grammar; and where only the largest integer
\* limits its turns it stops because nothing is left to be taken, and not because
\* it has reached that limit.
ParserEnds == <>(phase = "done" /\ (hasDefaultLimits => limitLevel = 1))
=============================================================================
