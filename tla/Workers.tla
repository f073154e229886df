------------------------------ MODULE Workers ------------------------------
(***************************************************************************)
(* A chain of lattice workers, as a pipeline runs them one after another   *)
(* on one lattice:                                                         *)
(*   read        the txt-reader (formats/txt/txt_lattice_reader.cpp);      *)
(*   guess       the lang-guesser (tools/recognizers/langguesser);         *)
(*   cut         a tokenizer: Lattice::runCutter() with a Cutter;          *)
(*   lemmatize   a LemmatizerAnnotator with LamerLemma;                    *)
(*   annotate    a OneEdgeAtATimeAnnotator with the Mapper                 *)
(*               (tools/lexica/mapper), which looks an edge up in a        *)
(*               lexicon, as of the valency of lexemes;                    *)
(*   join        the joiner (tools/converters/joiner);                     *)
(*   antiselect  the antiselector (tools/converters/antiselector).         *)
(* A worker walks the edges of a mask with a sorted iterator, the cursor,  *)
(* and adds edges while it does.  A visit of an edge is one step, each     *)
(* addEdge() it leads to another one (the edges still to be added are      *)
(* pending, or calls of the output iterator), and each segment cut off by  *)
(* the cutter one more.  An exception ends the chain; so may the use of an *)
(* iterator that is not valid any more.                                    *)
(***************************************************************************)
EXTENDS Lemmatizer, Cutter

LOCAL INSTANCE SequencesExt
LOCAL INSTANCE Functions

CONSTANTS
    Newline, B,      \* the end of a line, and the category of blank tokens
    Cases,           \* the lines of an input, and options for the workers
    FragItem, FragTags, TextItem, TextTags, TokenTags,
    LexiconMask, Lexicon, LexiconTags,   \* of the mapper; its records by item
    LeftMask, RightMask,
    joinedCategory,  \* the category of the joined item, attributes merged
    FallbackMask, InMask, SelectedTags

\* The limits of the tokenizer, the level of the lemmatizer, the kind of join,
\* its tags and where it takes the text from, --with-blank of the antiselector
\* and --whole-text of the reader.
Options == [hard : Nat, soft : Nat, level : 0 .. 3, outer : {"none", "outer", "extended"},
            outTags : Collection, rightText : BOOLEAN, withBlank : BOOLEAN,
            wholeText : BOOLEAN]

ASSUME WorkersAssumption ==
    /\ Width \in [Char -> 1 .. UTF8_MAX_LENGTH]
    /\ {Space, Newline} \subseteq Char
    /\ Cases \subseteq Seq(Seq(Char)) \X Options
    /\ {FragTags, TextTags, TokenTags, LexiconTags, SelectedTags} \subseteq Collection
    /\ {LexiconMask, LeftMask, RightMask, FallbackMask, InMask} \subseteq Mask

VARIABLES
    input,     \* the lines still to be read
    options,   \* of the workers
    task,      \* the worker that runs
    status,    \* "running", "thrown" (an exception) or "crashed"
    cursor,    \* the iterator of the worker
    pending,   \* the edges it is about to add
    cutter,    \* the locals of runCutterOnEdge_() and of the Cutter
    output     \* the output iterator of the lemmatizer and the calls to come

locals == <<cutter, output>>
workerVars == <<input, options, task, status, cursor, pending, locals>>
allVars == <<vars, workerVars>>

Npos == -1

NoCursor == [vertex |-> -1, edges |-> NoEdges]

\* The path from begin to end is cut: rest is what the iterator over it has
\* before it, pos the position in its text, queue the lengths of the fragments
\* of a segment of that category.
NoCutter == [begin |-> 0, end |-> 0, rest |-> <<>>, pos |-> 0, queue |-> <<>>,
             category |-> B]

Tasks == <<"read", "guess", "cut", "lemmatize", "annotate", "join", "antiselect", "done">>

place(w) == CHOOSE i \in DOMAIN Tasks : Tasks[i] = w

WorkersInit ==
    /\ Init
    /\ \E case \in Cases : input = case[1] /\ options = case[2]
    /\ task = "read"
    /\ status = "running"
    /\ cursor = NoCursor
    /\ pending = <<>>
    /\ cutter = NoCutter
    /\ output = NoOutput

\* An edge to be added between the ends of another one, from a sequence.
Over(edge, item, tags, sequence) ==
    [from |-> getEdgeSource(edge), to |-> getEdgeTarget(edge), item |-> item, tags |-> tags,
     sequence |-> sequence]

\* The worker is between two of its calls.
At(w) ==
    /\ task = w
    /\ status = "running"
    /\ Idle
    /\ pending = <<>>
    /\ cutter = NoCutter
    /\ output = NoOutput

\* The edges of the lattice stay as they are; these masks get indices.
OnlyIndexes(masks) ==
    /\ indexedTagMasks' = indexedWith(masks)
    /\ UNCHANGED <<text, nLooseVertices, implicitVars, edges, vvcHash, edgeCounterHash, call>>

-----------------------------------------------------------------------------
(* What all the workers do.                                                *)

\* One character of appendStringWithSymbols().
AppendsSymbol == AddSymbolsStep /\ UNCHANGED workerVars

\* A new edge is added; an exception leaves the worker.
Adds(new) ==
    /\ AddEdge(new.from, new.to, new.item, new.tags, new.sequence, 0)
    /\ status' = IF addEdgeThrows(new.from, new.to, mergedInto(new), new.sequence)
                 THEN "thrown" ELSE "running"

AddsEdge ==
    /\ status = "running"
    /\ pending # <<>>
    /\ Adds(Head(pending))
    /\ pending' = Tail(pending)
    /\ UNCHANGED <<input, options, task, cursor, locals>>

\* Slip: the joiner leaves the index of the right mask to the first search.
indexedFirst_LeftOnly(w) == IF w = "join" THEN {LeftMask} ELSE {}

\* The masks a worker indexes before it makes its iterator.
indexedFirst(w) == IF w = "join" THEN {LeftMask, RightMask} ELSE {}

\* The mask of the edges it walks.
walked == [guess |-> {FragTags}, cut |-> {TextTags}, lemmatize |-> {TokenTags},
           annotate |-> LexiconMask, join |-> LeftMask, antiselect |-> FallbackMask]

\* Annotators go by the targets of the edges, the others by their sources.
sideOf(w) == IF w \in {"lemmatize", "annotate"} THEN "in" ELSE "out"

WorkerBegins ==
    /\ task \in DOMAIN walked
    /\ At(task)
    /\ cursor = NoCursor
    /\ cursor' = edgesSorted(sideOf(task), walked[task])
    /\ OnlyIndexes({walked[task]})
    /\ UNCHANGED <<input, options, task, status, pending, locals>>

\* The worker is done; the next one begins.
Succeeded ==
    /\ task' = Tasks[place(task) + 1]
    /\ cursor' = NoCursor
    /\ OnlyIndexes(indexedFirst(task'))
    /\ UNCHANGED <<input, options, status, pending, locals>>

here == settled(cursor)

WorkerEnds ==
    /\ At(task)
    /\ cursor # NoCursor
    /\ ~hasNextEdge(here.edges)
    /\ Succeeded

\* The edge that a worker visits next.
NextEdges(w) ==
    IF At(w) /\ cursor # NoCursor /\ hasNextEdge(here.edges) THEN {nextEdge(here.edges)} ELSE {}

\* The cursor moves over the edge that is visited.  Where its list has been
\* moved in the meantime, it may still be readable, or not.
MovesOn ==
    /\ cursor' = [here EXCEPT !.edges = advanced(@)]
    /\ status' \in {"running"} \cup (IF isStale(here.edges) THEN {"crashed"} ELSE {})
    /\ UNCHANGED <<input, options, task>>

-----------------------------------------------------------------------------
(* The reader and the language guesser.                                    *)

\* A paragraph and an edge over it.
AppendsParagraph(paragraph) ==
    /\ AppendStringWithSymbols(paragraph)
    /\ pending' = <<[from |-> Len(text), to |-> Len(text) + Len(paragraph), item |-> FragItem,
                     tags |-> FragTags, sequence |-> EmptySequence]>>

ReadsAll ==
    /\ At("read")
    /\ options.wholeText
    /\ input # <<>>
    /\ AppendsParagraph(FlattenSeq([i \in DOMAIN input |-> Append(input[i], Newline)]))
    /\ input' = <<>>
    /\ UNCHANGED <<options, task, status, cursor, locals>>

\* A line; nothing is added for an empty one.
ReadsLine ==
    /\ At("read")
    /\ ~options.wholeText
    /\ input # <<>>
    /\ Head(input) # <<>>
    /\ AppendsParagraph(Head(input))
    /\ input' = [input EXCEPT ![1] = <<>>]
    /\ UNCHANGED <<options, task, status, cursor, locals>>

\* The end of the line is text as well, but no symbol edge.
ReadsNewline ==
    /\ At("read")
    /\ ~options.wholeText
    /\ input # <<>>
    /\ Head(input) = <<>>
    /\ AppendString(<<Newline>>)
    /\ input' = Tail(input)
    /\ UNCHANGED <<options, task, status, cursor, pending, locals>>

ReaderEnds == At("read") /\ input = <<>> /\ Succeeded

\* A fragment whose language is guessed becomes a text.
Guesses ==
    \E edge \in NextEdges("guess"), guessed \in BOOLEAN :
        /\ MovesOn
        /\ pending' = IF guessed THEN <<Over(edge, TextItem, TextTags, build(<<edge>>))>>
                      ELSE <<>>
        /\ OnlyIndexes({})
        /\ UNCHANGED locals

-----------------------------------------------------------------------------
(* The tokenizer.                                                          *)

textOf(path) == SubSeq(text, getEdgeSource(Head(path)) + 1, getEdgeTarget(Last(path)))

\* The symbols of a text are cut from its source on, as far as they go.
CutsEdge ==
    \E edge \in NextEdges("cut") :
        LET path == getPath(getEdgeSource(edge), symbolMask)
        IN  /\ MovesOn
            /\ OnlyIndexes({symbolMask})
            /\ cutter' = IF path = <<>> THEN NoCutter
                         ELSE [NoCutter EXCEPT !.begin = getEdgeSource(Head(path)),
                                               !.end = getEdgeTarget(Last(path)),
                                               !.rest = path]
            /\ UNCHANGED <<pending, output>>

\* The next edges of a path, until they have that many bytes.
cutSequenceByTextLength(path, length) ==
    LET enough == {n \in DOMAIN path : bytes(textOf(SubSeq(path, 1, n))) >= length}
    IN  IF enough = {} THEN path
        ELSE SubSeq(path, 1, CHOOSE n \in enough : \A m \in enough : n <= m)

\* The rules end a segment between any two characters; spaces make a blank.
ruledSegments(s, pos) ==
    {[lengths  |-> segmentsOf(s, pos, stop, options.hard, options.soft),
      category |-> IF \A p \in pos .. stop - 1 : characterAt(s, p) = Space THEN B ELSE T,
      queued   |-> areLimitsBroken(options.hard, options.soft, stop - pos)] :
        stop \in {p \in boundaries(s) : p > pos}}

\* What cutOff() may cut: the next fragment in the queue, or else a segment.
cutOff(s) ==
    IF cutter.queue # <<>>
    THEN {[lengths |-> cutter.queue, category |-> cutter.category, queued |-> TRUE]}
    ELSE ruledSegments(s, cutter.pos)

\* The positions it may leave: at the end of the text, a fragment leaves npos,
\* and the rules the length or npos.
positionsAfter(segment, length) ==
    LET reached == cutter.pos + Head(segment.lengths)
    IN  IF reached < length THEN {reached}
        ELSE IF segment.queued THEN {Npos} ELSE {Npos, length}

\* Slip: the end of the text is known by npos only.
isCut_NposOnly(pos, length) == pos = Npos

\* The text has been used up.
isCut(pos, length) == pos = Npos \/ pos >= length

\* A limit too small for a character; or no edges left for the segment.
CutFails(segment, part) == NoRoom \in Range(segment.lengths) \/ part = <<>>

\* One turn of the loop of runCutterOnEdge_().
CutsOff ==
    LET s == SubSeq(text, cutter.begin + 1, cutter.end)
        start == offset(text, cutter.begin) + cutter.pos
    IN  /\ task = "cut" /\ status = "running" /\ pending = <<>> /\ cutter # NoCutter
        /\ \E segment \in cutOff(s) :
              LET length == Head(segment.lengths)
                  part == cutSequenceByTextLength(cutter.rest, length)
              IN  IF CutFails(segment, part)
                  THEN status' = "thrown" /\ UNCHANGED <<pending, cutter>>
                  ELSE /\ pending' = <<[from |-> getEdgeSource(Head(part)),
                                        to |-> getEdgeTarget(Last(part)),
                                        item |-> [category |-> segment.category,
                                                  text |-> <<start, start + length>>],
                                        tags |-> TokenTags,
                                        sequence |-> build(part)]>>
                       /\ \E pos \in positionsAfter(segment, bytes(s)) :
                             cutter' = IF isCut(pos, bytes(s)) THEN NoCutter
                                       ELSE [cutter EXCEPT
                                               !.rest = SubSeq(@, Len(part) + 1, Len(@)),
                                               !.pos = pos,
                                               !.queue = IF segment.queued
                                                         THEN Tail(segment.lengths) ELSE <<>>,
                                               !.category = segment.category]
                       /\ UNCHANGED status
        /\ UNCHANGED <<vars, input, options, task, cursor, output>>

-----------------------------------------------------------------------------
(* Annotators and converters.                                              *)

\* The number of characters before a position.
charactersBefore(pos) == Cardinality({i \in DOMAIN text : offset(text, i) <= pos})

\* The characters of a token.
textOfToken(token) ==
    LET range == getEdgeAnnotationItem(token).text
    IN  SubSeq(text, charactersBefore(range[1]) + 1, charactersBefore(range[2]))

\* Tokens and words are looked up, letter case and all.
Lemmatizes ==
    \E edge \in NextEdges("lemmatize") :
        /\ MovesOn
        /\ OnlyIndexes({})
        /\ output' = IF getEdgeAnnotationItem(edge).category \in {T, word}
                     THEN outputFor(edge, analysis(textOfToken(edge), options.level))
                     ELSE NoOutput
        /\ UNCHANGED <<pending, cutter>>

\* The next result goes over the last one of the level above.
AddsAnalysis ==
    /\ status = "running"
    /\ output.calls # <<>>
    /\ LET next == Head(output.calls)
           new == Over(lastAbove(output, next.kind), next.item, lemmatizeTags(next.kind),
                       build(<<lastAbove(output, next.kind)>>))
       IN  /\ Adds(new)
           /\ output' = IF Tail(output.calls) = <<>> THEN NoOutput
                        ELSE [output EXCEPT
                                !.last = lastAfter(@, next.kind, addedEdge(mergedInto(new))),
                                !.calls = Tail(@)]
    /\ UNCHANGED <<input, options, task, cursor, pending, cutter>>

\* The records of the lexicon for an edge.
records(edge) ==
    LET item == getEdgeAnnotationItem(edge)
    IN  IF item \in DOMAIN Lexicon THEN Lexicon[item] ELSE <<>>

\* An edge for each record, with the edge that was looked up as its parent.
Annotates ==
    \E edge \in NextEdges("annotate") :
        /\ MovesOn
        /\ OnlyIndexes({})
        /\ pending' = [i \in DOMAIN records(edge) |->
                          Over(edge, records(edge)[i], LexiconTags, build(<<edge>>))]
        /\ UNCHANGED locals

\* The category of the left edge, the text of either, the attributes of both.
joined(left, right) ==
    [category |-> joinedCategory[getEdgeAnnotationItem(left).category,
                                 getEdgeAnnotationItem(right).category],
     text |-> getEdgeAnnotationItem(IF options.rightText THEN right ELSE left).text]

\* The right edges that go with a left one.
rightEdges(left) ==
    LET parent == getParent(left)
    IN  IF parent = NoEdge THEN <<>> ELSE getChildren(parent, RightMask)

\* For the left edge itself: a partition, if it lies in the plane of the tags,
\* so that it does not refer to itself, or else a copy.
outerEdge(left) ==
    LET plane == onlyPlaneTags(getEdgeLayerTags(left))
        item  == getEdgeAnnotationItem(left)
    IN  IF onlyPlaneTags(options.outTags) = plane
        THEN Over(left, item, options.outTags \cup plane, EmptySequence)
        ELSE Over(left, item, options.outTags, build(<<left>>))

isOuter(rights) == options.outer = "extended" \/ (options.outer = "outer" /\ rights = <<>>)

Joins ==
    \E edge \in NextEdges("join") :
        LET rights == rightEdges(edge)
        IN  /\ MovesOn
            /\ OnlyIndexes(IF getParent(edge) = NoEdge THEN {} ELSE {RightMask})
            /\ pending' = [i \in DOMAIN rights |->
                              Over(edge, joined(edge, rights[i]), options.outTags,
                                   build(<<edge, rights[i]>>))]
                          \o (IF isOuter(rights) THEN <<outerEdge(edge)>> ELSE <<>>)
            /\ UNCHANGED locals

\* An edge of the in mask has the same ends.
coedge(edge) ==
    \E d \in edgesFound("out", getEdgeSource(edge), InMask) : getEdgeTarget(d) = getEdgeTarget(edge)

isSelected(edge) ==
    /\ ~coedge(edge)
    /\ options.withBlank \/ getEdgeAnnotationItem(edge).category # B

\* A copy of the edge, where no edge of the in mask goes beside it.
Antiselects ==
    \E edge \in NextEdges("antiselect") :
        /\ MovesOn
        /\ OnlyIndexes({InMask})
        /\ pending' = IF isSelected(edge)
                      THEN <<Over(edge, getEdgeAnnotationItem(edge), SelectedTags, EmptySequence)>>
                      ELSE <<>>
        /\ UNCHANGED locals

WorkersNext ==
    \/ AppendsSymbol
    \/ AddsEdge
    \/ WorkerBegins
    \/ WorkerEnds
    \/ ReadsAll
    \/ ReadsLine
    \/ ReadsNewline
    \/ ReaderEnds
    \/ Guesses
    \/ CutsEdge
    \/ CutsOff
    \/ Lemmatizes
    \/ AddsAnalysis
    \/ Annotates
    \/ Joins
    \/ Antiselects

\* The workers run in one thread, which nothing stops.
WorkersSpec == WorkersInit /\ [][WorkersNext]_allVars /\ WF_allVars(WorkersNext)

-----------------------------------------------------------------------------
(* Properties.                                                             *)

WorkersTypeOK ==
    /\ options \in Options
    /\ task \in Range(Tasks)
    /\ status \in {"running", "thrown", "crashed"}
    /\ cutter.begin <= cutter.end /\ cutter.end <= Len(text)

\* The edges a tokenizer has made.
isToken(e) == edges[e].tags = TokenTags /\ edges[e].item.category \in {T, B}

\* What a token says it is, is what the text says between its vertices, though
\* the position in the text and the iterator over the symbols advance apart:
\* the one by bytes, the other by edges; and the tokenizer goes on where the
\* last token ends.
TokensMatchText ==
    /\ \A e \in DOMAIN edges :
          isToken(e) => edges[e].item.text = <<offset(text, edges[e].from), offset(text, edges[e].to)>>
    /\ cutter # NoCutter =>
          /\ cutter.rest # <<>>
          /\ offset(text, getEdgeSource(Head(cutter.rest))) =
                offset(text, cutter.begin) + cutter.pos

\* cutter.hpp: "No segment will ever exceed this limit"; and where the soft
\* limit is exceeded, "the cutter will cut off at the following space".
LimitsKept ==
    \A e \in DOMAIN edges : isToken(e) =>
        /\ options.hard # 0 =>
              offset(text, edges[e].to) - offset(text, edges[e].from) <= options.hard
        /\ options.soft # 0 =>
              \A i \in edges[e].from + 1 .. edges[e].to :
                  text[i] = Space =>
                      offset(text, i - 1) < offset(text, edges[e].from) + options.soft

\* The worker has ended: it is through, or the program crashed.
Ended(w) ==
    \/ place(task) > place(w)
    \/ task = w /\ status = "crashed"

\* An edge with these ends, this item and these tags.
isThere(from, to, item, tags) ==
    \E e \in DOMAIN edges : /\ edges[e].from = from
                           /\ edges[e].to = to
                           /\ edges[e].item = item
                           /\ tags \subseteq edges[e].tags

bears(e, parent) ==
    \E i \in DOMAIN edges[e].partitions :
        parent \in SequenceEdges(edges[e].partitions[i].sequence)

\* The edges of a level of the lemmatizer with an item, over one of the parents.
levelOver(parents, kind, category, t) ==
    {e \in DOMAIN edges : /\ edges[e].item = [category |-> category, text |-> t]
                          /\ LevelTag[kind] \in edges[e].tags
                          /\ \E parent \in parents : bears(e, Explicit(parent))}

\* One reading of a token, level by level from the token up to the form.
isRead(t, w, lemma, pos, form) ==
    LET normalizations == levelOver({t}, "normalization", term, w)
        lemmata == levelOver(normalizations, "lemma", word, lemma)
        lexemes == levelOver(lemmata, "lexeme", pos, <<lemma, pos>>)
    IN  levelOver(lexemes, "form", form, w) # {}

\* Every reading that the dictionary has for a token, as it is or with its
\* head or its tail in lower case, is in the lattice, though homonyms merge
\* into each other's edges while they are added; and the way up from a form,
\* along first partitions, ends at a lemma of which it is a form.
Lemmatized ==
    Ended("lemmatize") =>
        /\ options.level = 3 =>
              \A t \in {d \in DOMAIN edges : isToken(d) /\ edges[d].item.category = T} :
                  LET s == textOfToken(Explicit(t))
                  IN  \A w \in {s, tailConverted(s), headConverted(s)} :
                      \A entry \in Range(entries(w)) :
                      \A lexeme \in Range(entry.lexemes) :
                      \A form \in Range(lexeme.forms) :
                          isRead(t, w, entry.lemma, lexeme.pos, form)
        /\ \A f \in {d \in DOMAIN edges : LevelTag["form"] \in edges[d].tags} :
              /\ originSteps(Explicit(f), LevelTag["lemma"]) # {}
              /\ \E entry \in Range(entries(edges[f].item.text)) :
                    /\ entry.lemma =
                          getEdgeAnnotationItem(getEdgeOrigin(Explicit(f), LevelTag["lemma"])).text
                    /\ \E lexeme \in Range(entry.lexemes) :
                          edges[f].item.category \in Range(lexeme.forms)

\* The right edges of a left one, by the text of the joiner's description:
\* "spanning the same pair of vertices, having the same parent edge".
RightOf(l) ==
    {r \in DOMAIN edges : /\ matches(edges[r].tags, RightMask)
                         /\ edges[r].from = edges[l].from
                         /\ edges[r].to = edges[l].to
                         /\ bears(r, getParent(Explicit(l)))}

LeftEdges == {l \in DOMAIN edges : matches(edges[l].tags, LeftMask)}

\* The joiner has joined all the pairs it is there to join, although it adds
\* edges to the very lists it walks and searches.
JoinComplete ==
    Ended("join") =>
        \A l \in LeftEdges :
            /\ \A r \in RightOf(l) :
                  isThere(edges[l].from, edges[l].to, joined(Explicit(l), Explicit(r)),
                          options.outTags)
            /\ isThere(edges[l].from, edges[l].to, edges[l].item, options.outTags)
                  <=> isOuter(SetToSeq(RightOf(l)))

\* The copies are made of exactly the edges that the description of the
\* antiselector names: "Selects edges not tagged with specified tags."
AllSelected ==
    Ended("antiselect") =>
        \A e \in DOMAIN edges :
            matches(edges[e].partitions[1].tags, FallbackMask) =>
                (isThere(edges[e].from, edges[e].to, edges[e].item, SelectedTags) <=>
                    isSelected(Explicit(e)))

\* Every chain comes to its end, one way or another.
WorkersEnd == <>(task = "done" \/ status # "running")

(* What the description of the joiner says, and the code does not keep.    *)

\* detailed_description.txt: "a new edge is generated also for "left" edges,
\* for which no "right" edges were found".
OuterJoinEnds == task = "join" => status # "thrown"
=============================================================================
