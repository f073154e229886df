# PSI-Toolkit in TLA+

PSI-Toolkit runs pipelines of text processors (readers, annotators, writers)
over one shared data structure, the annotation lattice.  This directory holds
TLA+ modules that model the parts of it where the order of steps matters, TLC
configurations that check them on small instances, and proofs, checked by
TLAPS, of what holds for every instance.  `PROJECT.json` links each definition
to the lines of source it models.

## 1. The system

| part | source | state | operations | modelled in |
|---|---|---|---|---|
| layer tags, masks | `common/layer_tag_*` | interned tag names, the set of plane tags | union, planes, matching of a mask | `LayerTags` |
| annotation lattice | `common/lattice.*` | text; implicit symbol edges (three bitsets); a boost graph of explicit edges with their tags, scores and partitions; a registry of edges by ends and annotation; a counter per pair of vertices; an index per tag mask | append text, add symbols, add an edge, add a partition, discard, look up by mask, traverse, cut | `Lattice`, `Traversal` |
| corrections | `common/lattice.cpp` | loose vertices and symbol edges over them | insert, erase, replace a range of the text | `Lattice` |
| edge sequences, partitions | `common/lattice.cpp` | links, or a range of symbols | build, iterate, first and last edge | `Lattice`, `Traversal` |
| traversal | `common/lattice.cpp` | positions in lists of edges | vertex and edge iterators, parents, origins | `Traversal` |
| cutters | `common/cutter.*` | current position, candidate cut, limits, a queue of fragments | cut the text, cut along a path of the lattice | `Cutter`, `Workers` |
| annotators | `common/*annotator*`, `tools` | the work in progress | one pass over the lattice | `Workers`, `Lemmatizer` |
| gobio | `tools/parsers/gobio` | an agenda, marked edges, a grammar | take, combine, mark | `ChartParser` |
| promises, factories | `common/*promise*`, `common/*factory*`, `framework/*keeper*` | name, options, the processor once created | required and provided tags, languages, quality, creation | `Completion`, `PipeRunner` |
| pipeline completion | `framework/auto_completer.*` | the sequence being completed, the complete ones, the best one | insert fulfillers, multiply by languages, branch, choose | `Completion` |
| pipe runner | `framework/pipe_runner.*` | specification, alternatives, final pipeline | add reader, writer and language guesser; run | `PipeRunner` |
| aliases | `framework/aliaser.*` | alias to destinations and back | add, search in both directions | |
| server, sessions, sites | `server` | a pool of threads; sessions by identifier, the current session, fields of the sites | handle a request: store form values, run a pipe, fill in a page | `Server` |
| object cache, file storage | `common/object_cache.*`, `common/file_storage.*` | loaded objects by path; stored outputs | get, store | |
| vendored code | `fex`, `uchardet`, `tiniconv`, `sundown`, `maxent`, `utf8`, `utf8case`, `server/mpfd-parser` | | | |

### How the parts interact

A command line (`framework/psi-pipe.cpp`) or a request of the server
(`server/site/pipe_site.cpp`) gives the *pipe runner* a specification such as
`tokenize ! puddle --lang pl`.  The runner looks each word up with the
*aliasers*, makes *promises* out of the *factories*, adds a reader, a writer
and a language guesser where they are missing, and hands the list to the
*completer*.  The completed list becomes a chain of processors; the reader
fills a *lattice*, each annotator runs once over it, and the writer reads it.
Annotators, corrections and writers meet only in the lattice: whatever one of
them stored, the others have to find.  In the server several threads do all of
this at once; they share the factories, the sessions, the fields of the sites
and the object cache, and none of it is locked.

The modules follow these interactions:

    LayerTags <- Lattice <- Traversal <- Lemmatizer <- Workers -> Cutter
                                     <- ChartParser
    Completion <- PipeRunner --implements--> Pipeline
    Server

An arrow points to the module that is extended.  Each `MC...` module gives the
constants of one of them values, and each of its `.cfg` files is a run.

### What is hard to get right

* **Lattice.** One edge is recorded in up to five places (bitset, graph,
  registry, counter, indices), and may move from one representation to another:
  an annotated symbol leaves its bit and becomes an explicit edge, a plain
  symbol added where the bit is free becomes a bit.  Indices are made on demand,
  before or after the edges they list.  Ranges of symbols are stored as two
  positions and resolved again at each reading, after the symbols may have
  moved.  Corrections add vertices that have no place in the text and edges
  that must not close a cycle.
* **Annotators.** They add edges while their own iterators over the same lists
  are live; an edge they add may turn out to be one that is already there; a
  mask indexed meanwhile moves the storage under the iterator.
* **Cutters.** Positions are bytes of a text in UTF-8, limits may lie inside a
  character, and one call may leave a queue of fragments for the next ones.
* **The chart parser.** Two edges meet only by way of the order in which they
  are taken and marked; rules may lead back to a category, and the chart stays
  finite only because equal edges merge.
* **Completion.** A list is walked while elements are inserted before the
  walker and replaced under it; the walk restarts at the insertion; a choice is
  resolved by a recursive call on a copy.  What is found has to be sound (every
  required tag is provided before), complete (no failure if there is a way), and
  has to keep the user's request.
* **Pipe runner.** Reader, writer and guesser are supplied independently of
  what the completer inserts.  A processor whose requirements are not met is
  skipped with a message, and the rest of the chain runs.
* **Server.** Threads share state that was written for one client; cookies
  outlive the server's sessions.

## 2. What is modelled

### `LayerTags` (common/layer_tag_*)

A collection of tags is a set, a mask a set of conjunctions, a plane tag one of
`PlaneTag`.  `matches`, `areInTheSamePlane` and `onlyPlaneTags` are the
operations the lattice uses.

### `Lattice` (common/lattice.cpp)

| variable | field |
|---|---|
| `text` | `allText_`, one element per character |
| `nLooseVertices` | `nLooseVertices_`; loose vertices are negative |
| `implicitOutEdges`, `hiddenImplicitOutEdges`, `visibleImplicitOutEdges` | the bitsets of the same names, as sets of vertices |
| `edges` | `graph_`: from, to, item, tags, score and partitions, in the order of insertion |
| `vvcHash` | `vvcHash_`: the descriptors registered for two ends and an item |
| `edgeCounterHash` | `edgeCounterHash_` |
| `indexedTagMasks` | the masks indexed so far and the explicit edges listed for each (`indexedTagMasks_`, `outEdgesIndex`, `inEdgesIndex`; the two lists of a mask hold the same edges) |
| `call` | where `addSymbols`, `correctionInsert` or `correctionReplace` is in its loop |

`addEdge` is one operator, `addEdge(from, to, item, tags, sequence, score)`, built
from parts named for the blocks of the function: the registered edge of the
same plane (`isoplanarEdge`), the search for a self-reference
(`addEdgeThrows`), the merge (`MergeIntoEdge`), the insertion as a bit
(`InsertImplicitEdge`) or into the graph (`InsertExplicitEdge`), the counter and
the visibility of alternatives (`CountAndReveal`).  Every operation that calls
it uses it whole.  `addSymbols` and the corrections make one step per turn of
their loop, because each turn is a call of `addEdge` after which the lattice
has to be consistent: the exceptions (`NoEdgeException`, a replacement that
cannot go on) leave it in that state.  A look-up by mask is an action
(`QueryEdges`), because it makes an index.

What the clients pass comes from the constants `Strings`, `Annotations`,
`PartitionTags`, `Scores`, `Masks`, `Corrections`.  The arguments are limited
as follows, and the limits are named:

* sequences of subedges are paths (`Path`) of at most `MaxPath` edges, as the builders
  of all annotators make them;
* an edge never points back (`notAfter`): `addEdge` checks it for vertices of the
  text, and leaves it to the caller for loose ones;
* text is inserted where a symbol edge leaves (`rejoinable`), and a range is
  replaced where every symbol edge leads to the next character (`walkable`).
  Outside of these two the loops run past their range or join the lattice with
  itself; they are listed as hazards without a property;
* vertices are numbered by character, not by byte; nothing in the lattice depends on
  the distance but the length of one character, which is the distance to the
  next vertex.

### `Traversal` (the iterators and look-ups of common/lattice.cpp)

Over `Lattice`: the edges at a vertex (`edgesAt`, with the implicit symbol), an
iterator over them and over all edges in the order of the text.  An iterator is a
position in a list that may have grown since, so `nextEdge` and `settled` look
at the lattice as it is when they are called; `isStale` says when the list has
been moved by a new index, after which the step may end in any of the ways the
freed memory allows.  `getPath`, `getParent`, `getChildren` and `getEdgeOrigin`
are the look-ups the workers use.  The order of loose vertices in
`VertexIterator` (a topological sort) is left out: the workers run on texts
without corrections.

### `Cutter`, `Lemmatizer`, `Workers`

`Cutter` is common/cutter: from the ends of segments that the rules propose and
the two limits it computes the fragments, byte by byte over characters of
different widths.  `Lemmatizer` is what a `LemmatizerOutputIterator` gets from
LamerLemma for a word, in order: the word, then with its head or its tail in
lower case; lemmata, lexemes, forms.  `Workers` runs a chain of workers over one
lattice: the text reader, the language guesser, a tokenizer (`runCutter`), the
lemmatizer, the mapper, the joiner and the antiselector.  A step is one visit of
an edge or one `addEdge`; an exception ends the chain, as in the code.

### `ChartParser` (tools/parsers/gobio)

`agenda`, `marked`, `limitLevel` and `nbTurns` are the fields and locals of
`agenda_parser`; `current` and `combos` are the edge that was taken and what it
is still to be combined to.  `Takes` is the head of the loop with its limits,
`Combines` one rule for one or two edges with the whole of `chart::add_edge`
(the limit on edges between two vertices, the self-reference, the count that
tells whether the edge is new), `Marks` the end of the turn.  The chart is the
`Lattice` of this project: what the parser adds goes through `AddEdge` and
merges there.  A combination names the side on which a marked edge stands, its
place among the marked ones and a rule; the nested loops of
`apply_unary_rules_()` and `apply_binary_rules_algorithm` make them in the order
`isMadeBefore`.  `combine` is `combine_unary()` and `combine_binary()` of
`tgbg_combinator`, the combinator that `Gobio` is made with, without the conditions on
attributes.  Where a grammar sets no limits, the only threshold is the largest integer
(`MaxInt`).  The agenda is filled vertex by vertex (`vertexByVertex`).  What the
parser ought to find is stated apart from it: `following` is one application of the
grammar to a set of facts (a category from one vertex to another), and
`isUnlimited` says that no limit has cut anything short.  Rules are triples of categories and a score; attributes, variants and
the trees of rules are abstracted, and the chooser and the accommodater, which
run afterwards, are not modelled.

### `Completion` (framework/auto_completer.cpp)

| variable | in the code |
|---|---|
| `setting` | the catalog of factories, the request and the languages; fixed |
| `calls` | the recursive calls of `complete_`, the running one first: the sequence, `iter`, `restartPosition`, and the promises already tried at `iter` |
| `alternativeSequences` | `alternativeSequences_` |
| `bestFound` | `bestFound_` |
| `firstException` | the first exception of `checkSolution_` |
| `outcome` | whether `complete_` is running, `complete` is choosing, or how it ended |

One step is one turn of the inner loop of `complete_` (lines 84-192), one
action for each branch: `MultiplyByLanguages`, `GiveUpOnLanguage`,
`LoseRestartPosition`, `TryAlternative`, `AllTried`, `InsertFulfillers`,
`GiveUpOnTags`, `Advance`, and `Collect` at its end; then one turn of the loop of
`complete` (`Choose`), or `Fail`.  The order of alternatives is that of the
processors' names (`std::map` and `std::set` in the keepers and aliasers), the
constant `Rank`.  A promise is a processor with the value of `--lang`; its
other options do not change what the completer reads of it, but for the quality
and the time, which the model takes per processor.  `LoseRestartPosition` is
the case in which the element that `restartPosition` points to is erased with
nothing in its place; what follows is undefined and the model ends there.

### `PipeRunner` and `Pipeline` (framework/pipe_runner.cpp)

`PipeRunner` extends `Completion`.  The constructor is a series of steps
(`Parse`, `CheckReader`, `CheckWriter`, `CheckLanguages`), then the completer's
own steps (`Completing`), then `Completed`.  `run()` takes one text after
another (`BeginText`, the whole input or a line), and the loop of `run_` over the
chain is, node by node, `SkipNode` (requirements not met), `RunNode` or
`NodeThrows`; `node` is `current`.

`Pipeline` is what a user may rely on, without completion or
languages: the chain is fixed before the first text, each text gets a run of
its own, and in it each processor works once, in order, after something that
provides the tags it requires, or is passed over.  `ImplementsPipeline` is
`Abstract!Spec` with `status`, `chain` and `passed` read off the runner's state.

### `Server` (server)

One step of a thread is a call that reads or writes shared state.  The order of
the steps is that of `PsiRequestHandler::handle_request` and
`PipeSite::actionPipe`: `Instance`, `Create`, `FindSession`,
`SetCurrentSession`, `AddData` for each field of the form, then the action
(`GetInput`, `Prepare`, `ClearPreviousFile`, `RunPipe`, `SaveOutput`), the
placeholders of the page (`HiddenOptions`, `ShowForm`, `ShowOutput`), `Reply`.

An output is known by its run: the pipeline, the text, and whether the input is a file.
A run in `EmptyRuns` writes nothing, as `--version` and `--help` do
(`pipe_runner.cpp:56-57`), and a writer that is skipped (482-487) or finds nothing;
`outputOf` of it is the empty string, `NoOutput`.  The code then takes two turns,
and the model takes them too.  `isData()` does not tell an empty value from none, so
that `ShowOutput` puts `initialOutput` in the place of an empty output
(`orDefault`); and where the default pipeline writes nothing, `initialOutput` is empty
until a request has an output, which is then everyone's default (`newInitialOutput`).
The link to the stored file (`outputFile`) is to the file of the run all the same, which may
be empty.  A pipeline that throws is in `FailingPipe`; input that is too large is handled as
one of these (a message for an output, an error noted, no file).  The answer in JSON
holds the pipeline and the text beside the output, so that it is known by its run
also where the output is empty.

Clients send and receive at any time and in any order (a reply may never be
received, so that a cookie comes late); `Restart` loses all sessions and open
requests while the browsers keep their cookies.

## 3. What is checked

| run | states | question | bounds |
|---|---|---|---|
| `index` | 118,514 | do look-ups and stored subedges stay true of the edges? `TypeOK`, `IndexSound`, `FirstTagsIndexed`, `OneEdgePerPlane`, `RangesWalkable`, `EdgesOnlyGrow`, `SymbolsStay` | two characters, two explicit edges, two partitions each; a word in and out of a language plane and an annotated symbol, over paths of up to two edges, ranges of hidden symbols among them; two masks, asked for at any time |
| `corrections` | 46,382 | can the corrected lattice be read? `Inv`, `AlternativesVisible`, `Acyclic`, `ReplacementReadable` | two characters, two loose vertices, insertions and replacements of one and two characters, and a converted symbol |
| `catalogs` | 333,914 | is completion sound, complete, faithful, and does it end? `TypeOK`, `PassedIsSettled`, `EverythingProvided`, `RequestKept`, `BestChosen`, `FailsOnlyIfItMust`, `Termination` | every catalog of three annotators and two tags, up to two lists of required tags each, without a circle of two or three; a single request and a choice; one annotator that cannot be created; for two catalogs every mix of languages and none to two languages |
| `pipelines` | 7,036 | does the runner with the completer keep what a pipeline promises? `RunnerTypeOK`, `AssertionsHold`, `GuessedFirst`, `OnlyTheirLanguages`, `ImplementsPipeline`, `RunEnds` | the processors of PSI-Toolkit with their tags and languages; 25 commands with every element missing or misplaced, four sets of options, two lines, four sets of missing data |
| `workers` | 1,618 | do workers that add to the lists they walk do all of their work? `TokensMatchText`, `LimitsKept`, `Lemmatized`, `JoinComplete`, `AllSelected`, `WorkersEnd` | twelve inputs and settings: up to six characters of one and three bytes, an empty line between two, limits exact, inside a character, both at once and too small; a dictionary with homonyms |
| `parser` | 21,355 | does the chart parser find what the grammar derives, once, and stop? `ChartComplete`, `DerivationsOnce`, `FirstTreesEnd`, `TurnsBounded`, `ParserEnds` | every subset of seven rules (circles, a rule from a category to itself, rules that differ in their score, ambiguity), two or three words with and without a blank, with the default limits and with two levels; the largest integer is 40 |
| `one_thread` | 160,764 | do shared sessions keep clients apart where one thread serves them? `TypeOK`, `OwnAnswer`, `PageConsistent`, `Answered` | two clients, two requests in any order, thirteen forms, one restart |
| `empty_default` | 1,015,626 | where the default output is empty, does only the first one that is not take its place? `OwnData` | two clients, three requests, four forms, one restart |

Deadlock is checked in the runs of `Lattice`.  The others end: the completion is
found, the chain is over, the bound on requests is reached.

Why the bounds are enough.  The lattice's mistakes are about the *kinds* of
edges that meet between two vertices: implicit, converted, in a plane or not,
merged or new, indexed before or after.  Two characters give an edge over both
and one over each; two explicit edges beside two implicit ones give every pair
of kinds, and two partitions the first and a later one.  For completion, three
annotators and two tags have every acyclic shape of dependencies up to a chain
of three and a diamond, lists of two tags included, and the choice of two
processors makes the recursion branch; the toolkit's own catalog is the one the
program runs with, in `pipelines`.  A mix-up of sessions needs two clients and
two requests, the second while the first is under way or after it.  For the
workers each case brings one thing that could go wrong in a loop, named where
it is defined.  A rule of the parser has at most two links, so that three words
are enough for an edge to be the left one of a rule, the right one and both;
the seven rules bring each kind of circle.  That the largest integer is 40 there takes nothing from the parser: `TurnsBounded`
says that no parse has more turns than edges, and `ParserEnds` that with the default limits
the first level is never left, so that the bound ends no parse.  Where the
default output is empty, one request makes it that of a client, another client's is shown
it, and a third one must not change it: `empty_default` has three requests.
Properties that the proofs cover do
not depend on the bounds at all.

**Fairness.** `Lattice` is checked for safety only: its operations are called by
clients that may stop at any time.  `Completion`, `PipeRunner`, `Workers` and
`ChartParser` assume weak fairness of their next-state relation: each is one
sequential computation in one thread that waits for nothing, so that as long as
a step is possible one is made.  In `Server` each thread's handling of requests
is fair (`WF_vars(Handle(t))`): `io_service::run()` goes on while there is
something to do.  Nothing is assumed of the clients, nor that a restart comes.

### Where the code does not do what its documents say

| run | what happens |
|---|---|
| `merged_tags` | an edge that gains tags by a merge is not found under the masks it now matches |
| `two_threads` | with a second thread a client gets the output for the text of another one |
| `antiselector` | the antiselector asks for a new mask inside its loop; the iterator is left dangling, and edges are passed over |
| `plain_join` | with out-tags outside any plane the outer join makes an edge refer to itself, and the exception ends the pipeline |

Smaller things were met on the way and have no run of their own:

* the output of a run that writes nothing is replaced on the page by the default one, since
  `isData()` takes an empty value for none (`session.cpp:13-24`,
  `pipe_site.cpp:60-62`, `126-131`), while the link is to the empty file of the run; where
  the default pipeline writes nothing either, the first output of any client becomes the
  default one and is stored in the sessions of all others (`pipe_site.cpp:101-102`).
  `OwnAnswer`, `PageConsistent` and `OwnData` allow for exactly this (`StandIns`);
* after a symbol was converted, its descriptor stays in the registry, and the same
  annotation can be added twice; discarding an implicit symbol adds a discarded edge
  and leaves the symbol; a visibility bit is written at a negative vertex;
  replacing a converted symbol brings the old character back (no caller in
  `src/` but the tests replaces text);
* `countEdges` may return too much, since a conversion counts as one more edge;
* an unknown time is -1 and enters the sum, so that of two sequences of equal
  quality the one with more processors of unknown time is taken as the faster
  (`auto_completer.cpp:386-394`); with no language known a processor for many
  languages disappears from the pipeline; tags count as provided in whatever
  language;
* `chart::add_edge` asks for permission with the number of edges before the new
  one and counts those of all annotators, so that one more than the maximum is
  let in; `edge_target` skips one blank where `edge_source` skips all; an edge
  passed over for its score is not taken again when a merge raises it;
* a form that is merged from two lexemes joins only with what is over its first
  parent, and a range of symbols resolved anew after a conversion may lead
  `getEdgeOrigin` elsewhere than when it was stored;
* `outEdges` of a loose vertex that does not exist adds an entry to `vertices_`
  (`lattice.cpp:380`);
* `Gobio` declares `doGetQualityScore` on the parser instead of its factory, so
  that its score is never used, and `LinkParser::languagesHandled` is not called
  by anything.

## 4. What is proved

Eight modules hold theorems, all checked by TLAPS; they hold for every value of
the constants that meets the assumptions of the modules they extend.

| module | about | theorems |
|---|---|---|
| `LatticeProofs` | look-ups | `Invariance`, `TypeCorrect`, `IndexSoundness`, `FirstTagsAreIndexed`, `OnePerPlane`, `OnlyGrowth` |
| `LatticeSymbolProofs` | symbols | `SymbolInvariance`, `RangesCanBeWalked`, `AlternativesAreVisible`, `SymbolsNeverLost` |
| `LatticeOrderProofs` | order, corrections | `OrderInvariance`, `LatticeIsAcyclic` |
| `CompletionProofs` | soundness of completion | `IInvHolds`, `TypeCorrect`, `PassedStaysSettled`, `OfferedIsProvided`, `NoAssertionFails` |
| `CompletionResultProofs` | what completion returns | `BestIsChosen`, `RequestIsKept` |
| `PipeRunnerProofs` | the runner, refinement | `RInvHolds`, `RunnerImplementsPipeline`, `RunnerTypeCorrect`, `RunnerKeepsAssertions`, `TextsAreWritten` |
| `ChartParserProofs` | the chart parser | `ChartSound`, `TurnsStayBounded`, `FirstTreesAreFinite`, `ParsesCompletely`, `DerivationsRecorded` |
| `ServerProofs` | sessions | `SharedInvariance`, `ServerTypeCorrect`, `CookiesStay`, `OneThreadInvariance`, `OwnAnswers`, `PagesConsistent`, `OwnDataHolds` |

**The lattice: look-ups.** `Invariance` proves `Spec => []Inv`.  None of the
promises about look-ups is inductive alone: that an index lists no edge that does
not match (`IndexSound`) needs that a merge only adds tags; that an edge is listed
under the masks its first tags match (`FirstTagsIndexed`) needs that those tags
are still tags of the edge (`PartitionTagsHeld`); that equal annotations of one
plane are one edge (`OneEdgePerPlane`) needs that the registry and the graph
agree (`RegistryAgrees`), which needs that every end is a vertex (`WithinText`),
also in the middle of a loop (`CallOnVertices`).  The proof goes through
`addEdge` once, block by block, and each operation is then a case of it.  From
the invariant follow `TypeCorrect`, `IndexSoundness`, `FirstTagsAreIndexed` and
`OnePerPlane`; `OnlyGrowth` is the action property.

**The lattice: symbols.** The second invariant is `Inv` with `SymbolMaskReady`
(as soon as there is an implicit symbol the mask of plain symbols is indexed,
which the look-ups of symbols rely on), `RangesWalkable` and `AlternativesVisible`.  A stored range is
two positions, so that it can be walked only as long as from every vertex inside
it a symbol edge leads on to the next; the conversion of a symbol, which clears
its bit, has to put the explicit edge into the index in the same step.
`SymbolsNeverLost` is the action property `SymbolsStay`.

**The lattice: order.** That there is no cycle is not inductive by itself,
because loose vertices have no place in the text.  The invariant (`Ordered`) is
that the edges *together with the order of the text* have no endless walk, which
is preserved by an edge that does not point back.  While a correction is in its
loop, `LoopOrdered` says where its last vertex may be: the vertices an insertion
has made are a chain that nothing leads out of yet, and a replacement walks
forward only, so that the vertex it will rejoin is still ahead of it.

**Completion: soundness.** `IInvHolds` proves that every call in progress is a
`GoodCall` (its iterator is within its sequence, no element is empty, and
everything it has passed is one promise whose required tags an earlier one
provides) and that every sequence offered provides what it requires.  The heart of
it is that `replaced` and `inserted` leave what is before the iterator as it was,
and that the walk never restarts behind the change.  `PassedStaysSettled`,
`OfferedIsProvided` and `TypeCorrect` follow; `NoAssertionFails` also needs that
what is filtered by a language is not multilingual
(`FilteredIsNotMultilingual`).  There is no assumption on the catalog but that
an annotator for just one language names one, and none on the request but that
no alternative is empty; circles of requirements are allowed.

**Completion: the result.** `BestIsChosen`: `better()` orders sequences by sums
over their processors, so the proof first shows that these sums are numbers
(`SumExists`, `ScoresAreNumbers`: were the sum missing for some size of set, there
would be a least such size); then what is not better is less or equal, what is
left over was there before (`WithoutLeaves`), and only `Choose` finds.
`RequestIsKept`: `KeptInv` says that the elements of each call's sequence can be
*accounted for*: there is a function `a` such that the element at `i` either
stands for the promises asked for at positions `a[i - 1] + 1` to `a[i]` (one, or
one for each language where it is still to be multiplied), or `a[i] = a[i - 1]`
and the element serves a later one, which is a single promise that requires what
each alternative of the element provides.  The request accounts for itself
(`RequestIsAccounted`, by `Flattening`), and there is a lemma for each way a
sequence changes: a choice (`ChoiceIsAccounted`), an insertion
(`InsertedIsAccounted`), the multiplication by languages
(`MultipliedIsAccounted`).  At the end every element is a single promise, and the
positions at which `a` grows are those of the request (`AccountedIsKept`).  The
second conjunct, `Plain`, is why nothing is dropped: without languages only what
was just inserted can be multilingual, and there the iterators coincide, which
`MultiplyByLanguages` excludes (it is `LoseRestartPosition`).  As `RequestKept`
does, the theorem speaks of requests whose multilingual alternatives have a
language to be multiplied by (`Askable`); without it one of them is erased, as
section 3 lists.

**The runner.** `RInvHolds` carries the completer's invariant through the
runner: before the completer is called there is nothing in it
(`NothingCompletedYet`) and the request being assembled has no empty
alternative, so that the call made from it is good; afterwards the chain found
is one the completer offered, and the nodes before the current one have run or
were skipped (`TurnsTaken`).  `RunnerImplementsPipeline` is the refinement: the
steps of the constructor map to stutters but for the one that finds the
chain (`ConstructMaps`), and each step of `run()` to the step of `Pipeline`
that it is for (`RunMaps`); that a processor may work when its turn comes
(`ReadyInTurn`) is where the completer's soundness is used.  Hence no processor
runs before those that provide its tags, whatever the catalog, the command and
the number of lines.  `RunnerTypeCorrect` and `RunnerKeepsAssertions` follow.
`TextsAreWritten` adds the count of texts (`TextsCounted`): all the texts begun are
written, but for the one whose chain is not at its end.  It speaks of chains of
more than one processor, because a chain of one is run as a reader only.  That
completion gives a longer one is up to the catalog.  `EveryTextWritten` itself is proved
only: no run checks it.

**The chart parser.** The proofs stand on those of the lattice: the parser adds its
edges by `AddEdge`, whose invariant they use.  `ChartSound` proves
`ParserSpec => []ChartInv`.  Its parts are that the parser's lattice has no loose
vertices and its edges run forwards (`Words`), that what was given to the parser is
still there as it was given (`AsGiven`), that until the agenda is filled there is
nothing but that (`Prepared`), that the lists hold edges of the lattice (`Lists`), and
that whatever is still to be combined is a path a rule applies to (`Combinable`).

`TurnsStayBounded` (`TurnsBounded`): at first the agenda holds each edge of the mask at
most once (`InitialEdges`), a turn takes one edge from it, and a combination puts one on it
only where the lattice has one edge more, because the count of two vertices grows
with an insertion and not with a merge (`CombinationMade`).  So a parse has no more turns
than edges, also where rules lead back to their own category; that the edges are
finitely many is left to TLC (`ParserEnds`).

`FirstTreesAreFinite` (`FirstTreesEnd`): partitions may be cyclic, where a rule leads
back to a category, but a *first* partition is recorded when its edge is made and so
rests on edges made before; the layers of edges whose first trees end grow by one
edge at least with each step (`LayersReachAll`).

`ParsesCompletely` (`ChartComplete`) is soundness and completeness of the parser for
every grammar, text and limit.  *Soundness*: each edge the parser has added follows by
one rule from what was on the chart before it.  A later partition does not matter
here, but that the edge is as the first one made it does, and that a blank between
two edges is a blank of the text (`SoundInv`).  *Completeness* is about the order of
events: of two edges that a rule combines, the one taken last has to find the other
among the marked edges.  `CompleteInv` says that every edge of the chart is waiting,
taken or marked (`AllQueued`), and that for each rule and each path of edges that have
been taken, the rule has been found or is still among the combinations to be made
(`PairsMet`).  When an edge is taken, `AllCombinations` shows that all its
combinations with marked edges are among `combos`, on either side and across a blank
(`MeetsBehind`, `MeetsBefore`); when one is made, either an edge is there for it
(`CombinationFound`) or it is dropped for a reason that leaves it found
(`DroppedLeads`).  That no limit has bitten in the end implies that none has bitten
before (`UnlimitedBefore`), as counts and levels only grow.

`DerivationsRecorded` (`DerivationsOnce`) says that the chart is a packed forest.  `applied`
are the rules that have been applied to a path and lead to an edge, and `Recorded`
that there are as many partitions of these links.  Each combination adds one to both
or to neither: it leads to one edge at most (`WhereItLeads`), a dropped one leads to one
of its own links, and a new edge is not made by anything that was applied
before, since that would have been found (`AppliedNew`).  It does so once because no
two combinations that wait are of the same edges by the same rule (`PendingOnce`), an
edge is taken once (`QueuedOnce`), and what has been taken has been combined already.
`GivenOnce` is about the input: an edge that is there already would be merged, and
then stay the next one, so that a chart that is parsed has one partition for each
edge it was given.

The hypothesis `isTokenized` is what the code takes for granted of the lattice it is
given.  Blanks are tokens, a single one between two words, and no rule names one: the
search across blanks skips one behind an edge and all of them in front of it, so that
edges with two blanks between them would meet in one order only.  What is of use to a
rule neither begins nor ends with a blank.  And an edge that a rule could have made is
an edge of the mask: otherwise what the rule makes merges into an edge that is never
taken, and what rests on it is missing.  The charts of the run are such, which TLC
evaluates (`ChartsTokenized`).

**The server.** `SharedInvariance` holds for any number of threads: a cookie,
wherever it is (in a browser, a request or a reply), names no session made for
another client, and a thread never picks up another client's session
(`CookiesStay`).  What two threads do break is that the *current* session stays
the one of the request.  `OneThreadInvariance` has the assumption `SingleThread`,
which is the server's default (`--threads 1`, `server_runner.cpp:56-57`): from
`SetCurrentSession` to `Reply` the current session is the one of the request
being handled, sessions at rest hold an output that belongs to their input, and
whatever a session or a page holds goes back to a request of that client, but for what
stands in for an empty output (`ServedRight`).  `StandIns` says what that may be: the
output of the default pipeline where it writes anything, which needs that no request
changes it (`DefaultStays`, in the invariant for any number of threads); else
nothing, or the output of a request that has been answered.  The second needs
`DefaultKnown`: `initialOutput` is one of these or is the output of the request that
is being served, and that request gets it too.  Once there is one it is not changed
until a restart, so that before any restart `StandIns` has at most one output.
`OwnAnswers`, `PagesConsistent` and `OwnDataHolds` follow, for any number of
clients, requests and restarts and for any set of runs that write nothing; the run
`two_threads` shows that the assumption of a single thread is needed.

**Only model-checked.**

* `GuessedFirst` and `OnlyTheirLanguages` are properties of the toolkit's own
  catalog, with which `pipelines` checks them.  They are false for some other
  catalogs, so there is no theorem over every value of the constants: before a
  guesser that requires what only an annotator provides, the annotator is
  inserted; for a processor that names no language, a fulfiller for any one
  language may be.
* `FailsOnlyIfItMust` is about the whole tree of choices, tried and to be tried,
  and about a fixed point over the catalog.  `ReplacementReadable` is about the
  labels along a whole path, which grows with each turn of the loop.
* `Workers`: its properties compare with reference definitions that are recursive
  (all cuts of a text).
* The liveness properties (`Termination`, `RunEnds`, `Answered`, `WorkersEnd`,
  `ParserEnds`), because liveness under fairness is out of the prover's reach, as
  are `ENABLED` and what a recursive definition computes for every input.

## 5. Not modelled

* Vendored libraries, generated bindings, help texts, the I/O of readers,
  writers and file fetchers, logging.
* What taggers, translators, spellcheckers, puddle and link compute: data, which
  reaches the lattice by the operations that are modelled.
* Of gobio: attributes and variants, the A* agenda, the reading of rules, the
  chooser and the accommodater.
* Of the lattice: the topological order of loose vertices in `VertexIterator`,
  `getPathWithSkipping`, `writeDot`; a cutter over a corrected text, where the
  lengths of the items and of the symbol edges differ.
* The selector, which adds sequences that overshoot the edge it looks at.
* Aliases: a search through definitions read from files, with a limit on its
  depth; `addCorrection` of the lemmatizers, which nothing calls; the entries the
  mapper makes for what it does not know.
* The object cache and its loaders, the PSI format, the sites that only format
  lists, the starting of the server.

## 6. Plan

What is left, in the order of importance:

1. **Corrections outside of their limits**: insertion at the end of the text, and
   replacement across an erasure, which the named guards exclude for now.
2. **`VertexIterator`** on corrected texts, with a worker on top of it.
3. The object cache with two loaders, beside `Server`.
