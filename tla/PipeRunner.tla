----------------------------- MODULE PipeRunner -----------------------------
(***************************************************************************)
(* The pipe runner (framework/pipe_runner.cpp): it turns the words of a    *)
(* command into alternatives of promises, supplies a reader, a writer and  *)
(* a language guesser, lets the completer (Completion) settle the rest,    *)
(* and runs the chain on the whole input or on one line after another.     *)
(*                                                                         *)
(* The steps of the constructor and the nodes of the chain are actions;    *)
(* the completer's own steps go on in between.  The completer's variable   *)
(* setting holds the catalog of processors; the runner fills in the        *)
(* request and the languages.  Of the options of a processor only --lang   *)
(* is kept.                                                                *)
(***************************************************************************)
EXTENDS Completion

CONSTANTS
    Name,              \* names of processors and aliases
    factoriesForName,  \* name -> processors it may stand for
    HasLangOption,     \* processors with an option --lang
    Readers, Writers,  \* processors that are not annotators
    Continuation,      \* processor -> the elements that should follow it at the end
    TxtReader, LangGuesser,
    LangRank,          \* the order of the codes of languages
    RequirementsMet,   \* promises whose checkRequirements() succeeds
    Commands

Element == [name : Name, lang : Lang \cup {NoLang}]

\* options: of the runner; lines: of the input.
Command == [elements : Seq(Element),
            options : SUBSET {"information", "list-languages", "line-by-line"},
            lines : Nat]

ASSUME RunnerAssumption ==
    /\ IsFiniteSet(Lang)
    /\ factoriesForName \in [Name -> SUBSET Processor]
    /\ HasLangOption \subseteq Processor
    /\ Readers \cup Writers \subseteq Processor
    /\ Continuation \in [Processor -> Seq(Element)]
    /\ TxtReader \in Element
    /\ LangGuesser \in Element
    /\ factoriesForName[LangGuesser.name] # {}
    /\ LangGuesser.lang = NoLang
    /\ LangRank \in [Lang -> Nat]
    /\ \A s \in Settings : s.request = <<>> /\ s.langCodes = <<>>
    /\ Commands \subseteq Command

VARIABLES
    command,        \* args and the input
    stage,          \* what the constructor, then run(), does next
    alternatives,   \* promiseAlternativeSequence_
    line,           \* the texts begun
    node,           \* current: the position in finalPipeline_, 0 between texts
    ran, skipped,   \* the positions whose processors worked on the present text
    written         \* the texts written

completerVars == <<calls, alternativeSequences, bestFound, firstException, outcome>>
runVars == <<line, node, ran, skipped, written>>
runnerVars == <<command, stage, alternatives, runVars>>
allVars == <<vars, runnerVars>>

finalPipeline == bestFound

Over == {"information", "thrown", "undefined", "done"}

-----------------------------------------------------------------------------
(* From words to promises                                                  *)

\* tryOptions_(): an option --lang fits a processor that has one, and an
\* annotator for just that language.
optionsMatch(p, lang) ==
    \/ lang = NoLang
    \/ p \in HasLangOption
    \/ setting.handling[p] = "JUST_ONE_LANGUAGE" /\ setting.handled[p] = {lang}

\* pipelineElement2Promises_(); where nothing fits it throws.
promises(element) ==
    {[processor |-> p, lang |-> IF p \in HasLangOption THEN element.lang ELSE NoLang] :
        p \in {q \in factoriesForName[element.name] : optionsMatch(q, element.lang)}}

Resolvable(elements) == \A i \in DOMAIN elements : promises(elements[i]) # {}

resolved(elements) == [i \in DOMAIN elements |-> promises(elements[i])]

\* The writer wanted by the last promise of an alternative, the only element.
continuationOf(alt) ==
    {Continuation[p.processor] :
        p \in {q \in alt : \A r \in alt : Rank[r.processor] <= Rank[q.processor]}}

\* Slip: all languages, though a processor asks for one
languagesOf_All(alts) ==
    UNION {languagesHandled(p) : p \in UNION {alts[i] : i \in DOMAIN alts}}

\* getLangCodes_(): the languages of the processors for just one language if
\* there are any, otherwise all that are handled.
languagesOf(alts) ==
    LET all  == UNION {alts[i] : i \in DOMAIN alts}
        ones == {p \in all : OneLanguage(p)}
    IN  UNION {languagesHandled(p) : p \in IF ones # {} THEN ones ELSE all}

\* ... sorted, each once.
IsSorted(langs) == \A i, j \in DOMAIN langs : i < j => LangRank[langs[i]] < LangRank[langs[j]]

GuesserGiven(alts) ==
    \E i \in DOMAIN alts : \E p \in alts[i] : languagesHandling(p) = "LANGUAGE_GUESSER"

\* Slip: the guesser goes to the end
withGuesser_Last(alts) == alts \o resolved(<<LangGuesser>>)

\* insertAfterReader_()
withGuesser(alts) == <<Head(alts)>> \o resolved(<<LangGuesser>>) \o Tail(alts)

-----------------------------------------------------------------------------
(* The constructor: parseIntoFinalPipeline_()                              *)

RunnerInit ==
    /\ setting \in Settings
    /\ command \in Commands
    /\ calls = <<>>
    /\ alternativeSequences = <<>>
    /\ bestFound = <<>>
    /\ firstException = {}
    /\ outcome = "completing"
    /\ stage = "parsing"
    /\ alternatives = <<>>
    /\ line = 0
    /\ node = 0
    /\ ran = {}
    /\ skipped = {}
    /\ written = 0

Constructing == UNCHANGED <<vars, command, runVars>>

\* An option that only asks for information ends the runner; otherwise there
\* has to be a pipeline, and every element of it has to fit a processor.
Parse ==
    /\ stage = "parsing"
    /\ stage' = IF "information" \in command.options THEN "information"
                ELSE IF command.elements = <<>> \/ ~Resolvable(command.elements) THEN "thrown"
                ELSE "reader"
    /\ alternatives' = IF stage' = "reader" THEN resolved(command.elements) ELSE <<>>
    /\ Constructing

\* What to put in front: nothing, if one of the first promises reads.
suppliedReader(alts) ==
    IF \E p \in Head(alts) : p.processor \in Readers THEN <<>> ELSE <<TxtReader>>

CheckReader ==
    LET supplied == suppliedReader(alternatives)
    IN  /\ stage = "reader"
        /\ stage' = IF Resolvable(supplied) THEN "writer" ELSE "thrown"
        /\ alternatives' = IF Resolvable(supplied) THEN resolved(supplied) \o alternatives
                           ELSE alternatives
        /\ Constructing

CheckWriter ==
    /\ stage = "writer"
    /\ \E continuation \in continuationOf(alternatives[Len(alternatives)]) :
          /\ stage' = IF Resolvable(continuation) THEN "languages" ELSE "thrown"
          /\ alternatives' = IF Resolvable(continuation) THEN alternatives \o resolved(continuation)
                             ELSE alternatives
    /\ Constructing

\* getLangCodes_(), checkLangGuesser_() and the call of the completer.
CheckLanguages ==
    LET langs == languagesOf(alternatives)
    IN  /\ stage = "languages"
        /\ stage' = "completing"
        /\ alternatives' = IF langs # {} /\ ~GuesserGiven(alternatives)
                           THEN withGuesser(alternatives) ELSE alternatives
        /\ \E langCodes \in [1 .. Cardinality(langs) -> langs] :
              /\ IsSorted(langCodes)
              /\ setting' = [setting EXCEPT !.request = alternatives', !.langCodes = langCodes]
        /\ calls' = <<newCall(alternatives')>>
        /\ UNCHANGED <<alternativeSequences, bestFound, firstException, outcome, command, runVars>>

Completing ==
    /\ stage = "completing"
    /\ Next
    /\ UNCHANGED runnerVars

\* finalPipeline_, or "pipe-line cannot be resolved"
Completed ==
    /\ stage = "completing"
    /\ outcome \in Ended
    /\ stage' = CASE outcome = "found" -> IF "list-languages" \in command.options
                                          THEN "information" ELSE "running"
                  [] outcome = "undefined" -> "undefined"
                  [] OTHER -> "thrown"
    /\ UNCHANGED <<vars, command, alternatives, runVars>>

-----------------------------------------------------------------------------
(* run()                                                                   *)

Texts == IF "line-by-line" \in command.options THEN command.lines ELSE 1

Running_ == UNCHANGED <<vars, command, alternatives>>

\* run_(): a lattice of its own for each text
BeginText ==
    /\ stage = "running"
    /\ node = 0
    /\ line < Texts
    /\ line' = line + 1
    /\ node' = 1
    /\ ran' = {}
    /\ skipped' = {}
    /\ UNCHANGED <<stage, written>>
    /\ Running_

InChain == stage = "running" /\ node \in DOMAIN finalPipeline

IsFirst == node = 1
IsLast == node = Len(finalPipeline) /\ ~IsFirst

\* The cast in runPipelineNode_() to what the position calls for succeeds.
fits(p) ==
    IF IsFirst THEN p.processor \in Readers
    ELSE IF IsLast THEN p.processor \in Writers
    ELSE p.processor \in setting.annotators

\* Slip: the requirements are not looked at twice
SkipNode_AndStop ==
    /\ InChain
    /\ finalPipeline[node] \notin RequirementsMet
    /\ skipped' = skipped \cup {node}
    /\ node' = Len(finalPipeline) + 1
    /\ UNCHANGED <<stage, line, ran, written>>
    /\ Running_

\* Slip: trying the processor again
SkipNode_Again ==
    /\ InChain
    /\ finalPipeline[node] \notin RequirementsMet
    /\ skipped' = skipped \cup {node}
    /\ UNCHANGED <<stage, line, node, ran, written>>
    /\ Running_

\* "Cannot run node, because requirements are not met"; the next one runs.
SkipNode ==
    /\ InChain
    /\ finalPipeline[node] \notin RequirementsMet
    /\ skipped' = skipped \cup {node}
    /\ node' = node + 1
    /\ UNCHANGED <<stage, line, ran, written>>
    /\ Running_

\* readIntoLattice(), annotate() or writeLattice()
RunNode ==
    /\ InChain
    /\ finalPipeline[node] \in RequirementsMet
    /\ fits(finalPipeline[node])
    /\ ran' = ran \cup {node}
    /\ node' = node + 1
    /\ written' = IF IsLast THEN written + 1 ELSE written
    /\ UNCHANGED <<stage, line, skipped>>
    /\ Running_

\* An exception of the processor, or of the runner where it does not fit
\* ("... should be a reader"), ends the run, the remaining lines included.
NodeThrows ==
    /\ InChain
    /\ finalPipeline[node] \in RequirementsMet
    /\ stage' = "thrown"
    /\ UNCHANGED runVars
    /\ Running_

EndText ==
    /\ stage = "running"
    /\ node > Len(finalPipeline)
    /\ node' = 0
    /\ UNCHANGED <<stage, line, ran, skipped, written>>
    /\ Running_

Return0 ==
    /\ stage = "running"
    /\ node = 0
    /\ line = Texts
    /\ stage' = "done"
    /\ UNCHANGED runVars
    /\ Running_

Construct == Parse \/ CheckReader \/ CheckWriter \/ CheckLanguages \/ Completing \/ Completed

Run == BeginText \/ SkipNode \/ RunNode \/ NodeThrows \/ EndText \/ Return0

RunnerNext == Construct \/ Run

RunnerSpec == RunnerInit /\ [][RunnerNext]_allVars
RunnerFairSpec == RunnerSpec /\ WF_allVars(RunnerNext)

-----------------------------------------------------------------------------
(* Properties                                                              *)

RunnerTypeOK ==
    /\ TypeOK
    /\ command \in Command
    /\ stage \in {"parsing", "reader", "writer", "languages", "completing", "running"} \cup Over
    /\ alternatives \in Seq(SUBSET Promise)
    /\ {line, node, written} \subseteq Nat
    /\ {ran, skipped} \subseteq SUBSET Nat

\* The runner as Pipeline sees it.
Links ==
    [i \in DOMAIN finalPipeline |->
        LET p == finalPipeline[i].processor
        IN  [required |-> {setting.required[p][k] : k \in DOMAIN setting.required[p]},
             provided |-> setting.provided[p]]]

Chain == IF outcome = "found" THEN Links ELSE <<>>

Status == IF stage \in Over THEN "over"
          ELSE IF stage = "running" /\ node # 0 THEN "working" ELSE "idle"

Abstract == INSTANCE Pipeline WITH status <- Status, chain <- Chain, passed <- skipped

\* Every text is read, annotated in order with the required tags at hand, and
\* written, whatever was completed, skipped or thrown on the way.
ImplementsPipeline == Abstract!Spec

\* A guesser supplied by the runner works before everything but the reader,
\* however many processors the completer inserts (checkLangGuesser_ and
\* complete_ place theirs independently).
GuessedFirst ==
    /\ stage = "running"
    /\ setting.langCodes # <<>>
    /\ ~GuesserGiven(resolved(command.elements))
    => Len(finalPipeline) > 1 /\ languagesHandling(finalPipeline[2]) = "LANGUAGE_GUESSER"

\* The languages of the user's processors that handle just one.
TheirLanguages ==
    UNION {languagesHandled(p) :
              p \in {q \in UNION {promises(command.elements[i]) : i \in DOMAIN command.elements} :
                        OneLanguage(q)}}

\* One processor that names its language settles it for all: whatever is chosen or
\* supplied for just one language is for one of those (getLangCodes_,
\* filtreByLanguage, findFulfillers_).
OnlyTheirLanguages ==
    stage = "running" /\ TheirLanguages # {} =>
        \A i \in DOMAIN finalPipeline :
            OneLanguage(finalPipeline[i]) =>
                languagesHandled(finalPipeline[i]) \subseteq TheirLanguages

\* A run that was not given up has written every text: a writer is supplied, stays
\* last, and is never passed over for want of tags (framework/data/tutorial.txt:93-107).
EveryTextWritten ==
    stage = "done" /\ finalPipeline[Len(finalPipeline)] \in RequirementsMet => written = Texts

\* The constructor and run() end, for every line of the input.
RunEnds == <>(stage \in Over)
=============================================================================
