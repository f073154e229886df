-------------------------- MODULE PipeRunnerProofs --------------------------
(***************************************************************************)
(* Proofs about the pipe runner, for every set of processors and every     *)
(* command: it implements Pipeline, and the completer inside it keeps the  *)
(* invariant it has on its own.                                            *)
(***************************************************************************)
EXTENDS PipeRunner, CompletionProofs, FiniteSetTheorems

-----------------------------------------------------------------------------
(* From words to promises.                                                 *)

LEMMA PromisesType ==
    ASSUME NEW element \in Element
    PROVE  promises(element) \in SUBSET Promise
<1>1. element.lang \in Lang \cup {NoLang} /\ factoriesForName[element.name] \subseteq Processor
    BY RunnerAssumption DEF Element
<1> QED BY <1>1 DEF promises, Promise

LEMMA ResolvedType ==
    ASSUME NEW elements \in Seq(Element), Resolvable(elements)
    PROVE  /\ resolved(elements) \in Seq(Alternatives)
           /\ Len(resolved(elements)) = Len(elements)
<1>1. DOMAIN elements = 1 .. Len(elements) /\ Len(elements) \in Nat
    OBVIOUS
<1>2. \A i \in DOMAIN elements : promises(elements[i]) \in Alternatives
    BY <1>1, ElementOfSeq, PromisesType, AlternativesAre DEF Resolvable
<1> QED BY <1>1, <1>2 DEF resolved

\* The elements the runner supplies.
LEMMA SuppliedType ==
    /\ <<LangGuesser>> \in Seq(Element)
    /\ \A alts : suppliedReader(alts) \in Seq(Element)
    /\ \A alt \in SUBSET Promise : \A c \in continuationOf(alt) : c \in Seq(Element)
<1>1. <<LangGuesser>> \in Seq(Element) /\ <<TxtReader>> \in Seq(Element)
    BY RunnerAssumption
<1>2. ASSUME NEW alts PROVE suppliedReader(alts) \in Seq(Element)
    BY <1>1 DEF suppliedReader
<1>3. ASSUME NEW alt \in SUBSET Promise, NEW c \in continuationOf(alt) PROVE c \in Seq(Element)
    <2>1. PICK p \in alt : c = Continuation[p.processor]
        BY DEF continuationOf
    <2>2. p.processor \in Processor
        BY DEF Promise
    <2> QED BY <2>1, <2>2, RunnerAssumption
<1> QED BY <1>1, <1>2, <1>3

\* A guesser without options always fits.
LEMMA GuesserResolvable == Resolvable(<<LangGuesser>>)
<1>1. PICK p : p \in factoriesForName[LangGuesser.name]
    BY RunnerAssumption
<1>2. optionsMatch(p, LangGuesser.lang)
    BY RunnerAssumption DEF optionsMatch
<1>3. promises(LangGuesser) # {}
    BY <1>1, <1>2 DEF promises
<1> QED BY <1>3 DEF Resolvable

\* The alternatives stay a sequence of alternatives with a guesser among them.
LEMMA WithGuesserType ==
    ASSUME NEW alts \in Seq(Alternatives), alts # <<>>
    PROVE  withGuesser(alts) \in Seq(Alternatives) /\ withGuesser(alts) # <<>>
<1>1. Head(alts) \in Alternatives /\ Tail(alts) \in Seq(Alternatives)
    BY HeadTailProperties
<1>2. <<Head(alts)>> \in Seq(Alternatives) /\ Len(<<Head(alts)>>) = 1
    BY <1>1
<1>3. resolved(<<LangGuesser>>) \in Seq(Alternatives)
    BY SuppliedType, GuesserResolvable, ResolvedType
<1>4. /\ withGuesser(alts) \in Seq(Alternatives)
      /\ Len(withGuesser(alts)) = 1 + Len(resolved(<<LangGuesser>>)) + Len(Tail(alts))
    BY <1>1, <1>2, <1>3, Joined DEF withGuesser
<1>5. Len(resolved(<<LangGuesser>>)) \in Nat /\ Len(Tail(alts)) \in Nat
    BY <1>1, <1>3
<1>6. Len(withGuesser(alts)) # 0
    BY <1>4, <1>5
<1> QED BY <1>4, <1>6

\* Two sequences of alternatives in a row.
LEMMA Appended ==
    ASSUME NEW s \in Seq(Alternatives), NEW t \in Seq(Alternatives)
    PROVE  /\ s \o t \in Seq(Alternatives)
           /\ s # <<>> \/ t # <<>> => s \o t # <<>>
<1>1. s \o t \in Seq(Alternatives) /\ Len(s \o t) = Len(s) + Len(t)
    BY ConcatProperties
<1>2. Len(s) \in Nat /\ Len(t) \in Nat
    OBVIOUS
<1>3. (s # <<>> => Len(s) # 0) /\ (t # <<>> => Len(t) # 0)
    BY EmptySeq
<1>4. s # <<>> \/ t # <<>> => Len(s \o t) # 0
    BY <1>1, <1>2, <1>3
<1> QED BY <1>1, <1>4

-----------------------------------------------------------------------------
(* The invariant                                                           *)

Assembling == {"parsing", "reader", "writer", "languages"}

\* Nothing is completed while the request is put together ...
NothingCompletedYet == stage \in Assembling => calls = <<>> /\ outcome = "completing"

\* ... and nothing runs before all of it is.
NothingRunYet ==
    stage \in Assembling \cup {"completing"} =>
        node = 0 /\ ran = {} /\ skipped = {} /\ written = 0

\* The positions before the present one have had their turn.
TurnsTaken ==
    stage = "running" =>
        /\ outcome = "found"
        /\ node \in 0 .. Len(finalPipeline) + 1
        /\ node # 0 => ran \cup skipped = 1 .. node - 1

RInv ==
    /\ IInv
    /\ command \in Command
    /\ stage \in Assembling \cup {"completing", "running"} \cup Over
    /\ alternatives \in Seq(Alternatives)
    /\ stage \in Assembling \ {"parsing"} => alternatives # <<>>
    /\ line \in Nat /\ node \in Nat /\ written \in Nat
    /\ ran \in SUBSET Nat /\ skipped \in SUBSET Nat
    /\ NothingCompletedYet
    /\ NothingRunYet
    /\ TurnsTaken

LEMMA InitRInv == RunnerInit => RInv
<1> SUFFICES ASSUME RunnerInit PROVE RInv
    OBVIOUS
<1>1. setting \in GoodSetting
    BY CompletionAssumption DEF RunnerInit
<1>2. <<>> \in Offered
    BY DEF Offered, Provided
<1>3. IInv
    BY <1>1, <1>2 DEF RunnerInit, IInv
<1>4. command \in Command
    BY RunnerAssumption DEF RunnerInit
<1> QED BY <1>3, <1>4 DEF RunnerInit, RInv, NothingCompletedYet, NothingRunYet, TurnsTaken,
                          Assembling

\* The completer does not move.
LEMMA SameIInv ==
    ASSUME IInv, UNCHANGED vars
    PROVE  IInv'
    BY NextIInv

\* The steps that put the request together, up to the last.
LEMMA ConstructingStep ==
    ASSUME RInv, stage \in Assembling, Constructing,
           stage' \in Assembling \cup Over,
           alternatives' \in Seq(Alternatives),
           stage' \in Assembling \ {"parsing"} => alternatives' # <<>>
    PROVE  RInv'
<1>1. IInv'
    BY SameIInv DEF RInv, Constructing
<1>2. stage' # "running" /\ stage' # "completing"
    BY DEF Assembling, Over
<1> QED BY <1>1, <1>2
        DEF RInv, Constructing, vars, runVars, NothingCompletedYet, NothingRunYet, TurnsTaken

LEMMA ParseStep ==
    ASSUME RInv, Parse
    PROVE  RInv'
<1>1. stage \in Assembling /\ Constructing /\ stage' \in {"information", "thrown", "reader"}
    BY DEF Parse, Assembling
<1>2. CASE stage' = "reader"
    <2>1. command.elements # <<>> /\ Resolvable(command.elements)
        BY <1>2 DEF Parse
    <2>2. command.elements \in Seq(Element)
        BY DEF RInv, Command
    <2>3. alternatives' = resolved(command.elements)
        BY <1>2 DEF Parse
    <2>4. /\ alternatives' \in Seq(Alternatives)
          /\ Len(alternatives') = Len(command.elements)
        BY <2>1, <2>2, <2>3, ResolvedType
    <2>5. Len(command.elements) # 0
        BY <2>1, <2>2, EmptySeq
    <2>6. alternatives' # <<>>
        BY <2>4, <2>5
    <2> QED BY <1>1, <2>4, <2>6, ConstructingStep DEF Assembling, Over
<1>3. CASE stage' # "reader"
    <2>1. alternatives' = <<>>
        BY <1>3 DEF Parse
    <2>2. alternatives' \in Seq(Alternatives)
        BY <2>1
    <2> QED BY <1>1, <1>3, <2>2, ConstructingStep DEF Assembling, Over
<1> QED BY <1>2, <1>3

LEMMA CheckReaderStep ==
    ASSUME RInv, CheckReader
    PROVE  RInv'
<1> DEFINE supplied == suppliedReader(alternatives)
<1>1. /\ stage \in Assembling \ {"parsing"} /\ Constructing /\ stage' \in {"writer", "thrown"}
      /\ alternatives' = IF Resolvable(supplied) THEN resolved(supplied) \o alternatives
                         ELSE alternatives
    BY DEF CheckReader, Assembling
<1>2. alternatives \in Seq(Alternatives) /\ alternatives # <<>>
    BY <1>1 DEF RInv
<1>3. supplied \in Seq(Element)
    BY SuppliedType
<1> HIDE DEF supplied
<1>4. Resolvable(supplied) => resolved(supplied) \in Seq(Alternatives)
    BY <1>3, ResolvedType
<1>5. alternatives' \in Seq(Alternatives) /\ alternatives' # <<>>
    BY <1>1, <1>2, <1>4, Appended
<1> QED BY <1>1, <1>5, ConstructingStep DEF Assembling, Over

LEMMA CheckWriterStep ==
    ASSUME RInv, CheckWriter
    PROVE  RInv'
<1>1. PICK continuation \in continuationOf(alternatives[Len(alternatives)]) :
          /\ stage' = IF Resolvable(continuation) THEN "languages" ELSE "thrown"
          /\ alternatives' = IF Resolvable(continuation)
                             THEN alternatives \o resolved(continuation) ELSE alternatives
    BY DEF CheckWriter
<1>2. stage \in Assembling \ {"parsing"} /\ Constructing
    BY DEF CheckWriter, Assembling
<1>3. alternatives \in Seq(Alternatives) /\ alternatives # <<>>
    BY <1>2 DEF RInv
<1>4. Len(alternatives) \in 1 .. Len(alternatives)
    BY <1>3, EmptySeq, LenProperties
<1>5. alternatives[Len(alternatives)] \in SUBSET Promise
    BY <1>3, <1>4, ElementOfSeq, AlternativesAre
<1>6. continuation \in Seq(Element)
    BY <1>5, SuppliedType
<1>7. Resolvable(continuation) => resolved(continuation) \in Seq(Alternatives)
    BY <1>6, ResolvedType
<1>8. alternatives' \in Seq(Alternatives) /\ alternatives' # <<>>
    BY <1>1, <1>3, <1>7, Appended
<1> QED BY <1>1, <1>2, <1>8, ConstructingStep DEF Assembling, Over

\* A sorted choice of languages is a list of languages.
LEMMA LangCodesType ==
    ASSUME NEW langs \in SUBSET Lang, NEW langCodes \in [1 .. Cardinality(langs) -> langs]
    PROVE  langCodes \in Seq(Lang)
<1>1. Cardinality(langs) \in Nat
    BY RunnerAssumption, FS_Subset, FS_CardinalityType
<1>2. langCodes \in Seq(langs)
    BY <1>1
<1> QED BY <1>2

LEMMA LanguagesType ==
    ASSUME setting \in GoodSetting, NEW alts \in Seq(Alternatives)
    PROVE  languagesOf(alts) \in SUBSET Lang
<1>1. ASSUME NEW p \in Promise PROVE languagesHandled(p) \in SUBSET Lang
    <2>1. p.processor \in Processor /\ p.lang \in Lang \cup {NoLang}
        BY DEF Promise
    <2>2. setting.handled[p.processor] \in SUBSET Lang
        BY <2>1, SettingFields
    <2> QED BY <2>1, <2>2 DEF languagesHandled
<1>2. ASSUME NEW p \in UNION {alts[i] : i \in DOMAIN alts} PROVE p \in Promise
    <2>1. PICK i \in DOMAIN alts : p \in alts[i]
        OBVIOUS
    <2>2. alts[i] \in SUBSET Promise
        BY ElementOfSeq, AlternativesAre
    <2> QED BY <2>1, <2>2
<1> QED BY <1>1, <1>2 DEF languagesOf

\* The request that the completer starts with is one it can deal with.
LEMMA CheckLanguagesStep ==
    ASSUME RInv, CheckLanguages
    PROVE  RInv'
<1> DEFINE langs == languagesOf(alternatives)
<1>1. /\ stage = "languages" /\ stage' = "completing"
      /\ alternatives' = IF langs # {} /\ ~GuesserGiven(alternatives)
                         THEN withGuesser(alternatives) ELSE alternatives
      /\ calls' = <<newCall(alternatives')>>
      /\ UNCHANGED <<alternativeSequences, bestFound, firstException, outcome, command, runVars>>
    BY DEF CheckLanguages
<1>2. PICK langCodes \in [1 .. Cardinality(langs) -> langs] :
          setting' = [setting EXCEPT !.request = alternatives', !.langCodes = langCodes]
    BY DEF CheckLanguages
<1>3. /\ alternatives \in Seq(Alternatives) /\ alternatives # <<>>
      /\ setting \in GoodSetting /\ outcome = "completing"
    BY <1>1 DEF RInv, IInv, NothingCompletedYet, Assembling
<1>4. alternatives' \in Seq(Alternatives)
    BY <1>1, <1>3, WithGuesserType
<1>5. langCodes \in Seq(Lang)
    BY <1>3, LanguagesType, LangCodesType
<1>6. setting' \in GoodSetting
    <2>1. alternatives' \in Seq(SUBSET Promise)
        BY <1>4 DEF Alternatives
    <2>2. \A i \in DOMAIN alternatives' : alternatives'[i] # {}
        BY <1>4, ElementOfSeq, AlternativesAre
    <2>3. /\ setting \in Setting
          /\ \A p \in Processor : setting.handling[p] = "JUST_ONE_LANGUAGE"
                                      => \E l \in Lang : setting.handled[p] = {l}
        BY <1>3 DEF GoodSetting
    <2>4. /\ setting' \in Setting
          /\ setting'.request = alternatives'
          /\ setting'.handling = setting.handling
          /\ setting'.handled = setting.handled
        BY <1>2, <1>5, <2>1, <2>3 DEF Setting
    <2> QED BY <2>2, <2>3, <2>4 DEF GoodSetting
<1>7. newCall(alternatives') \in GoodCall'
    <2>1. alternatives' \in Seq(SUBSET Promise)
        BY <1>4 DEF Alternatives
    <2>2. newCall(alternatives') \in Call
        BY <2>1 DEF newCall, Call
    <2>3. /\ newCall(alternatives').sequence = alternatives'
          /\ newCall(alternatives').iter = 1
          /\ newCall(alternatives').restartPosition = 1
        BY DEF newCall
    <2> QED BY <1>4, <2>2, <2>3 DEF GoodCall
<1>8. <<newCall(alternatives')>> \in Seq(GoodCall')
    BY <1>7
<1>9. /\ alternativeSequences' \in Seq(Offered') /\ bestFound' \in Offered'
    <2>1. ASSUME NEW seq PROVE Provided(seq)' <=> Provided(seq)
        <3>1. setting'.required = setting.required /\ setting'.provided = setting.provided
            BY <1>2, <1>3 DEF GoodSetting, Setting
        <3> QED BY <3>1 DEF Provided, provides
    <2>2. Offered' = Offered
        BY <2>1 DEF Offered
    <2> QED BY <1>1, <2>2 DEF RInv, IInv
<1>10. IInv'
    BY <1>1, <1>3, <1>6, <1>8, <1>9 DEF RInv, IInv
<1> QED BY <1>1, <1>4, <1>10
        DEF RInv, runVars, NothingCompletedYet, NothingRunYet, TurnsTaken, Assembling

LEMMA CompletingStep ==
    ASSUME RInv, Completing
    PROVE  RInv'
<1>1. IInv'
    BY NextIInv DEF RInv, Completing
<1> QED BY <1>1
        DEF RInv, Completing, runnerVars, runVars, NothingCompletedYet, NothingRunYet, TurnsTaken,
            Assembling

LEMMA CompletedStep ==
    ASSUME RInv, Completed
    PROVE  RInv'
<1>1. IInv'
    BY SameIInv DEF RInv, Completed
<1>2. stage' \in Over \cup {"running"} /\ (stage' = "running" => outcome = "found")
    BY DEF Completed, Over
<1>3. bestFound \in Seq(Promise)
    BY DEF RInv, IInv, Offered
<1>4. Len(bestFound) \in Nat
    BY <1>3
<1> QED BY <1>1, <1>2, <1>4
        DEF RInv, Completed, vars, runVars, NothingCompletedYet, NothingRunYet, TurnsTaken,
            Assembling, Over, finalPipeline

\* A step of run() that leaves the turns in order.
LEMMA RunningStep ==
    ASSUME RInv, stage = "running", Running_,
           stage' \in {"running"} \cup Over,
           line' \in Nat, written' \in Nat, ran' \in SUBSET Nat, skipped' \in SUBSET Nat,
           node' \in 0 .. Len(finalPipeline) + 1,
           node' # 0 => ran' \cup skipped' = 1 .. node' - 1
    PROVE  RInv'
<1>1. IInv'
    BY SameIInv DEF RInv, Running_
<1>2. Len(finalPipeline)' = Len(finalPipeline) /\ outcome' = outcome
    BY DEF Running_, vars, finalPipeline
<1>3. node' \in Nat
    OBVIOUS
<1> QED BY <1>1, <1>2, <1>3
        DEF RInv, Running_, NothingCompletedYet, NothingRunYet, TurnsTaken, Assembling, Over

\* What is known of the chain while it runs.
LEMMA InTheChain ==
    ASSUME RInv, stage = "running"
    PROVE  /\ bestFound \in Seq(Promise)
           /\ DOMAIN finalPipeline = 1 .. Len(finalPipeline)
           /\ Len(finalPipeline) \in Nat
           /\ node \in 0 .. Len(finalPipeline) + 1
           /\ line \in Nat /\ written \in Nat /\ ran \in SUBSET Nat /\ skipped \in SUBSET Nat
           /\ outcome = "found" /\ Provided(finalPipeline)
           /\ node # 0 => ran \cup skipped = 1 .. node - 1
<1>1. bestFound \in Seq(Promise) /\ Provided(bestFound)
    BY DEF RInv, IInv, Offered
<1> QED BY <1>1 DEF RInv, TurnsTaken, finalPipeline

\* One more processor has had its turn.
LEMMA NextTurn ==
    ASSUME RInv, InChain, NEW did, NEW passed,
           did \cup passed = ran \cup skipped \cup {node}
    PROVE  /\ node + 1 \in 0 .. Len(finalPipeline) + 1
           /\ did \cup passed = 1 .. (node + 1) - 1
<1>1. node \in 1 .. Len(finalPipeline) /\ Len(finalPipeline) \in Nat
    BY InTheChain DEF InChain
<1>2. ran \cup skipped = 1 .. node - 1
    BY <1>1, InTheChain DEF InChain
<1> QED BY <1>1, <1>2

LEMMA RunStep ==
    ASSUME RInv, Run
    PROVE  RInv'
<1>1. stage = "running" /\ Running_
    BY DEF Run, BeginText, SkipNode, RunNode, NodeThrows, EndText, Return0, InChain
<1>2. CASE BeginText
    <2>1. 1 \in 0 .. Len(finalPipeline) + 1 /\ line + 1 \in Nat
        BY <1>1, InTheChain
    <2> QED BY <1>1, <1>2, <2>1, InTheChain, RunningStep DEF BeginText
<1>3. CASE SkipNode
    <2>1. skipped' \in SUBSET Nat /\ ran' \cup skipped' = ran \cup skipped \cup {node}
        BY <1>1, <1>3, InTheChain DEF SkipNode
    <2>2. node' \in 0 .. Len(finalPipeline) + 1 /\ ran' \cup skipped' = 1 .. node' - 1
        BY <1>3, <2>1, NextTurn DEF SkipNode
    <2> QED BY <1>1, <1>3, <2>1, <2>2, InTheChain, RunningStep DEF SkipNode
<1>4. CASE RunNode
    <2>1. /\ ran' \in SUBSET Nat /\ ran' \cup skipped' = ran \cup skipped \cup {node}
          /\ written' \in Nat
        BY <1>1, <1>4, InTheChain DEF RunNode
    <2>2. node' \in 0 .. Len(finalPipeline) + 1 /\ ran' \cup skipped' = 1 .. node' - 1
        BY <1>4, <2>1, NextTurn DEF RunNode
    <2> QED BY <1>1, <1>4, <2>1, <2>2, InTheChain, RunningStep DEF RunNode
<1>5. CASE NodeThrows \/ Return0
    BY <1>1, <1>5, InTheChain, RunningStep DEF NodeThrows, Return0, runVars, Over
<1>6. CASE EndText
    BY <1>1, <1>6, InTheChain, RunningStep DEF EndText
<1> QED BY <1>2, <1>3, <1>4, <1>5, <1>6 DEF Run

LEMMA NextRInv == RInv /\ [RunnerNext]_allVars => RInv'
<1> SUFFICES ASSUME RInv, [RunnerNext]_allVars PROVE RInv'
    OBVIOUS
<1>1. CASE Parse \/ CheckReader \/ CheckWriter \/ CheckLanguages
    BY <1>1, ParseStep, CheckReaderStep, CheckWriterStep, CheckLanguagesStep
<1>2. CASE Completing \/ Completed
    BY <1>2, CompletingStep, CompletedStep
<1>3. CASE Run
    BY <1>3, RunStep
<1>4. CASE UNCHANGED allVars
    <2>1. IInv'
        BY <1>4, SameIInv DEF RInv, allVars
    <2> QED BY <1>4, <2>1
            DEF RInv, allVars, vars, runnerVars, runVars, NothingCompletedYet, NothingRunYet,
                TurnsTaken, finalPipeline
<1> QED BY <1>1, <1>2, <1>3, <1>4 DEF RunnerNext, Construct

\* The invariant holds in every state of every run of the runner, while the
\* completer works and afterwards (pipe_runner.cpp:80-132, 457-527).
THEOREM RInvHolds == RunnerSpec => []RInv
    BY InitRInv, NextRInv, PTL DEF RunnerSpec

\* Every variable of the runner and of its completer is of its type.
THEOREM RunnerTypeCorrect == RunnerSpec => []RunnerTypeOK
<1>1. RInv => RunnerTypeOK
    <2> SUFFICES ASSUME RInv PROVE RunnerTypeOK
        OBVIOUS
    <2>1. GoodCall \subseteq Call /\ Offered \subseteq Seq(Promise) /\ Alternatives \subseteq SUBSET Promise
        BY DEF GoodCall, Offered, Alternatives
    <2>2. /\ calls \in Seq(Call) /\ alternativeSequences \in Seq(Seq(Promise))
          /\ alternatives \in Seq(SUBSET Promise)
        BY <2>1 DEF RInv, IInv
    <2>3. TypeOK
        BY <2>1, <2>2 DEF RInv, IInv, TypeOK, GoodSetting
    <2> QED BY <2>2, <2>3 DEF RInv, RunnerTypeOK, Assembling
<1> QED BY RInvHolds, <1>1, PTL

\* The assertions of the completer hold for every request the runner makes
\* (auto_completer.cpp:103, 152, 227, 374).
THEOREM RunnerKeepsAssertions == RunnerSpec => []AssertionsHold
<1>1. RInv => AssertionsHold
    BY IInvAsserts DEF RInv
<1> QED BY RInvHolds, <1>1, PTL

-----------------------------------------------------------------------------
(* The runner implements Pipeline: one step of the runner is one step of   *)
(* the pipeline, or none.                                                  *)

\* Before anything is found there is no chain, and nothing works.
LEMMA IdleWhileConstructing ==
    ASSUME RInv, stage \in Assembling \cup {"completing"}
    PROVE  /\ Status = "idle"
           /\ outcome # "found" => Chain = <<>>
    BY DEF RInv, Status, Chain, NothingRunYet, Assembling, Over

\* A step before the run maps to none, to Assemble or to Finish.
LEMMA ConstructMaps ==
    ASSUME RInv, RInv', Construct
    PROVE  [Abstract!Next]_(Abstract!vars)
<1>1. CASE Parse \/ CheckReader \/ CheckWriter
    <2>1. /\ stage \in Assembling /\ stage' \in Assembling \cup Over /\ Constructing
          /\ outcome = "completing"
        BY <1>1 DEF Parse, CheckReader, CheckWriter, Assembling, Over, RInv, NothingCompletedYet
    <2>2. Chain' = Chain /\ UNCHANGED <<ran, skipped, written>> /\ Status = "idle"
        BY <2>1, IdleWhileConstructing DEF Constructing, vars, runVars, Chain
    <2>3. Status' = "idle" \/ Status' = "over"
        BY <2>1 DEF Status, Assembling, Over
    <2>4. CASE Status' = "idle"
        BY <2>2, <2>4 DEF Abstract!vars
    <2>5. CASE Status' = "over"
        BY <2>2, <2>5 DEF Abstract!Next, Abstract!Finish
    <2> QED BY <2>3, <2>4, <2>5
<1>2. CASE CheckLanguages
    <2>1. /\ stage \in Assembling /\ stage' = "completing" /\ outcome = "completing"
          /\ outcome' = outcome /\ UNCHANGED <<ran, skipped, written>>
        BY <1>2 DEF CheckLanguages, Assembling, runVars, RInv, NothingCompletedYet
    <2>2. Status = "idle" /\ Status' = "idle" /\ Chain = <<>> /\ Chain' = <<>>
        BY <2>1, IdleWhileConstructing DEF Status, Chain, Over, RInv, NothingRunYet
    <2> QED BY <2>1, <2>2 DEF Abstract!vars
<1>3. CASE Completing
    <2>1. outcome \in {"completing", "choosing"}
        BY <1>3 DEF Completing, Next, MultiplyByLanguages, GiveUpOnLanguage, LoseRestartPosition,
                    TryAlternative, AllTried, InsertFulfillers, GiveUpOnTags, Advance, Collect,
                    StartChoosing, Choose, Fail, Running
    <2>2. /\ stage = "completing" /\ stage' = "completing" /\ outcome # "found"
          /\ UNCHANGED <<ran, skipped, written>>
        BY <1>3, <2>1 DEF Completing, runnerVars, runVars
    <2>3. Status = "idle" /\ Chain = <<>>
        BY <2>2, IdleWhileConstructing
    <2>4. Status' = "idle"
        BY <2>2 DEF Status, Over
    <2> QED BY <2>2, <2>3, <2>4 DEF Abstract!Next, Abstract!Assemble
<1>4. CASE Completed
    <2>1. /\ stage = "completing" /\ stage' \in Over \cup {"running"} /\ node' = 0
          /\ UNCHANGED <<ran, skipped, written>> /\ UNCHANGED vars
        BY <1>4 DEF Completed, Over, runVars, RInv, NothingRunYet
    <2>2. Chain' = Chain /\ Status = "idle"
        BY <2>1, IdleWhileConstructing DEF vars, Chain, Links, finalPipeline
    <2>3. Status' = "idle" \/ Status' = "over"
        BY <2>1 DEF Status, Over
    <2>4. CASE Status' = "idle"
        BY <2>1, <2>2, <2>4 DEF Abstract!vars
    <2>5. CASE Status' = "over"
        BY <2>1, <2>2, <2>5 DEF Abstract!Next, Abstract!Finish
    <2> QED BY <2>3, <2>4, <2>5
<1> QED BY <1>1, <1>2, <1>3, <1>4 DEF Construct

\* The processor whose turn it is finds the tags it requires provided by those
\* before it.
LEMMA ReadyInTurn ==
    ASSUME RInv, InChain
    PROVE  /\ Status = "working"
           /\ Abstract!Turn(node) /\ Abstract!Ready(node)
           /\ node \in DOMAIN Chain /\ Len(Chain) = Len(finalPipeline)
<1>1. /\ stage = "running" /\ outcome = "found" /\ Provided(finalPipeline)
      /\ DOMAIN finalPipeline = 1 .. Len(finalPipeline) /\ Len(finalPipeline) \in Nat
      /\ node \in 1 .. Len(finalPipeline)
      /\ ran \cup skipped = 1 .. node - 1
    BY InTheChain DEF InChain
<1>2. Status = "working"
    BY <1>1 DEF Status, Over
<1>3. /\ Chain = Links /\ DOMAIN Chain = 1 .. Len(finalPipeline)
      /\ Len(Chain) = Len(finalPipeline)
    BY <1>1 DEF Chain, Links
<1>4. Abstract!Turn(node)
    BY <1>1, <1>2, <1>3 DEF Abstract!Turn
<1>5. ASSUME NEW tags \in Chain[node].required
      PROVE  \E j \in ran \cup skipped : tags \subseteq Chain[j].provided
    <2>1. PICK k \in DOMAIN setting.required[finalPipeline[node].processor] :
              tags = setting.required[finalPipeline[node].processor][k]
        BY <1>1, <1>3 DEF Links
    <2>2. PICK j \in 1 .. (node - 1) : provides(finalPipeline[j], tags)
        BY <1>1, <2>1 DEF Provided
    <2>3. j \in DOMAIN finalPipeline
        BY <1>1
    <2>4. Chain[j].provided = setting.provided[finalPipeline[j].processor]
        BY <1>3, <2>3 DEF Links
    <2> QED BY <1>1, <2>2, <2>4 DEF provides
<1> QED BY <1>1, <1>2, <1>3, <1>4, <1>5 DEF Abstract!Ready

\* A step of run() maps to Begin, PassOver, Read, Annotate, Write, End or Finish.
LEMMA RunMaps ==
    ASSUME RInv, RInv', Run
    PROVE  [Abstract!Next]_(Abstract!vars)
<1>1. /\ stage = "running" /\ Running_ /\ Chain' = Chain
    BY DEF Run, BeginText, SkipNode, RunNode, NodeThrows, EndText, Return0, InChain, Running_,
           vars, Chain, Links, finalPipeline
<1>2. CASE BeginText
    <2>1. Status = "idle" /\ Status' = "working"
        BY <1>1, <1>2 DEF BeginText, Status, Over
    <2> QED BY <1>1, <1>2, <2>1 DEF BeginText, Abstract!Next, Abstract!Begin
<1>3. CASE SkipNode
    <2>1. /\ Status = "working" /\ Abstract!Turn(node) /\ node \in DOMAIN Chain
        BY <1>3, ReadyInTurn DEF SkipNode
    <2>2. Status' = "working" /\ skipped' = skipped \cup {node} /\ UNCHANGED <<ran, written>>
        BY <1>1, <1>3, InTheChain DEF SkipNode, Status, Over, InChain
    <2>3. Abstract!PassOver(node)
        BY <1>1, <2>1, <2>2 DEF Abstract!PassOver
    <2> QED BY <2>1, <2>3 DEF Abstract!Next
<1>4. CASE RunNode
    <2>1. /\ Status = "working" /\ Abstract!Turn(node) /\ Abstract!Ready(node)
          /\ node \in DOMAIN Chain /\ Len(Chain) = Len(finalPipeline)
        BY <1>4, ReadyInTurn DEF RunNode
    <2>2. /\ Status' = "working" /\ ran' = ran \cup {node} /\ UNCHANGED skipped
          /\ written' = IF IsLast THEN written + 1 ELSE written
        BY <1>1, <1>4, InTheChain DEF RunNode, Status, Over, InChain
    <2>3. CASE IsFirst
        <3>1. ran = {} /\ written' = written
            BY <1>1, <1>4, <2>2, <2>3, InTheChain DEF IsFirst, IsLast
        <3> QED BY <1>1, <2>1, <2>2, <2>3, <3>1 DEF IsFirst, Abstract!Next, Abstract!Read
    <2>4. CASE IsLast
        <3>1. Len(Chain) = node /\ node # 1 /\ written' = written + 1
            BY <2>1, <2>2, <2>4 DEF IsFirst, IsLast
        <3> QED BY <1>1, <2>1, <2>2, <3>1 DEF Abstract!Next, Abstract!Write
    <2>5. CASE ~IsFirst /\ ~IsLast
        <3>1. Len(Chain) # node /\ node # 1 /\ written' = written
            BY <2>1, <2>2, <2>5 DEF IsFirst, IsLast
        <3>2. Abstract!Annotate(node)
            BY <1>1, <2>1, <2>2, <3>1 DEF Abstract!Annotate
        <3> QED BY <2>1, <3>2 DEF Abstract!Next
    <2> QED BY <2>3, <2>4, <2>5
<1>5. CASE NodeThrows \/ Return0
    <2>1. Status # "over" /\ Status' = "over" /\ UNCHANGED <<ran, skipped, written>>
        BY <1>1, <1>5 DEF NodeThrows, Return0, Status, Over, runVars
    <2> QED BY <1>1, <2>1 DEF Abstract!Next, Abstract!Finish
<1>6. CASE EndText
    <2>1. /\ node = Len(finalPipeline) + 1 /\ node # 0
          /\ ran \cup skipped = 1 .. Len(finalPipeline)
          /\ DOMAIN Chain = 1 .. Len(finalPipeline)
        BY <1>1, <1>6, InTheChain DEF EndText, Chain, Links
    <2>2. Status = "working" /\ Status' = "idle" /\ UNCHANGED <<ran, skipped, written>>
        BY <1>1, <1>6, <2>1 DEF EndText, Status, Over
    <2> QED BY <1>1, <2>1, <2>2 DEF Abstract!Next, Abstract!End
<1> QED BY <1>2, <1>3, <1>4, <1>5, <1>6 DEF Run

\* For every set of processors and every command, the runner does nothing that
\* Pipeline does not allow: each text has a lattice of its own, each annotator works
\* in its turn and after what provides its tags, and what is written was read
\* (pipe_runner.cpp:457-527, auto_completer.cpp:76-201).
THEOREM RunnerImplementsPipeline == RunnerSpec => ImplementsPipeline
<1>1. RunnerInit => Abstract!Init
    BY DEF RunnerInit, Abstract!Init, Status, Chain, Over
<1>2. RInv /\ RInv' /\ [RunnerNext]_allVars => [Abstract!Next]_(Abstract!vars)
    <2> SUFFICES ASSUME RInv, RInv', [RunnerNext]_allVars
                 PROVE  [Abstract!Next]_(Abstract!vars)
        OBVIOUS
    <2>1. CASE RunnerNext
        BY <2>1, ConstructMaps, RunMaps DEF RunnerNext
    <2>2. CASE UNCHANGED allVars
        <3>1. UNCHANGED <<Status, Chain, ran, skipped, written>>
            BY <2>2 DEF allVars, vars, runnerVars, runVars, Status, Chain, Links, finalPipeline
        <3> QED BY <3>1 DEF Abstract!vars
    <2> QED BY <2>1, <2>2
<1> QED BY <1>1, <1>2, RInvHolds, PTL DEF RunnerSpec, ImplementsPipeline, Abstract!Spec

-----------------------------------------------------------------------------
(* Every text is written.                                                  *)

\* A chain of more than a reader, whose writer is not passed over.
EndsInWriter ==
    Len(finalPipeline) > 1 /\ finalPipeline[Len(finalPipeline)] \in RequirementsMet

\* No text is begun before the run; then all that were begun are written, but for
\* the present one while its chain is not at the end.
TextsCounted ==
    /\ stage \in Assembling \cup {"completing"} => line = 0
    /\ EndsInWriter =>
          /\ stage = "running" =>
                /\ line <= Texts
                /\ node # 0 => line # 0
                /\ written = IF node \in 1 .. Len(finalPipeline) THEN line - 1 ELSE line
          /\ stage = "done" => written = Texts

LEMMA TextsType == RInv => Texts \in Nat
    BY DEF RInv, Command, Texts

\* After a position that is not the last there is another one.
LEMMA NextWithin ==
    ASSUME NEW n \in Nat, NEW k \in 1 .. n, k # n
    PROVE  k + 1 \in 1 .. n
    OBVIOUS

LEMMA ConstructCounts ==
    ASSUME RInv, TextsCounted, Construct
    PROVE  TextsCounted'
<1>1. stage \in Assembling \cup {"completing"} /\ UNCHANGED runVars
    BY DEF Construct, Parse, CheckReader, CheckWriter, CheckLanguages, Completing, Completed,
           Constructing, runnerVars, Assembling
<1>2. stage' \in Assembling \cup {"completing", "running", "information", "thrown", "undefined"}
    BY DEF Construct, Parse, CheckReader, CheckWriter, CheckLanguages, Completing, Completed,
           Constructing, runnerVars, Assembling
<1>3. line' = 0 /\ node' = 0 /\ written' = 0
    BY <1>1 DEF RInv, NothingRunYet, TextsCounted, runVars
<1>4. command' \in Command
    BY DEF RInv, Construct, Parse, CheckReader, CheckWriter, CheckLanguages, Completing, Completed,
           Constructing, runnerVars
<1>5. 0 <= Texts'
    BY <1>4 DEF Command, Texts
<1>6. /\ stage' \in Assembling \cup {"completing"} => line' = 0
      /\ stage' # "done"
    BY <1>2, <1>3 DEF Assembling
<1>7. ~(0 \in 1 .. Len(finalPipeline)')
    OBVIOUS
<1> QED BY <1>3, <1>5, <1>6, <1>7 DEF TextsCounted

LEMMA RunCounts ==
    ASSUME RInv, TextsCounted, Run
    PROVE  TextsCounted'
<1>1. stage = "running" /\ Running_ /\ stage' \in {"running", "thrown", "done"}
    BY DEF Run, BeginText, SkipNode, RunNode, NodeThrows, EndText, Return0, InChain
<1>2. /\ Texts' = Texts /\ Len(finalPipeline)' = Len(finalPipeline)
      /\ EndsInWriter' = EndsInWriter
    BY <1>1 DEF Running_, vars, Texts, finalPipeline, EndsInWriter
<1>3. /\ Texts \in Nat /\ Len(finalPipeline) \in Nat /\ line \in Nat /\ written \in Nat
      /\ node \in 0 .. Len(finalPipeline) + 1
      /\ DOMAIN finalPipeline = 1 .. Len(finalPipeline)
    BY <1>1, InTheChain, TextsType
<1> SUFFICES ASSUME EndsInWriter
             PROVE  /\ stage' = "running" =>
                          /\ line' <= Texts
                          /\ node' # 0 => line' # 0
                          /\ written' = IF node' \in 1 .. Len(finalPipeline) THEN line' - 1
                                        ELSE line'
                    /\ stage' = "done" => written' = Texts
    BY <1>1, <1>2 DEF TextsCounted, Assembling
<1>4. /\ line <= Texts /\ (node # 0 => line # 0)
      /\ written = IF node \in 1 .. Len(finalPipeline) THEN line - 1 ELSE line
      /\ Len(finalPipeline) > 1
    BY <1>1 DEF TextsCounted, EndsInWriter
<1>5. CASE BeginText
    <2>1. node = 0 /\ line < Texts /\ line' = line + 1 /\ node' = 1 /\ written' = written
        BY <1>5 DEF BeginText
    <2>2. stage' = "running"
        BY <1>5 DEF BeginText
    <2> QED BY <1>3, <1>4, <2>1, <2>2
<1>6. CASE SkipNode
    <2>1. /\ stage' = "running" /\ line' = line /\ written' = written /\ node' = node + 1
          /\ node \in 1 .. Len(finalPipeline)
        BY <1>1, <1>3, <1>6 DEF SkipNode, InChain
    <2>2. node # Len(finalPipeline)
        BY <1>6 DEF SkipNode, EndsInWriter
    <2>3. node' \in 1 .. Len(finalPipeline)
        BY <1>3, <2>1, <2>2, NextWithin
    <2>4. line # 0 /\ written = line - 1
        BY <1>4, <2>1
    <2> QED BY <1>4, <2>1, <2>3, <2>4
<1>7. CASE RunNode
    <2>1. /\ stage' = "running" /\ line' = line /\ node' = node + 1
          /\ node \in 1 .. Len(finalPipeline)
          /\ written' = IF IsLast THEN written + 1 ELSE written
        BY <1>1, <1>3, <1>7 DEF RunNode, InChain
    <2>2. CASE node = Len(finalPipeline)
        <3>1. written' = written + 1
            BY <1>4, <2>1, <2>2 DEF IsLast, IsFirst
        <3> QED BY <1>3, <1>4, <2>1, <2>2, <3>1
    <2>3. CASE node # Len(finalPipeline)
        <3>1. written' = written
            BY <2>1, <2>3 DEF IsLast
        <3>2. node' \in 1 .. Len(finalPipeline)
            BY <1>3, <2>1, <2>3, NextWithin
        <3>3. line # 0 /\ written = line - 1
            BY <1>4, <2>1
        <3> QED BY <1>4, <2>1, <3>1, <3>2, <3>3
    <2> QED BY <2>2, <2>3
<1>8. CASE EndText
    <2>1. /\ stage' = "running" /\ line' = line /\ written' = written /\ node' = 0
          /\ node > Len(finalPipeline)
        BY <1>1, <1>8 DEF EndText
    <2> QED BY <1>3, <1>4, <2>1
<1>9. CASE Return0
    <2>1. stage' = "done" /\ node = 0 /\ line = Texts /\ written' = written
        BY <1>9 DEF Return0, runVars
    <2> QED BY <1>3, <1>4, <2>1
<1>10. CASE NodeThrows
    BY <1>10 DEF NodeThrows
<1> QED BY <1>5, <1>6, <1>7, <1>8, <1>9, <1>10 DEF Run

\* A run that was not given up has written every text, provided the chain has a
\* writer at all: a chain of one processor is run as a reader only.  However many
\* lines there are and whatever is passed over, what is written keeps up with what
\* is begun (pipe_runner.cpp:457-527).
THEOREM TextsAreWritten == RunnerSpec => [](Len(finalPipeline) > 1 => EveryTextWritten)
<1>1. RunnerInit => TextsCounted
    BY DEF RunnerInit, TextsCounted
<1>2. RInv /\ TextsCounted /\ [RunnerNext]_allVars => TextsCounted'
    <2> SUFFICES ASSUME RInv, TextsCounted, [RunnerNext]_allVars
                 PROVE  TextsCounted'
        OBVIOUS
    <2>1. CASE RunnerNext
        BY <2>1, ConstructCounts, RunCounts DEF RunnerNext
    <2>2. CASE UNCHANGED allVars
        BY <2>2 DEF allVars, vars, runnerVars, runVars, TextsCounted, EndsInWriter, Texts,
                    finalPipeline
    <2> QED BY <2>1, <2>2
<1>3. TextsCounted => (Len(finalPipeline) > 1 => EveryTextWritten)
    BY DEF TextsCounted, EndsInWriter, EveryTextWritten
<1> QED BY <1>1, <1>2, <1>3, RInvHolds, PTL DEF RunnerSpec

=============================================================================
