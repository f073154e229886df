----------------------------- MODULE Completion -----------------------------
(***************************************************************************)
(* How a pipeline is completed (framework/auto_completer.cpp).  The user   *)
(* names some processors, often by an alias that stands for several; the   *)
(* completer fixes one processor for each and inserts the annotators whose *)
(* tags the named ones need, for each of the languages in play.            *)
(*                                                                         *)
(* A promise is a processor with its options, here the value of --lang.    *)
(* An alternative is a list of promises in the order of their names; as    *)
(* the lists come out of a std::map or a std::set, it is the set of them   *)
(* and Rank is that order.  complete_() calls itself: calls is the stack,  *)
(* the running call first.  One step is one turn of its inner loop, or one *)
(* turn of the loop of complete().                                         *)
(***************************************************************************)
EXTENDS Integers, Sequences, FiniteSets, FiniteSetsExt

Sequence == INSTANCE SequencesExt

CONSTANTS
    Processor, Tag, Lang,
    NoLang,     \* no --lang given
    Rank,       \* the order of the processors' names
    Settings    \* the catalogs of processors and the requests considered

Promise == [processor : Processor, lang : Lang \cup {NoLang}]
Handling == {"LANGUAGE_INDEPENDENT", "LANGUAGE_GUESSER",
             "JUST_ONE_LANGUAGE", "LANGUAGE_DEPENDENT"}

Setting == [annotators : SUBSET Processor,                \* the rest read or write
            required : [Processor -> Seq(SUBSET Tag)],    \* doRequiredLayerTags
            provided : [Processor -> SUBSET Tag],         \* doProvidedLayerTags
            handling : [Processor -> Handling],           \* with the default options
            handled : [Processor -> SUBSET Lang],         \* likewise
            quality : [Processor -> Int],
            time : [Processor -> Int],                    \* negative when unknown
            creatable : SUBSET Promise,                   \* createProcessor() succeeds
            request : Seq(SUBSET Promise),                \* originalSequence_
            langCodes : Seq(Lang)]

\* A processor for just one language names one; no alternative is empty.
GoodSetting ==
    {s \in Setting :
        /\ \A p \in Processor :
              s.handling[p] = "JUST_ONE_LANGUAGE" => \E l \in Lang : s.handled[p] = {l}
        /\ \A i \in DOMAIN s.request : s.request[i] # {}}

ASSUME CompletionAssumption ==
    /\ NoLang \notin Lang
    /\ Rank \in [Processor -> Nat]
    /\ \A p, q \in Processor : Rank[p] = Rank[q] => p = q
    /\ Settings \subseteq GoodSetting

VARIABLES
    setting,                \* what is completed, in which catalog
    calls,                  \* the calls of complete_() in progress
    alternativeSequences,   \* alternativeSequences_
    bestFound,              \* bestFound_, <<>> when there is none
    firstException,         \* the first promise that could not be kept, if any
    outcome

vars == <<setting, calls, alternativeSequences, bestFound, firstException, outcome>>

Ended == {"found", "thrown", "unresolved", "undefined"}

-----------------------------------------------------------------------------
(* Promises *)

\* AnnotatorPromise::doLanguagesHandling: an option --lang leaves one language
languagesHandling(p) ==
    IF setting.handling[p.processor] = "LANGUAGE_DEPENDENT" /\ p.lang # NoLang
    THEN "JUST_ONE_LANGUAGE" ELSE setting.handling[p.processor]

languagesHandled(p) ==
    IF setting.handling[p.processor] = "LANGUAGE_DEPENDENT" /\ p.lang # NoLang
    THEN {p.lang} ELSE setting.handled[p.processor]

OneLanguage(p) == languagesHandling(p) = "JUST_ONE_LANGUAGE"
AnyLanguage(p) == languagesHandling(p) \in {"LANGUAGE_INDEPENDENT", "LANGUAGE_GUESSER"}

isMultilingual(alt) ==
    \/ \E p \in alt : languagesHandling(p) = "LANGUAGE_DEPENDENT"
    \/ \E p, q \in alt : /\ OneLanguage(p) /\ OneLanguage(q)
                         /\ languagesHandled(p) # languagesHandled(q)

canHandleLanguage(p, lang) == AnyLanguage(p) \/ lang \in languagesHandled(p)

\* Slip: cloning a promise with its old options
withLanguageSet_Same(p, lang) == p

withLanguageSet(p, lang) ==
    IF languagesHandling(p) = "LANGUAGE_DEPENDENT" THEN [p EXCEPT !.lang = lang] ELSE p

filtreByLanguage(alt, lang) ==
    {withLanguageSet(p, lang) : p \in {q \in alt : canHandleLanguage(q, lang)}}

\* providedLayerTags of a promise meets one of the lists of required tags
provides(p, tags) == tags \subseteq setting.provided[p.processor]

\* Slip: excluding whatever requires one of the tags
isViciousCircle_Overlap(a, tags) ==
    \E i \in DOMAIN setting.required[a] : tags \cap setting.required[a][i] # {}

isViciousCircle(a, tags) ==
    \E i \in DOMAIN setting.required[a] : tags \subseteq setting.required[a][i]

\* getDefaultPromise_ finds a promise of annotator a
hasDefaultPromise(a, lang) ==
    CASE setting.handling[a] = "LANGUAGE_DEPENDENT" -> lang \in setting.handled[a]
      [] setting.handling[a] = "JUST_ONE_LANGUAGE" -> lang \in {NoLang} \cup setting.handled[a]
      [] OTHER -> TRUE

getDefaultPromise(a, lang) ==
    [processor |-> a,
     lang |-> IF setting.handling[a] = "LANGUAGE_DEPENDENT" THEN lang ELSE NoLang]

findFulfillers(tags, lang) ==
    {getDefaultPromise(a, lang) :
        a \in {b \in setting.annotators :
                  /\ ~isViciousCircle(b, tags)
                  /\ tags \subseteq setting.provided[b]
                  /\ hasDefaultPromise(b, lang)}}

-----------------------------------------------------------------------------
(* One call of complete_(): its sequence, the iterators iter and            *)
(* restartPosition, and the promises already tried at iter.                 *)

Call == [sequence : Seq(SUBSET Promise), iter : Nat \ {0}, restartPosition : Nat \ {0},
         tried : SUBSET Promise]

\* Slip: counting from 0
newCall_FromZero(seq) == [sequence |-> seq, iter |-> 0, restartPosition |-> 1, tried |-> {}]

newCall(seq) == [sequence |-> seq, iter |-> 1, restartPosition |-> 1, tried |-> {}]

Running == outcome = "completing" /\ calls # <<>>
AtEnd(c) == c.iter > Len(c.sequence)
Alternative(c) == c.sequence[c.iter]
TheOnlyOne(alt) == CHOOSE p \in alt : TRUE

\* Slip: a processor meeting its own requirements
checkRequiredTags_OrItself(tags, seq, i) == \E j \in 1..i : provides(TheOnlyOne(seq[j]), tags)

\* an element of the sequence before position i provides the tags
checkRequiredTags(tags, seq, i) ==
    \E j \in 1..(i - 1) : provides(TheOnlyOne(seq[j]), tags)

Unfulfilled(c) ==
    {i \in DOMAIN setting.required[TheOnlyOne(Alternative(c)).processor] :
        ~checkRequiredTags(setting.required[TheOnlyOne(Alternative(c)).processor][i],
                           c.sequence, c.iter)}

\* findFulfillers_ for the first list not fulfilled
Fulfillers(c) ==
    LET p == TheOnlyOne(Alternative(c))
        tags == setting.required[p.processor]
                    [CHOOSE i \in Unfulfilled(c) : \A j \in Unfulfilled(c) : i <= j]
    IN findFulfillers(tags, IF OneLanguage(p) THEN TheOnlyOne(languagesHandled(p)) ELSE NoLang)

perLanguage(alt) ==
    [i \in 1..Len(setting.langCodes) |-> filtreByLanguage(alt, setting.langCodes[i])]

\* Slip: copying from one element too far on
replaced_DropsNext(seq, i, new) == SubSeq(seq, 1, i - 1) \o new \o SubSeq(seq, i + 2, Len(seq))

\* seq with the element at i replaced by the elements of new
replaced(seq, i, new) == SubSeq(seq, 1, i - 1) \o new \o SubSeq(seq, i + 1, Len(seq))

inserted(seq, i, alt) == SubSeq(seq, 1, i - 1) \o <<alt>> \o SubSeq(seq, i, Len(seq))

ContinueWith(c) == calls' = <<c>> \o Tail(calls)
Return == calls' = Tail(calls)
Searching == UNCHANGED <<setting, alternativeSequences, bestFound, firstException, outcome>>

-----------------------------------------------------------------------------
Init ==
    /\ setting \in Settings
    /\ calls = <<newCall(setting.request)>>
    /\ alternativeSequences = <<>>
    /\ bestFound = <<>>
    /\ firstException = {}
    /\ outcome = "completing"

\* lines 91-120: the alternative is replaced by one for each language
MultiplyByLanguages ==
    /\ Running
    /\ LET c == Head(calls)
           langAlts == perLanguage(Alternative(c))
       IN /\ ~AtEnd(c)
          /\ isMultilingual(Alternative(c))
          /\ \A i \in DOMAIN langAlts : langAlts[i] # {}
          /\ langAlts = <<>> => c.restartPosition # c.iter
          /\ LET next == IF langAlts = <<>> THEN c.restartPosition ELSE c.iter
             IN ContinueWith([c EXCEPT !.sequence = replaced(c.sequence, c.iter, langAlts),
                                       !.iter = next, !.restartPosition = next])
    /\ Searching

\* lines 105-106: nothing handles one of the languages
GiveUpOnLanguage ==
    /\ Running
    /\ LET c == Head(calls)
       IN /\ ~AtEnd(c)
          /\ isMultilingual(Alternative(c))
          /\ \E i \in DOMAIN setting.langCodes :
                 filtreByLanguage(Alternative(c), setting.langCodes[i]) = {}
    /\ Return
    /\ Searching

\* lines 96-120 with no language: the element that restartPosition points to is
\* erased, and the loop goes on from there
LoseRestartPosition ==
    /\ Running
    /\ LET c == Head(calls)
       IN /\ ~AtEnd(c)
          /\ isMultilingual(Alternative(c))
          /\ setting.langCodes = <<>>
          /\ c.restartPosition = c.iter
    /\ outcome' = "undefined"
    /\ UNCHANGED <<setting, calls, alternativeSequences, bestFound, firstException>>

Several(c) ==
    /\ ~AtEnd(c)
    /\ ~isMultilingual(Alternative(c))
    /\ \E p, q \in Alternative(c) : p # q

\* lines 121-148: a call of its own for each promise, in the order of the names
TryAlternative ==
    /\ Running
    /\ LET c == Head(calls)
       IN /\ Several(c)
          /\ \E p \in Alternative(c) \ c.tried :
                /\ \A q \in Alternative(c) \ c.tried : Rank[p.processor] <= Rank[q.processor]
                /\ calls' = <<newCall(replaced(c.sequence, c.iter, << {p} >>)),
                              [c EXCEPT !.tried = @ \cup {p}]>> \o Tail(calls)
    /\ Searching

\* line 150
AllTried ==
    /\ Running
    /\ Several(Head(calls))
    /\ Alternative(Head(calls)) \subseteq Head(calls).tried
    /\ Return
    /\ Searching

Single(c) ==
    /\ ~AtEnd(c)
    /\ ~isMultilingual(Alternative(c))
    /\ \E p \in Alternative(c) : Alternative(c) = {p}

\* Slip: going on behind the fulfillers
InsertFulfillers_NoRestart ==
    /\ Running
    /\ LET c == Head(calls)
       IN /\ Single(c)
          /\ Unfulfilled(c) # {}
          /\ Fulfillers(c) # {}
          /\ ContinueWith([c EXCEPT !.sequence = inserted(c.sequence, c.iter, Fulfillers(c)),
                                    !.iter = @ + 1, !.restartPosition = c.iter])
    /\ Searching

\* lines 176-189: whatever provides the missing tags goes before the processor
InsertFulfillers ==
    /\ Running
    /\ LET c == Head(calls)
       IN /\ Single(c)
          /\ Unfulfilled(c) # {}
          /\ Fulfillers(c) # {}
          /\ ContinueWith([c EXCEPT !.sequence = inserted(c.sequence, c.iter, Fulfillers(c)),
                                    !.restartPosition = c.iter])
    /\ Searching

\* lines 179-182
GiveUpOnTags ==
    /\ Running
    /\ Single(Head(calls))
    /\ Unfulfilled(Head(calls)) # {}
    /\ Fulfillers(Head(calls)) = {}
    /\ Return
    /\ Searching

\* lines 156-163 with nothing missing
Advance ==
    /\ Running
    /\ LET c == Head(calls)
       IN /\ Single(c)
          /\ Unfulfilled(c) = {}
          /\ ContinueWith([c EXCEPT !.iter = @ + 1])
    /\ Searching

\* line 196
Collect ==
    /\ Running
    /\ LET seq == Head(calls).sequence
       IN /\ AtEnd(Head(calls))
          /\ alternativeSequences' =
                 Append(alternativeSequences, [i \in 1..Len(seq) |-> TheOnlyOne(seq[i])])
    /\ Return
    /\ UNCHANGED <<setting, bestFound, firstException, outcome>>

StartChoosing ==
    /\ outcome = "completing"
    /\ calls = <<>>
    /\ outcome' = "choosing"
    /\ UNCHANGED <<setting, calls, alternativeSequences, bestFound, firstException>>

-----------------------------------------------------------------------------
(* complete(): the best sequence that can be created *)

Score(seq) == MapThenSumSet(LAMBDA i : setting.quality[seq[i].processor], DOMAIN seq)
Time(seq) == MapThenSumSet(LAMBDA i : setting.time[seq[i].processor], DOMAIN seq)

\* Slip: the time counts before the quality
better_TimeFirst(s, t) == Time(s) < Time(t) \/ (Time(s) = Time(t) /\ Score(s) > Score(t))

better(s, t) == Score(s) > Score(t) \/ (Score(s) = Score(t) /\ Time(s) < Time(t))

\* trySolution_ in the order of the list: the first of the best
IsBest(i) == \A j \in DOMAIN alternativeSequences :
                 /\ ~better(alternativeSequences[j], alternativeSequences[i])
                 /\ j < i => better(alternativeSequences[i], alternativeSequences[j])

Failing(seq) == {i \in DOMAIN seq : seq[i] \notin setting.creatable}

\* Slip: a sequence that cannot be created stays in the list
without_Nothing(seq, i) == seq

without(seq, i) == SubSeq(seq, 1, i - 1) \o SubSeq(seq, i + 1, Len(seq))

Choose ==
    /\ outcome = "choosing"
    /\ \E i \in DOMAIN alternativeSequences :
          LET seq == alternativeSequences[i]
          IN /\ IsBest(i)
             /\ alternativeSequences' = without(alternativeSequences, i)
             /\ \/ /\ Failing(seq) = {}
                   /\ bestFound' = seq
                   /\ outcome' = "found"
                   /\ UNCHANGED firstException
                \/ \E k \in Failing(seq) :
                      /\ \A m \in Failing(seq) : k <= m
                      /\ firstException' = IF firstException = {} THEN {seq[k]}
                                           ELSE firstException
                      /\ UNCHANGED <<bestFound, outcome>>
    /\ UNCHANGED <<setting, calls>>

\* lines 66-74, with no sequence left
Fail ==
    /\ outcome = "choosing"
    /\ alternativeSequences = <<>>
    /\ outcome' = IF firstException # {} THEN "thrown" ELSE "unresolved"
    /\ UNCHANGED <<setting, calls, alternativeSequences, bestFound, firstException>>

Next ==
    \/ MultiplyByLanguages \/ GiveUpOnLanguage \/ LoseRestartPosition
    \/ TryAlternative \/ AllTried
    \/ InsertFulfillers \/ GiveUpOnTags \/ Advance \/ Collect
    \/ StartChoosing \/ Choose \/ Fail

Spec == Init /\ [][Next]_vars
FairSpec == Spec /\ WF_vars(Next)

-----------------------------------------------------------------------------
(* Invariants *)

TypeOK ==
    /\ setting \in Setting
    /\ calls \in Seq(Call)
    /\ alternativeSequences \in Seq(Seq(Promise))
    /\ bestFound \in Seq(Promise)
    /\ firstException \in SUBSET Promise
    /\ outcome \in {"completing", "choosing"} \cup Ended

\* Everything the iterator has passed is one promise whose required tags are
\* provided before it, although elements are inserted and multiplied before and
\* after it by other turns of the loop (lines 84-192).
Settled(seq, i) ==
    /\ \E p \in Promise : seq[i] = {p}
    /\ \A k \in DOMAIN setting.required[TheOnlyOne(seq[i]).processor] :
          \E j \in 1..(i - 1) :
              provides(TheOnlyOne(seq[j]), setting.required[TheOnlyOne(seq[i]).processor][k])

PassedIsSettled ==
    \A k \in DOMAIN calls :
        /\ calls[k].restartPosition <= calls[k].iter
        /\ calls[k].iter <= Len(calls[k].sequence) + 1
        /\ \A i \in 1..(calls[k].iter - 1) : Settled(calls[k].sequence, i)

\* The assertions of lines 103, 227 and 374, and front() of line 152: what is
\* filtered by a language is not multilingual, and no element is empty.
AssertionsHold ==
    \A k \in DOMAIN calls : \A i \in DOMAIN calls[k].sequence :
        /\ calls[k].sequence[i] # {}
        /\ i < calls[k].iter => \E p \in Promise : calls[k].sequence[i] = {p}
        /\ \A l \in Lang : ~isMultilingual(filtreByLanguage(calls[k].sequence[i], l))

Provided(seq) ==
    \A i \in DOMAIN seq : \A k \in DOMAIN setting.required[seq[i].processor] :
        \E j \in 1..(i - 1) : provides(seq[j], setting.required[seq[i].processor][k])

\* Nothing is offered, let alone run, whose required tags no earlier processor
\* provides (annotator_factory.hpp:17-22).
EverythingProvided ==
    /\ \A i \in DOMAIN alternativeSequences : Provided(alternativeSequences[i])
    /\ Provided(bestFound)

\* What the user asked for: of each alternative one promise, of a multilingual
\* one a promise for each language.
Requested ==
    Sequence!FlattenSeq([i \in DOMAIN setting.request |->
        IF isMultilingual(setting.request[i]) /\ setting.langCodes # <<>>
        THEN [l \in DOMAIN setting.langCodes |->
                 filtreByLanguage(setting.request[i], setting.langCodes[l])]
        ELSE <<setting.request[i]>>])

\* The promises at the positions S of seq are those asked for, in that order,
\* and each of the others provides tags that a later one requires.
Explains(S, seq) ==
    /\ \A i \in S : seq[i] \in Requested[Cardinality({j \in S : j <= i})]
    /\ \A i \in DOMAIN seq \ S :
          \E j \in (i + 1)..Len(seq) : \E k \in DOMAIN setting.required[seq[j].processor] :
              provides(seq[i], setting.required[seq[j].processor][k])

KeepsRequest(seq) == \E S \in kSubset(Len(Requested), DOMAIN seq) : Explains(S, seq)

\* Completion adds to the request, and only what is needed: it drops, repeats and
\* reorders nothing of what the user named (data/tutorial.txt:93-111), for every
\* language there is.
RequestKept ==
    /\ outcome = "found"
    /\ \A i \in DOMAIN setting.request : isMultilingual(setting.request[i])
                                          => setting.langCodes # <<>>
    => KeepsRequest(bestFound)

\* A sequence left over is not better than the one taken (lines 386-394), though
\* the best is looked for anew after each one that could not be created.
BestChosen ==
    outcome = "found" =>
        \A i \in DOMAIN alternativeSequences :
            LET s == alternativeSequences[i]
            IN /\ Score(s) <= Score(bestFound)
               /\ Score(s) = Score(bestFound) => Time(s) >= Time(bestFound)

\* When no language matters, completion fails only if it has to: no order of
\* creatable annotators can provide what the request needs.  obtainable[n] is what
\* n rounds of adding annotators to the processors in have can provide.
Obtainable(have) ==
    LET usable == {a \in setting.annotators : [processor |-> a, lang |-> NoLang] \in setting.creatable}
        met(a, S) == \A k \in DOMAIN setting.required[a] :
                         \E b \in S : setting.required[a][k] \subseteq setting.provided[b]
        obtainable[n \in 0..Cardinality(usable)] ==
            IF n = 0 THEN have
            ELSE obtainable[n - 1] \cup {a \in usable : met(a, obtainable[n - 1])}
    IN obtainable[Cardinality(usable)]

Completable ==
    \E f \in [DOMAIN setting.request -> setting.creatable] :
        \A i \in DOMAIN setting.request :
            /\ f[i] \in setting.request[i]
            /\ LET before == Obtainable({f[j].processor : j \in 1..(i - 1)})
               IN \A k \in DOMAIN setting.required[f[i].processor] :
                      \E b \in before : setting.required[f[i].processor][k] \subseteq setting.provided[b]

FailsOnlyIfItMust ==
    /\ outcome \in {"thrown", "unresolved"}
    /\ \A p \in Processor : setting.handling[p] = "LANGUAGE_INDEPENDENT"
    => ~Completable

\* complete() ends, however the searches of its calls multiply, when no chain of
\* requirements leads back to where it began (isViciousCircle_ sees only circles
\* of one step).
Termination == <>(outcome \in Ended)
=============================================================================
