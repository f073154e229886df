-------------------------- MODULE CompletionProofs --------------------------
(***************************************************************************)
(* Proofs about completion, for every catalog of processors and every      *)
(* request: what is offered provides what its processors require.          *)
(***************************************************************************)
EXTENDS Completion, TLAPS, SequenceTheorems

-----------------------------------------------------------------------------
(* Promises.                                                               *)

LEMMA SettingFields ==
    ASSUME setting \in GoodSetting
    PROVE  /\ setting \in Setting
           /\ setting.request \in Seq(SUBSET Promise)
           /\ \A i \in DOMAIN setting.request : setting.request[i] # {}
           /\ setting.langCodes \in Seq(Lang)
           /\ setting.annotators \subseteq Processor
           /\ setting.handled \in [Processor -> SUBSET Lang]
           /\ \A p \in Processor : setting.handling[p] = "JUST_ONE_LANGUAGE"
                                       => \E l \in Lang : setting.handled[p] = {l}
<1>1. setting \in Setting
    BY DEF GoodSetting
<1> QED BY <1>1 DEF GoodSetting, Setting

LEMMA OnlyOne == \A p : TheOnlyOne({p}) = p
    BY DEF TheOnlyOne

\* What filtreByLanguage returns are promises.
LEMMA FilteredType ==
    ASSUME setting \in GoodSetting, NEW alt \in SUBSET Promise, NEW lang \in Lang
    PROVE  filtreByLanguage(alt, lang) \in SUBSET Promise
<1> SUFFICES ASSUME NEW p \in alt PROVE withLanguageSet(p, lang) \in Promise
    BY DEF filtreByLanguage
<1>1. p \in Promise
    OBVIOUS
<1> QED BY <1>1 DEF withLanguageSet, Promise

\* assert(!isMultilingualProcessorPromiseAlternative_(langAlt)), line 103
LEMMA FilteredIsNotMultilingual ==
    ASSUME setting \in GoodSetting, NEW alt \in SUBSET Promise, NEW lang \in Lang
    PROVE  ~isMultilingual(filtreByLanguage(alt, lang))
<1>1. ASSUME NEW q \in alt, canHandleLanguage(q, lang)
      PROVE  LET p == withLanguageSet(q, lang)
             IN /\ languagesHandling(p) # "LANGUAGE_DEPENDENT"
                /\ OneLanguage(p) => languagesHandled(p) = {lang}
    <2>1. q \in Promise /\ q.processor \in Processor /\ lang # NoLang
        BY CompletionAssumption DEF Promise
    <2>2. CASE languagesHandling(q) = "LANGUAGE_DEPENDENT"
        <3>1. withLanguageSet(q, lang) = [q EXCEPT !.lang = lang]
            BY <2>2 DEF withLanguageSet
        <3>2. /\ [q EXCEPT !.lang = lang].processor = q.processor
              /\ [q EXCEPT !.lang = lang].lang = lang
            BY <2>1 DEF Promise
        <3>3. setting.handling[q.processor] = "LANGUAGE_DEPENDENT"
            BY <2>2 DEF languagesHandling
        <3> QED BY <2>1, <3>1, <3>2, <3>3
                DEF languagesHandling, languagesHandled, OneLanguage
    <2>3. CASE languagesHandling(q) # "LANGUAGE_DEPENDENT"
        <3>1. withLanguageSet(q, lang) = q
            BY <2>3 DEF withLanguageSet
        <3>2. OneLanguage(q) => lang \in languagesHandled(q)
            BY <1>1 DEF canHandleLanguage, AnyLanguage, OneLanguage
        <3>3. OneLanguage(q) => \E l \in Lang : languagesHandled(q) = {l}
            BY <2>1, SettingFields
               DEF OneLanguage, languagesHandling, languagesHandled, Promise
        <3> QED BY <2>3, <3>1, <3>2, <3>3
    <2> QED BY <2>2, <2>3
<1>2. \A p \in filtreByLanguage(alt, lang) :
          /\ languagesHandling(p) # "LANGUAGE_DEPENDENT"
          /\ OneLanguage(p) => languagesHandled(p) = {lang}
    BY <1>1 DEF filtreByLanguage
<1> QED BY <1>2 DEF isMultilingual

\* What findFulfillers_ returns are promises.
LEMMA FulfillersType ==
    ASSUME setting \in GoodSetting, NEW tags, NEW lang
    PROVE  findFulfillers(tags, lang) \in SUBSET Promise
<1> SUFFICES ASSUME NEW a \in setting.annotators, hasDefaultPromise(a, lang)
             PROVE  getDefaultPromise(a, lang) \in Promise
    BY DEF findFulfillers
<1>1. a \in Processor /\ setting.handled[a] \subseteq Lang
    BY SettingFields
<1>2. setting.handling[a] = "LANGUAGE_DEPENDENT" => lang \in setting.handled[a]
    BY DEF hasDefaultPromise
<1> QED BY <1>1, <1>2 DEF getDefaultPromise, Promise

-----------------------------------------------------------------------------
(* Sequences.                                                              *)

\* Three sequences in a row.
LEMMA Joined ==
    ASSUME NEW S, NEW s \in Seq(S), NEW t \in Seq(S), NEW u \in Seq(S)
    PROVE  /\ s \o t \o u \in Seq(S)
           /\ Len(s \o t \o u) = Len(s) + Len(t) + Len(u)
           /\ \A j \in 1..Len(s) : (s \o t \o u)[j] = s[j]
<1>1. PICK st \in Seq(S) : st = s \o t
    BY ConcatProperties
<1>2. /\ Len(st) = Len(s) + Len(t)
      /\ \A j \in 1..(Len(s) + Len(t)) : st[j] = IF j <= Len(s) THEN s[j] ELSE t[j - Len(s)]
    BY <1>1, ConcatProperties
<1>3. /\ st \o u \in Seq(S)
      /\ Len(st \o u) = Len(st) + Len(u)
      /\ \A j \in 1..(Len(st) + Len(u)) :
            (st \o u)[j] = IF j <= Len(st) THEN st[j] ELSE u[j - Len(st)]
    BY ConcatProperties
<1>4. Len(s) \in Nat /\ Len(t) \in Nat /\ Len(u) \in Nat
    OBVIOUS
<1>5. Len(st \o u) = Len(s) + Len(t) + Len(u)
    BY <1>2, <1>3
<1>6. \A j \in 1..Len(s) : (st \o u)[j] = s[j]
    BY <1>2, <1>3, <1>4
<1> QED BY <1>1, <1>3, <1>5, <1>6

\* The part of a sequence before position i.
LEMMA Before ==
    ASSUME NEW S, NEW seq \in Seq(S), NEW i \in 1..Len(seq)
    PROVE  /\ SubSeq(seq, 1, i - 1) \in Seq(S)
           /\ Len(SubSeq(seq, 1, i - 1)) = i - 1
           /\ \A j \in 1..(i - 1) : SubSeq(seq, 1, i - 1)[j] = seq[j]
    BY SubSeqProperties, ElementOfSeq

\* The part of a sequence from position i on, and that behind it.
LEMMA Behind ==
    ASSUME NEW S, NEW seq \in Seq(S), NEW i \in 1..Len(seq)
    PROVE  /\ SubSeq(seq, i, Len(seq)) \in Seq(S)
           /\ Len(SubSeq(seq, i, Len(seq))) = Len(seq) - i + 1
           /\ SubSeq(seq, i + 1, Len(seq)) \in Seq(S)
           /\ Len(SubSeq(seq, i + 1, Len(seq))) = Len(seq) - i
<1>1. Len(seq) \in Nat /\ i \in Nat
    OBVIOUS
<1>2. \A k \in 1..Len(seq) : seq[k] \in S
    BY ElementOfSeq
<1>3. /\ SubSeq(seq, i, Len(seq)) \in Seq(S)
      /\ Len(SubSeq(seq, i, Len(seq))) = Len(seq) - i + 1
    BY <1>1, <1>2, SubSeqProperties
<1>4. /\ SubSeq(seq, i + 1, Len(seq)) \in Seq(S)
      /\ Len(SubSeq(seq, i + 1, Len(seq))) = Len(seq) - i
    BY <1>1, <1>2, SubSeqProperties
<1> QED BY <1>3, <1>4

\* What replaces element i leaves what is before it.
LEMMA Replaced ==
    ASSUME NEW S, NEW seq \in Seq(S), NEW i \in 1..Len(seq), NEW new \in Seq(S)
    PROVE  /\ replaced(seq, i, new) \in Seq(S)
           /\ Len(replaced(seq, i, new)) = Len(seq) - 1 + Len(new)
           /\ \A j \in 1..(i - 1) : replaced(seq, i, new)[j] = seq[j]
<1>1. PICK before \in Seq(S) : /\ before = SubSeq(seq, 1, i - 1)
                               /\ Len(before) = i - 1
                               /\ \A j \in 1..(i - 1) : before[j] = seq[j]
    BY Before
<1>2. PICK behind \in Seq(S) : /\ behind = SubSeq(seq, i + 1, Len(seq))
                               /\ Len(behind) = Len(seq) - i
    BY Behind
<1>3. replaced(seq, i, new) = before \o new \o behind
    BY <1>1, <1>2 DEF replaced
<1>4. /\ before \o new \o behind \in Seq(S)
      /\ Len(before \o new \o behind) = Len(before) + Len(new) + Len(behind)
      /\ \A j \in 1..Len(before) : (before \o new \o behind)[j] = before[j]
    BY Joined
<1>5. PICK whole \in Seq(S) :
          /\ whole = before \o new \o behind
          /\ Len(whole) = Len(before) + Len(new) + Len(behind)
          /\ \A j \in 1..Len(before) : whole[j] = before[j]
    BY <1>4
<1>6. Len(seq) \in Nat /\ Len(new) \in Nat /\ i \in Nat
    OBVIOUS
<1>7. replaced(seq, i, new) = whole
    BY <1>3, <1>5
<1>8. Len(whole) = Len(seq) - 1 + Len(new)
    <2>1. Len(whole) = (i - 1) + Len(new) + (Len(seq) - i)
        BY <1>1, <1>2, <1>5
    <2>2. (i - 1) + Len(new) + (Len(seq) - i) = Len(seq) - 1 + Len(new)
        BY <1>6
    <2> QED BY <2>1, <2>2
<1>9. \A j \in 1..(i - 1) : whole[j] = seq[j]
    BY <1>1, <1>5
<1> QED BY <1>7, <1>8, <1>9

\* What is inserted at i leaves what is before it.
LEMMA Inserted ==
    ASSUME NEW S, NEW seq \in Seq(S), NEW i \in 1..Len(seq), NEW alt \in S
    PROVE  /\ inserted(seq, i, alt) \in Seq(S)
           /\ Len(inserted(seq, i, alt)) = Len(seq) + 1
           /\ \A j \in 1..(i - 1) : inserted(seq, i, alt)[j] = seq[j]
<1>1. PICK before \in Seq(S) : /\ before = SubSeq(seq, 1, i - 1)
                               /\ Len(before) = i - 1
                               /\ \A j \in 1..(i - 1) : before[j] = seq[j]
    BY Before
<1>2. PICK behind \in Seq(S) : /\ behind = SubSeq(seq, i, Len(seq))
                               /\ Len(behind) = Len(seq) - i + 1
    BY Behind
<1>3. inserted(seq, i, alt) = before \o <<alt>> \o behind
    BY <1>1, <1>2 DEF inserted
<1>4. <<alt>> \in Seq(S) /\ Len(<<alt>>) = 1
    OBVIOUS
<1>5. PICK one \in Seq(S) : one = <<alt>> /\ Len(one) = 1
    BY <1>4
<1>6. /\ before \o one \o behind \in Seq(S)
      /\ Len(before \o one \o behind) = Len(before) + Len(one) + Len(behind)
      /\ \A j \in 1..Len(before) : (before \o one \o behind)[j] = before[j]
    BY Joined
<1>7. PICK whole \in Seq(S) :
          /\ whole = before \o one \o behind
          /\ Len(whole) = Len(before) + Len(one) + Len(behind)
          /\ \A j \in 1..Len(before) : whole[j] = before[j]
    BY <1>6
<1>8. Len(seq) \in Nat /\ i \in Nat
    OBVIOUS
<1>9. inserted(seq, i, alt) = whole
    BY <1>3, <1>5, <1>7
<1>10. Len(whole) = Len(seq) + 1
    <2>1. Len(whole) = (i - 1) + 1 + (Len(seq) - i + 1)
        BY <1>1, <1>2, <1>5, <1>7
    <2>2. (i - 1) + 1 + (Len(seq) - i + 1) = Len(seq) + 1
        BY <1>8
    <2> QED BY <2>1, <2>2
<1>11. \A j \in 1..(i - 1) : whole[j] = seq[j]
    BY <1>1, <1>7
<1> QED BY <1>9, <1>10, <1>11

-----------------------------------------------------------------------------
(* The invariant: every call in progress has passed only promises whose     *)
(* required tags are provided, and so has every sequence offered.           *)

Alternatives == (SUBSET Promise) \ {{}}

LEMMA AlternativesAre ==
    ASSUME NEW alt
    PROVE  alt \in Alternatives <=> alt \in SUBSET Promise /\ alt # {}
<1>1. alt \in {{}} <=> alt = {}
    BY Zenon
<1> QED BY <1>1, Zenon DEF Alternatives

GoodCall == {c \in Call : /\ c.sequence \in Seq(Alternatives)
                          /\ c.restartPosition <= c.iter
                          /\ c.iter <= Len(c.sequence) + 1
                          /\ \A i \in 1..(c.iter - 1) : Settled(c.sequence, i)}

Offered == {s \in Seq(Promise) : Provided(s)}

IInv == /\ setting \in GoodSetting
        /\ calls \in Seq(GoodCall)
        /\ alternativeSequences \in Seq(Offered)
        /\ bestFound \in Offered
        /\ firstException \in SUBSET Promise
        /\ outcome \in {"completing", "choosing"} \cup Ended

\* A call that goes on with the same or another sequence: what was passed stays
\* settled if the elements before the iterator stay.
LEMMA SettledBefore ==
    ASSUME NEW seq, NEW new, NEW i \in Nat \ {0}, Settled(seq, i),
           \A j \in 1..i : new[j] = seq[j]
    PROVE  Settled(new, i)
<1>1. new[i] = seq[i] /\ \A j \in 1..(i - 1) : new[j] = seq[j]
    OBVIOUS
<1> QED BY <1>1 DEF Settled

\* The running call, and the calls after one or none in its place.
LEMMA Stack ==
    ASSUME NEW S, calls \in Seq(S), calls # <<>>
    PROVE  /\ Head(calls) \in S
           /\ Tail(calls) \in Seq(S)
           /\ \A c \in S : <<c>> \o Tail(calls) \in Seq(S)
           /\ \A c, d \in S : <<c, d>> \o Tail(calls) \in Seq(S)
<1>1. Head(calls) \in S /\ Tail(calls) \in Seq(S)
    BY HeadTailProperties
<1>2. \A c \in S : <<c>> \in Seq(S)
    OBVIOUS
<1>3. \A c, d \in S : <<c, d>> \in Seq(S)
    OBVIOUS
<1> QED BY <1>1, <1>2, <1>3, ConcatProperties

LEMMA SameSetting ==
    ASSUME setting' = setting
    PROVE  GoodCall' = GoodCall /\ Offered' = Offered
<1>1. ASSUME NEW seq, NEW i PROVE Settled(seq, i)' <=> Settled(seq, i)
    BY DEF Settled, provides
<1>2. ASSUME NEW seq PROVE Provided(seq)' <=> Provided(seq)
    BY DEF Provided, provides
<1> QED BY <1>1, <1>2 DEF GoodCall, Offered

\* A call that goes on with a sequence that differs only from n on.
LEMMA GoesOn ==
    ASSUME NEW c \in GoodCall, NEW seq \in Seq(Alternatives), NEW n \in 1..c.iter,
           n <= Len(seq) + 1, NEW r \in 1..n,
           \A j \in 1..(n - 1) : seq[j] = c.sequence[j]
    PROVE  [c EXCEPT !.sequence = seq, !.iter = n, !.restartPosition = r] \in GoodCall
<1> DEFINE d == [c EXCEPT !.sequence = seq, !.iter = n, !.restartPosition = r]
<1>1. c \in Call /\ c.iter \in Nat \ {0}
    BY DEF GoodCall, Call
<1>2. n \in Nat \ {0} /\ r \in Nat \ {0} /\ r <= n
    BY <1>1
<1>3. seq \in Seq(SUBSET Promise)
    BY DEF Alternatives
<1>4. d \in Call /\ d.sequence = seq /\ d.iter = n /\ d.restartPosition = r
    BY <1>1, <1>2, <1>3 DEF Call
<1>5. ASSUME NEW i \in 1..(n - 1) PROVE Settled(seq, i)
    <2>1. i \in 1..(c.iter - 1) /\ i \in Nat \ {0}
        BY <1>1, <1>2
    <2>2. Settled(c.sequence, i)
        BY <2>1 DEF GoodCall
    <2>3. \A j \in 1..i : seq[j] = c.sequence[j]
        BY <1>2, <2>1
    <2> QED BY <2>1, <2>2, <2>3, SettledBefore
<1> HIDE DEF d
<1>6. d \in GoodCall
    BY <1>2, <1>4, <1>5 DEF GoodCall
<1> QED BY <1>6 DEF d

\* What is known of the running call.
LEMMA RunningCall ==
    ASSUME IInv, Running
    PROVE  /\ Head(calls) \in GoodCall
           /\ Head(calls).sequence \in Seq(Alternatives)
           /\ Head(calls).iter \in Nat \ {0}
           /\ Head(calls).iter <= Len(Head(calls).sequence) + 1
           /\ Head(calls).restartPosition \in 1..Head(calls).iter
           /\ ~AtEnd(Head(calls)) =>
                 /\ Head(calls).iter \in 1..Len(Head(calls).sequence)
                 /\ Alternative(Head(calls)) \in Alternatives
<1>1. Head(calls) \in GoodCall
    BY Stack DEF IInv, Running
<1>2. /\ Head(calls).sequence \in Seq(Alternatives)
      /\ Head(calls).iter \in Nat \ {0}
      /\ Head(calls).restartPosition \in Nat \ {0}
      /\ Head(calls).restartPosition <= Head(calls).iter
      /\ Head(calls).iter <= Len(Head(calls).sequence) + 1
    BY <1>1 DEF GoodCall, Call
<1>3. Head(calls).restartPosition \in 1..Head(calls).iter
    BY <1>2
<1>4. ASSUME ~AtEnd(Head(calls))
      PROVE  Head(calls).iter \in 1..Len(Head(calls).sequence)
    BY <1>2, <1>4 DEF AtEnd
<1>5. ASSUME ~AtEnd(Head(calls))
      PROVE  Alternative(Head(calls)) \in Alternatives
    BY <1>2, <1>4, <1>5, ElementOfSeq DEF Alternative
<1> QED BY <1>1, <1>2, <1>3, <1>4, <1>5

\* A step of the search that leaves good calls keeps the invariant.
LEMMA SearchStep ==
    ASSUME IInv, Searching, calls' \in Seq(GoodCall)
    PROVE  IInv'
<1>1. GoodCall' = GoodCall /\ Offered' = Offered
    BY SameSetting DEF Searching
<1> QED BY <1>1 DEF IInv, Searching

LEMMA ReturnStep ==
    ASSUME IInv, Running, Return
    PROVE  calls' \in Seq(GoodCall)
    BY Stack DEF IInv, Running, Return

LEMMA ContinueStep ==
    ASSUME IInv, Running, NEW c \in GoodCall, ContinueWith(c)
    PROVE  calls' \in Seq(GoodCall)
    BY Stack DEF IInv, Running, ContinueWith

-----------------------------------------------------------------------------
(* One lemma for each action.                                              *)

LEMMA MultiplyByLanguagesStep ==
    ASSUME IInv, MultiplyByLanguages
    PROVE  IInv'
<1> DEFINE c == Head(calls)
           langAlts == perLanguage(Alternative(c))
           next == IF langAlts = <<>> THEN c.restartPosition ELSE c.iter
           seq == replaced(c.sequence, c.iter, langAlts)
<1>1. /\ Running /\ ~AtEnd(c)
      /\ \A i \in DOMAIN langAlts : langAlts[i] # {}
      /\ langAlts = <<>> => c.restartPosition # c.iter
      /\ ContinueWith([c EXCEPT !.sequence = seq, !.iter = next, !.restartPosition = next])
      /\ Searching
    BY DEF MultiplyByLanguages
<1>2. /\ c \in GoodCall /\ c.sequence \in Seq(Alternatives)
      /\ c.iter \in 1..Len(c.sequence)
      /\ c.restartPosition \in 1..c.iter
      /\ Alternative(c) \in Alternatives
    BY <1>1, RunningCall
<1>3. langAlts \in Seq(Alternatives)
    <2>1. setting \in GoodSetting /\ setting.langCodes \in Seq(Lang)
        BY SettingFields DEF IInv
    <2>2. Len(setting.langCodes) \in Nat
        BY <2>1
    <2>3. \A i \in 1..Len(setting.langCodes) :
              filtreByLanguage(Alternative(c), setting.langCodes[i]) \in SUBSET Promise
        BY <1>2, <2>1, ElementOfSeq, FilteredType DEF Alternatives
    <2>4. ASSUME NEW i \in 1..Len(setting.langCodes)
          PROVE  filtreByLanguage(Alternative(c), setting.langCodes[i]) \in Alternatives
        <3>1. /\ i \in DOMAIN langAlts
              /\ langAlts[i] = filtreByLanguage(Alternative(c), setting.langCodes[i])
            BY <2>2 DEF perLanguage
        <3>2. langAlts[i] # {}
            BY <1>1, <3>1
        <3> QED BY <2>3, <3>1, <3>2, AlternativesAre
    <2> QED BY <2>2, <2>4 DEF perLanguage
<1> HIDE DEF c, langAlts
<1>4. /\ seq \in Seq(Alternatives)
      /\ Len(seq) = Len(c.sequence) - 1 + Len(langAlts)
      /\ \A j \in 1..(c.iter - 1) : seq[j] = c.sequence[j]
    BY <1>2, <1>3, Replaced
<1>5. Len(c.sequence) \in Nat /\ Len(langAlts) \in Nat /\ c.iter \in Nat
    BY <1>2, <1>3
<1>6. next \in 1..c.iter
    BY <1>2, <1>5
<1>7. next <= Len(seq) + 1
    <2>1. CASE langAlts = <<>>
        <3>1. next <= c.iter - 1 /\ next \in Nat
            BY <1>1, <1>2, <1>5, <2>1
        <3>2. Len(seq) \in Int /\ Len(c.sequence) <= Len(seq) + 1
            BY <1>4, <1>5
        <3> QED BY <1>2, <1>5, <3>1, <3>2
    <2>2. CASE langAlts # <<>>
        <3>1. Len(langAlts) >= 1
            BY <1>3, <2>2, EmptySeq
        <3>2. next = c.iter
            BY <2>2
        <3>3. Len(seq) \in Int /\ Len(c.sequence) <= Len(seq)
            BY <1>4, <1>5, <3>1
        <3> QED BY <1>2, <1>5, <3>2, <3>3
    <2> QED BY <2>1, <2>2
<1> HIDE DEF seq, next
<1>8. next \in 1..next /\ \A j \in 1..(next - 1) : seq[j] = c.sequence[j]
    BY <1>4, <1>5, <1>6
<1>9. [c EXCEPT !.sequence = seq, !.iter = next, !.restartPosition = next] \in GoodCall
    BY <1>2, <1>4, <1>6, <1>7, <1>8, GoesOn
<1> QED BY <1>1, <1>9, ContinueStep, SearchStep

LEMMA ReturningStep ==
    ASSUME IInv, GiveUpOnLanguage \/ AllTried \/ GiveUpOnTags
    PROVE  IInv'
<1>1. Running /\ Return /\ Searching
    BY DEF GiveUpOnLanguage, AllTried, GiveUpOnTags
<1> QED BY <1>1, ReturnStep, SearchStep

LEMMA LoseRestartPositionStep ==
    ASSUME IInv, LoseRestartPosition
    PROVE  IInv'
<1>1. /\ setting' = setting /\ calls' = calls
      /\ alternativeSequences' = alternativeSequences
      /\ bestFound' = bestFound /\ firstException' = firstException
      /\ outcome' = "undefined"
    BY DEF LoseRestartPosition
<1>2. GoodCall' = GoodCall /\ Offered' = Offered
    BY <1>1, SameSetting
<1> QED BY <1>1, <1>2 DEF IInv, Ended

LEMMA TryAlternativeStep ==
    ASSUME IInv, TryAlternative
    PROVE  IInv'
<1> DEFINE c == Head(calls)
<1>1. /\ Running /\ ~AtEnd(c) /\ Searching
      /\ \E p \in Alternative(c) :
            calls' = <<newCall(replaced(c.sequence, c.iter, << {p} >>)),
                       [c EXCEPT !.tried = @ \cup {p}]>> \o Tail(calls)
    BY DEF TryAlternative, Several
<1>2. PICK p \in Alternative(c) :
          calls' = <<newCall(replaced(c.sequence, c.iter, << {p} >>)),
                     [c EXCEPT !.tried = @ \cup {p}]>> \o Tail(calls)
    BY <1>1
<1>3. /\ c \in GoodCall /\ c.sequence \in Seq(Alternatives)
      /\ c.iter \in 1..Len(c.sequence)
      /\ Alternative(c) \in Alternatives
    BY <1>1, RunningCall
<1>4. p \in Promise /\ {p} \in Alternatives
    BY <1>3 DEF Alternatives
<1>5. << {p} >> \in Seq(Alternatives)
    BY <1>4
<1> DEFINE seq == replaced(c.sequence, c.iter, << {p} >>)
<1>6. seq \in Seq(Alternatives)
    BY <1>3, <1>5, Replaced
<1> HIDE DEF seq
<1>7. newCall(seq) \in GoodCall
    <2>1. seq \in Seq(SUBSET Promise) /\ Len(seq) \in Nat
        BY <1>6 DEF Alternatives
    <2>2. newCall(seq) \in Call
        BY <2>1 DEF newCall, Call
    <2>3. /\ newCall(seq).sequence = seq /\ newCall(seq).iter = 1
          /\ newCall(seq).restartPosition = 1
        BY DEF newCall
    <2> QED BY <1>6, <2>1, <2>2, <2>3 DEF GoodCall
<1>8. [c EXCEPT !.tried = @ \cup {p}] \in GoodCall
    <2>1. [c EXCEPT !.tried = @ \cup {p}] \in Call
        BY <1>3, <1>4 DEF GoodCall, Call
    <2>2. /\ [c EXCEPT !.tried = @ \cup {p}].sequence = c.sequence
          /\ [c EXCEPT !.tried = @ \cup {p}].iter = c.iter
          /\ [c EXCEPT !.tried = @ \cup {p}].restartPosition = c.restartPosition
        BY <1>3 DEF GoodCall, Call
    <2> QED BY <1>3, <2>1, <2>2 DEF GoodCall
<1>9. calls' \in Seq(GoodCall)
    BY <1>1, <1>2, <1>7, <1>8, Stack DEF IInv, Running, seq
<1> QED BY <1>1, <1>9, SearchStep

LEMMA InsertFulfillersStep ==
    ASSUME IInv, InsertFulfillers
    PROVE  IInv'
<1> DEFINE c == Head(calls)
           seq == inserted(c.sequence, c.iter, Fulfillers(c))
<1>1. /\ Running /\ ~AtEnd(c) /\ Searching
      /\ Fulfillers(c) # {}
      /\ ContinueWith([c EXCEPT !.sequence = seq, !.restartPosition = c.iter])
    BY DEF InsertFulfillers, Single
<1>2. /\ c \in GoodCall /\ c.sequence \in Seq(Alternatives)
      /\ c.iter \in 1..Len(c.sequence)
    BY <1>1, RunningCall
<1>3. Fulfillers(c) \in Alternatives
    <2>1. setting \in GoodSetting
        BY DEF IInv
    <2>2. \A tags, lang : findFulfillers(tags, lang) \in SUBSET Promise
        BY <2>1, FulfillersType
    <2>3. Fulfillers(c) \in SUBSET Promise
        BY <2>2 DEF Fulfillers
    <2> QED BY <1>1, <2>3, AlternativesAre
<1> HIDE DEF c
<1>4. /\ seq \in Seq(Alternatives)
      /\ Len(seq) = Len(c.sequence) + 1
      /\ \A j \in 1..(c.iter - 1) : seq[j] = c.sequence[j]
    BY <1>2, <1>3, Inserted
<1> HIDE DEF seq
<1>5. c.iter \in 1..c.iter /\ c.iter <= Len(seq) + 1
    BY <1>2, <1>4
<1>6. [c EXCEPT !.sequence = seq, !.iter = c.iter, !.restartPosition = c.iter] \in GoodCall
    BY <1>2, <1>4, <1>5, GoesOn
<1>7. [c EXCEPT !.sequence = seq, !.iter = c.iter, !.restartPosition = c.iter]
          = [c EXCEPT !.sequence = seq, !.restartPosition = c.iter]
    BY <1>2 DEF GoodCall, Call
<1> QED BY <1>1, <1>6, <1>7, ContinueStep, SearchStep

LEMMA AdvanceStep ==
    ASSUME IInv, Advance
    PROVE  IInv'
<1> DEFINE c == Head(calls)
<1>1. /\ Running /\ ~AtEnd(c) /\ Searching
      /\ Single(c) /\ Unfulfilled(c) = {}
      /\ ContinueWith([c EXCEPT !.iter = @ + 1])
    BY DEF Advance, Single
<1>2. /\ c \in GoodCall /\ c.iter \in 1..Len(c.sequence)
      /\ c.sequence \in Seq(Alternatives)
      /\ Alternative(c) \in Alternatives
    BY <1>1, RunningCall
<1>3. c.iter \in Nat \ {0} /\ c.restartPosition \in Nat \ {0} /\ c.restartPosition <= c.iter
    BY <1>2 DEF GoodCall, Call
<1>4. Settled(c.sequence, c.iter)
    <2>1. \E p \in Promise : c.sequence[c.iter] = {p}
        BY <1>1, <1>2 DEF Single, Alternative, Alternatives
    <2> QED BY <1>1, <2>1 DEF Settled, Unfulfilled, checkRequiredTags, Alternative
<1> DEFINE d == [c EXCEPT !.iter = @ + 1]
<1>5. /\ d \in Call /\ d.sequence = c.sequence /\ d.iter = c.iter + 1
      /\ d.restartPosition = c.restartPosition
    BY <1>2, <1>3 DEF GoodCall, Call
<1>6. \A i \in 1..c.iter : Settled(c.sequence, i)
    <2>1. ASSUME NEW i \in 1..c.iter PROVE i = c.iter \/ i \in 1..(c.iter - 1)
        BY <1>3
    <2> QED BY <1>2, <1>4, <2>1 DEF GoodCall
<1>7. c.iter <= Len(c.sequence) /\ Len(c.sequence) \in Nat
    BY <1>2
<1> HIDE DEF d
<1>8. d \in GoodCall
    BY <1>2, <1>3, <1>5, <1>6, <1>7 DEF GoodCall
<1> QED BY <1>1, <1>8, ContinueStep, SearchStep DEF d

\* A sequence the iterator has passed to its end is one that may be offered.
LEMMA CollectedIsOffered ==
    ASSUME NEW c \in GoodCall, AtEnd(c)
    PROVE  [i \in 1..Len(c.sequence) |-> TheOnlyOne(c.sequence[i])] \in Offered
<1> DEFINE seq == [i \in 1..Len(c.sequence) |-> TheOnlyOne(c.sequence[i])]
<1>1. Len(c.sequence) \in Nat /\ c.iter \in Nat /\ c.iter = Len(c.sequence) + 1
    BY DEF GoodCall, Call, AtEnd
<1>2. \A i \in 1..Len(c.sequence) : Settled(c.sequence, i)
    BY <1>1 DEF GoodCall
<1>3. \A i \in 1..Len(c.sequence) : TheOnlyOne(c.sequence[i]) \in Promise
    BY <1>2, OnlyOne DEF Settled
<1>4. seq \in Seq(Promise) /\ DOMAIN seq = 1..Len(c.sequence)
    BY <1>1, <1>3
<1>5. ASSUME NEW i \in DOMAIN seq, NEW k \in DOMAIN setting.required[seq[i].processor]
      PROVE  \E j \in 1..(i - 1) : provides(seq[j], setting.required[seq[i].processor][k])
    <2>1. i \in 1..Len(c.sequence) /\ seq[i] = TheOnlyOne(c.sequence[i])
        OBVIOUS
    <2>2. PICK j \in 1..(i - 1) :
              provides(TheOnlyOne(c.sequence[j]), setting.required[seq[i].processor][k])
        BY <1>2, <2>1 DEF Settled
    <2>3. j \in 1..Len(c.sequence)
        BY <1>1, <2>1
    <2>4. seq[j] = TheOnlyOne(c.sequence[j])
        BY <2>3
    <2> QED BY <2>2, <2>4
<1> HIDE DEF seq
<1>6. seq \in Offered
    BY <1>4, <1>5 DEF Offered, Provided
<1> QED BY <1>6 DEF seq

LEMMA CollectStep ==
    ASSUME IInv, Collect
    PROVE  IInv'
<1>1. Head(calls) \in GoodCall /\ AtEnd(Head(calls)) /\ Running
    BY RunningCall DEF Collect
<1>2. alternativeSequences' \in Seq(Offered)
    <2>1. PICK seq \in Offered : alternativeSequences' = Append(alternativeSequences, seq)
        BY <1>1, CollectedIsOffered DEF Collect
    <2>2. alternativeSequences \in Seq(Offered)
        BY DEF IInv
    <2> QED BY <2>1, <2>2
<1>3. calls' \in Seq(GoodCall)
    BY <1>1, ReturnStep DEF Collect
<1>4. GoodCall' = GoodCall /\ Offered' = Offered
    BY SameSetting DEF Collect
<1> QED BY <1>2, <1>3, <1>4 DEF IInv, Collect

\* The sequences left when one has been tried.
LEMMA WithoutOne ==
    ASSUME NEW S, NEW s \in Seq(S), NEW i \in 1..Len(s)
    PROVE  without(s, i) \in Seq(S)
    BY Before, Behind, ConcatProperties DEF without

LEMMA ChooseStep ==
    ASSUME IInv, Choose
    PROVE  IInv'
<1>1. PICK i \in DOMAIN alternativeSequences :
          LET seq == alternativeSequences[i]
          IN /\ alternativeSequences' = without(alternativeSequences, i)
             /\ \/ bestFound' = seq /\ outcome' = "found" /\ firstException' = firstException
                \/ \E k \in Failing(seq) :
                      /\ firstException' = IF firstException = {} THEN {seq[k]}
                                           ELSE firstException
                      /\ bestFound' = bestFound /\ outcome' = outcome
    BY DEF Choose
<1> DEFINE seq == alternativeSequences[i]
<1>2. i \in 1..Len(alternativeSequences) /\ seq \in Offered
    BY ElementOfSeq DEF IInv
<1>3. seq \in Seq(Promise)
    BY <1>2 DEF Offered
<1>4. alternativeSequences' \in Seq(Offered)
    BY <1>1, <1>2, WithoutOne DEF IInv
<1>5. \A k \in Failing(seq) : seq[k] \in Promise
    BY <1>3, ElementOfSeq DEF Failing
<1>6. /\ setting' = setting /\ calls' = calls
      /\ GoodCall' = GoodCall /\ Offered' = Offered
    BY SameSetting DEF Choose
<1>7. /\ bestFound' \in Offered
      /\ firstException' \in SUBSET Promise
      /\ outcome' \in {"completing", "choosing"} \cup Ended
    BY <1>1, <1>2, <1>5 DEF IInv, Ended
<1> QED BY <1>4, <1>6, <1>7 DEF IInv

LEMMA ChoosingStep ==
    ASSUME IInv, StartChoosing \/ Fail \/ UNCHANGED vars
    PROVE  IInv'
<1>1. GoodCall' = GoodCall /\ Offered' = Offered
    BY SameSetting DEF StartChoosing, Fail, vars
<1> QED BY <1>1 DEF IInv, StartChoosing, Fail, vars, Ended

-----------------------------------------------------------------------------
(* What follows for every run of the completer.                            *)

LEMMA InitIInv == Init => IInv
<1> SUFFICES ASSUME Init PROVE IInv
    OBVIOUS
<1>1. setting \in GoodSetting
    BY CompletionAssumption DEF Init
<1>2. /\ setting.request \in Seq(SUBSET Promise)
      /\ \A i \in DOMAIN setting.request : setting.request[i] # {}
    BY <1>1, SettingFields
<1>3. setting.request \in Seq(Alternatives) /\ Len(setting.request) \in Nat
    <2>1. Len(setting.request) \in Nat /\ DOMAIN setting.request = 1..Len(setting.request)
        BY <1>2, LenProperties
    <2>2. \A i \in 1..Len(setting.request) : setting.request[i] \in Alternatives
        BY <1>2, <2>1, ElementOfSeq, AlternativesAre
    <2>3. setting.request = [i \in 1..Len(setting.request) |-> setting.request[i]]
        BY <1>2, LenProperties
    <2> QED BY <2>1, <2>2, <2>3
<1>4. newCall(setting.request) \in GoodCall
    <2>1. newCall(setting.request) \in Call
        BY <1>2 DEF newCall, Call
    <2>2. /\ newCall(setting.request).sequence = setting.request
          /\ newCall(setting.request).iter = 1
          /\ newCall(setting.request).restartPosition = 1
        BY DEF newCall
    <2> QED BY <1>3, <2>1, <2>2 DEF GoodCall
<1>5. <<>> \in Offered
    BY DEF Offered, Provided
<1> QED BY <1>1, <1>4, <1>5 DEF Init, IInv

LEMMA NextIInv == IInv /\ [Next]_vars => IInv'
<1> SUFFICES ASSUME IInv, [Next]_vars PROVE IInv'
    OBVIOUS
<1>1. CASE MultiplyByLanguages
    BY <1>1, MultiplyByLanguagesStep
<1>2. CASE GiveUpOnLanguage \/ AllTried \/ GiveUpOnTags
    BY <1>2, ReturningStep
<1>3. CASE LoseRestartPosition
    BY <1>3, LoseRestartPositionStep
<1>4. CASE TryAlternative
    BY <1>4, TryAlternativeStep
<1>5. CASE InsertFulfillers
    BY <1>5, InsertFulfillersStep
<1>6. CASE Advance
    BY <1>6, AdvanceStep
<1>7. CASE Collect
    BY <1>7, CollectStep
<1>8. CASE Choose
    BY <1>8, ChooseStep
<1>9. CASE StartChoosing \/ Fail \/ UNCHANGED vars
    BY <1>9, ChoosingStep
<1> QED BY <1>1, <1>2, <1>3, <1>4, <1>5, <1>6, <1>7, <1>8, <1>9 DEF Next

\* The invariant holds in every state of every run, whatever the catalog and the
\* request (auto_completer.cpp:84-196).
THEOREM IInvHolds == Spec => []IInv
    BY InitIInv, NextIInv, PTL DEF Spec

\* The iterators stay in their sequences and every variable is of its type.
THEOREM TypeCorrect == Spec => []TypeOK
<1>1. IInv => TypeOK
    <2> SUFFICES ASSUME IInv PROVE TypeOK
        OBVIOUS
    <2>1. GoodCall \subseteq Call /\ Offered \subseteq Seq(Promise)
        BY DEF GoodCall, Offered
    <2>2. calls \in Seq(Call) /\ alternativeSequences \in Seq(Seq(Promise))
        BY <2>1 DEF IInv
    <2> QED BY <2>1, <2>2 DEF IInv, TypeOK, GoodSetting
<1> QED BY IInvHolds, <1>1, PTL

\* What the inner loop has passed stays provided for, for every catalog and request
\* (auto_completer.cpp:84-192).
THEOREM PassedStaysSettled == Spec => []PassedIsSettled
<1>1. IInv => PassedIsSettled
    <2> SUFFICES ASSUME IInv, NEW k \in DOMAIN calls
                 PROVE  /\ calls[k].restartPosition <= calls[k].iter
                        /\ calls[k].iter <= Len(calls[k].sequence) + 1
                        /\ \A i \in 1..(calls[k].iter - 1) : Settled(calls[k].sequence, i)
        BY DEF PassedIsSettled
    <2>1. calls[k] \in GoodCall
        BY ElementOfSeq DEF IInv
    <2> QED BY <2>1 DEF GoodCall
<1> QED BY IInvHolds, <1>1, PTL

\* Whatever is offered or chosen provides what its processors require, before they
\* require it, for every catalog and request (annotator_factory.hpp:17-22).
THEOREM OfferedIsProvided == Spec => []EverythingProvided
<1>1. IInv => EverythingProvided
    <2> SUFFICES ASSUME IInv PROVE EverythingProvided
        OBVIOUS
    <2>1. ASSUME NEW i \in DOMAIN alternativeSequences
          PROVE  alternativeSequences[i] \in Offered
        BY ElementOfSeq DEF IInv
    <2> QED BY <2>1 DEF IInv, Offered, EverythingProvided
<1> QED BY IInvHolds, <1>1, PTL

\* What the assertions say follows from the invariant.
LEMMA IInvAsserts == IInv => AssertionsHold
<1> SUFFICES ASSUME IInv, NEW k \in DOMAIN calls, NEW i \in DOMAIN calls[k].sequence
             PROVE  /\ calls[k].sequence[i] # {}
                    /\ i < calls[k].iter =>
                          \E p \in Promise : calls[k].sequence[i] = {p}
                    /\ \A l \in Lang :
                          ~isMultilingual(filtreByLanguage(calls[k].sequence[i], l))
    BY DEF AssertionsHold
<1>1. calls[k] \in GoodCall
    BY ElementOfSeq DEF IInv
<1>2. calls[k].sequence[i] \in Alternatives
    BY <1>1, ElementOfSeq DEF GoodCall
<1>3. i \in Nat \ {0} /\ calls[k].iter \in Nat
    BY <1>1 DEF GoodCall, Call
<1>4. i < calls[k].iter => Settled(calls[k].sequence, i)
    BY <1>1, <1>3 DEF GoodCall
<1>5. calls[k].sequence[i] # {} /\ calls[k].sequence[i] \in SUBSET Promise
    BY <1>2, AlternativesAre
<1>6. \A l \in Lang : ~isMultilingual(filtreByLanguage(calls[k].sequence[i], l))
    BY <1>5, FilteredIsNotMultilingual DEF IInv
<1> QED BY <1>4, <1>5, <1>6 DEF Settled

\* No assertion of the completer fails, and no iterator is taken of an empty list,
\* for every catalog and request (auto_completer.cpp:103, 152, 227, 374).
THEOREM NoAssertionFails == Spec => []AssertionsHold
    BY IInvHolds, IInvAsserts, PTL

=============================================================================
