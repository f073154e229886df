---------------------------- MODULE MCCompletion ----------------------------
(* Instances of Completion: every small catalog of annotators, and the        *)
(* processors PSI-Toolkit really has.                                         *)
EXTENDS Completion, TLC

CONSTANTS en, pl, x, y, reader, a1, a2, a3
CONSTANTS writer, guesser, tokenizer, segmenter, morfologik, lamerlemma, puddle, link, detok,
          token, segment, form, parse

MCSmallRank == reader :> 0 @@ a1 :> 1 @@ a2 :> 2 @@ a3 :> 3

promise(p, l) == [processor |-> p, lang |-> l]

-----------------------------------------------------------------------------
(* Every catalog of three annotators and two tags without a longer circle *)

Requirements == {<<>>, << {x} >>, << {y} >>, << {x}, {y} >>, << {x, y} >>}

Catalogs == [required : [{a1, a2, a3} -> Requirements], provided : [{a1, a2, a3} -> SUBSET {x, y}]]

LeadsTo(k, p, q) ==
    \E i \in DOMAIN k.required[p] :
        /\ k.required[p][i] \subseteq k.provided[q]
        /\ \A j \in DOMAIN k.required[q] : ~(k.required[p][i] \subseteq k.required[q][j])

NoCircle(k) ==
    \A p, q, r \in {a1, a2, a3} :
        /\ ~(LeadsTo(k, p, q) /\ LeadsTo(k, q, p))
        /\ ~(LeadsTo(k, p, q) /\ LeadsTo(k, q, r) /\ LeadsTo(k, r, p))

Requests == {<< {promise(reader, NoLang)}, {promise(a1, NoLang)} >>,
             << {promise(reader, NoLang)}, {promise(a2, NoLang), promise(a3, NoLang)},
                {promise(a1, NoLang)} >>}

\* The annotators of Small handle any text.  Those of Languages may handle two
\* languages or one; they build on each other or two of them provide the same, and
\* no language is known, one or two.
AnyText == [handling |-> "LANGUAGE_INDEPENDENT", handled |-> {}]

Kinds == {AnyText,
          [handling |-> "LANGUAGE_DEPENDENT", handled |-> {en, pl}],
          [handling |-> "LANGUAGE_DEPENDENT", handled |-> {pl}],
          [handling |-> "JUST_ONE_LANGUAGE", handled |-> {en}],
          [handling |-> "JUST_ONE_LANGUAGE", handled |-> {pl}]}

InTurn ==
    [required |-> a1 :> << {x} >> @@ a2 :> << {y} >> @@ a3 :> <<>>,
     provided |-> a1 :> {} @@ a2 :> {x} @@ a3 :> {y}]

Rivals ==
    [required |-> a1 :> << {x} >> @@ a2 :> <<>> @@ a3 :> <<>>,
     provided |-> a1 :> {} @@ a2 :> {x} @@ a3 :> {x}]

Small ==
    {k \in Catalogs : NoCircle(k)} \X {[a \in {a1, a2, a3} |-> AnyText]} \X {<<>>}

Languages == {InTurn, Rivals} \X [{a1, a2, a3} -> Kinds] \X {<<>>, <<pl>>, <<en, pl>>}

CatalogSettings ==
    {[annotators |-> {a1, a2, a3},
      required |-> reader :> <<>> @@ instance[1].required,
      provided |-> reader :> {} @@ instance[1].provided,
      handling |-> reader :> AnyText.handling @@ [a \in {a1, a2, a3} |-> instance[2][a].handling],
      handled |-> reader :> AnyText.handled @@ [a \in {a1, a2, a3} |-> instance[2][a].handled],
      quality |-> reader :> 0 @@ a1 :> 0 @@ a2 :> 1 @@ a3 :> 0,
      time |-> reader :> -1 @@ a1 :> -1 @@ a2 :> 2 @@ a3 :> -1,
      creatable |-> {p \in Promise : p.processor \notin missing},
      request |-> request,
      langCodes |-> instance[3]] :
        instance \in Small \cup Languages, request \in Requests, missing \in {{}, {a2}}}

-----------------------------------------------------------------------------
(* The processors of PSI-Toolkit, with two languages *)

MCToolkitRank == [p \in Processor |->
    CHOOSE i \in 0..15 :
        p = <<a1, a2, a3, detok, lamerlemma, guesser, link, morfologik, puddle, reader,
              segmenter, tokenizer, writer>>[i + 1]]

\* a1 requires what a2 (for Polish) and a3 (for English) provide: annotators set up by
\* configuration files, as are all those of FromConfigurationAnnotatorFactory
ofToolkit(request, langCodes, missing) ==
    [annotators |-> Processor \ {reader, writer},
     required |-> [p \in Processor |->
        CASE p \in {morfologik, lamerlemma, detok} -> << {token} >>
          [] p = puddle -> << {form} >>
          [] p = link -> << {segment} >>
          [] p = a1 -> << {x} >>
          [] p = a2 -> << {segment}, {token} >>
          [] OTHER -> <<>>],
     provided |-> [p \in Processor |->
        CASE p = tokenizer -> {token}
          [] p = segmenter -> {segment}
          [] p \in {morfologik, lamerlemma} -> {form}
          [] p \in {puddle, link} -> {parse}
          [] p \in {a2, a3} -> {x}
          [] OTHER -> {}],
     handling |-> [p \in Processor |->
        CASE p \in {morfologik, a2, a3} -> "JUST_ONE_LANGUAGE"
          [] p \in {tokenizer, segmenter, lamerlemma, puddle, link} -> "LANGUAGE_DEPENDENT"
          [] p = guesser -> "LANGUAGE_GUESSER"
          [] OTHER -> "LANGUAGE_INDEPENDENT"],
     handled |-> [p \in Processor |->
        CASE p \in {morfologik, a2, segmenter} -> {pl}
          [] p = a3 -> {en}
          [] p \in {tokenizer, lamerlemma, puddle} -> {en, pl}
          [] OTHER -> {}],    \* link has no directory of a language in its data
     quality |-> [p \in Processor |-> IF p = morfologik THEN -10 ELSE 0],
     time |-> [p \in Processor |-> -1],
     creatable |-> {p \in Promise : p \notin missing},
     request |-> << {promise(reader, NoLang)} >> \o request \o << {promise(writer, NoLang)} >>,
     langCodes |-> langCodes]

plain(S) == {promise(p, NoLang) : p \in S}

Missing == {{}, {promise(morfologik, NoLang)},
            {promise(p, pl) : p \in {puddle, lamerlemma}},
            {promise(lamerlemma, l) : l \in {en, pl}} \cup plain({morfologik})}
=============================================================================
