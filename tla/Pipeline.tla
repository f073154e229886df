------------------------------ MODULE Pipeline ------------------------------
(***************************************************************************)
(* What running a pipeline promises, whoever assembled it: each text is    *)
(* read into a lattice of its own, the annotators work on it in their      *)
(* order, each after something that provides the tags it requires, and a   *)
(* writer ends it.  A processor may be passed over with a message; what    *)
(* depends on it is then excused.  PipeRunner implements this.             *)
(***************************************************************************)
EXTENDS Naturals, Sequences

VARIABLES
    status,    \* "idle" between texts, "working" on one, "over"
    chain,     \* the processors: the lists of tags each requires, those it provides
    ran,       \* the positions of those that worked on the present text
    passed,    \* ... and of those passed over
    written    \* the number of texts written

vars == <<status, chain, ran, passed, written>>

Ready(i) ==
    \A tags \in chain[i].required : \E j \in ran \cup passed : tags \subseteq chain[j].provided

Init ==
    /\ status = "idle"
    /\ chain = <<>>
    /\ ran = {}
    /\ passed = {}
    /\ written = 0

\* Nothing runs before the whole chain is known, and it never changes.
Assemble ==
    /\ status = "idle"
    /\ chain = <<>>
    /\ UNCHANGED <<status, ran, passed, written>>

Begin ==
    /\ status = "idle"
    /\ status' = "working"
    /\ ran' = {}
    /\ passed' = {}
    /\ UNCHANGED <<chain, written>>

\* The processors before i have had their turn.
Turn(i) ==
    /\ status = "working"
    /\ i \in DOMAIN chain
    /\ ran \cup passed = 1 .. i - 1

Read ==
    /\ Turn(1)
    /\ ran' = {1}
    /\ UNCHANGED <<status, chain, passed, written>>

Annotate(i) ==
    /\ Turn(i)
    /\ i # 1 /\ i # Len(chain)
    /\ Ready(i)
    /\ ran' = ran \cup {i}
    /\ UNCHANGED <<status, chain, passed, written>>

PassOver(i) ==
    /\ Turn(i)
    /\ passed' = passed \cup {i}
    /\ UNCHANGED <<status, chain, ran, written>>

Write ==
    /\ Turn(Len(chain))
    /\ Len(chain) # 1
    /\ Ready(Len(chain))
    /\ ran' = ran \cup {Len(chain)}
    /\ written' = written + 1
    /\ UNCHANGED <<status, chain, passed>>

End ==
    /\ status = "working"
    /\ ran \cup passed = DOMAIN chain
    /\ status' = "idle"
    /\ UNCHANGED <<chain, ran, passed, written>>

\* All texts are done, or the run is given up.
Finish ==
    /\ status # "over"
    /\ status' = "over"
    /\ UNCHANGED <<chain, ran, passed, written>>

Next ==
    \/ Assemble \/ Begin \/ Read \/ Write \/ End \/ Finish
    \/ \E i \in DOMAIN chain : Annotate(i) \/ PassOver(i)

Spec == Init /\ [][Next]_vars
=============================================================================
