---------------------------- MODULE ServerProofs ----------------------------
(***************************************************************************)
(* Proofs about the server, for any number of clients, requests, restarts  *)
(* and pipelines.  Types, and that a cookie stays with its client, hold    *)
(* for any number of threads; what the clients are shown is right only     *)
(* where one thread serves them all, as it does by default                 *)
(* (server_runner.cpp:56-57).                                              *)
(***************************************************************************)
EXTENDS Server, TLAPS

Step == {"idle", "instance", "create", "session", "current", "fields", "input", "prepare",
         "clear", "run", "save", "options", "form", "output", "json", "jsonrun", "jsonpage",
         "reply"}

\* The names a form may send, with values of their kind.
TextKey == {"inputText", "inputFile", "input"}
PipeKey == {"pipeText", "pipe"}
Field   == (TextKey \X (Text \cup {NoText})) \cup (PipeKey \X (Pipe \cup {NoPipe}))
           \cup ({"radioFile"} \X BOOLEAN)

\* What setData() stores, and under which name.
Datum == Field \cup ({"outputText", "outputFile"} \X (Run \cup {NoOutput}))
         \cup ({"errorOccured"} \X BOOLEAN)
Key   == TextKey \cup PipeKey \cup {"radioFile", "outputText", "outputFile", "errorOccured"}

AnyPage == [input : Text \cup {NoText}, pipe : Pipe \cup {NoPipe}, output : Run \cup {NoOutput},
            file : Run \cup {NoOutput}, error : BOOLEAN]

ThreadState == [pc : Step, request : {0} \cup Number, session : {0} \cup Number,
                fields : Seq(Field), input : Text \cup {NoText}, pipe : Pipe \cup {NoPipe},
                run : Run \cup {NoOutput}, page : AnyPage]

-----------------------------------------------------------------------------
(* What holds for any number of threads                                    *)

\* A thread in state r has what its next step needs.
Ready(r) ==
    /\ r.pc # "idle" => r.request \in DOMAIN requests
    /\ r.pc = "prepare" => r.pipe \in Pipe /\ r.input \in Text
    /\ r.pc \in {"clear", "run", "save"} => r.run \in Run
    /\ r.pc = "output" => r.page.input \in Text /\ r.page.pipe \in Pipe
    /\ r.pc = "reply" => r.page \in Page
    /\ r.pc \notin {"form", "output", "reply"} => r.page = emptyPage

ThreadsOK ==
    /\ Len(requests) <= MaxRequests
    /\ thread \in [Thread -> ThreadState]
    /\ \A t \in Thread : Ready(thread[t])

\* The session that is named by id, if any, was made for a request of client c.
MadeFor(id, c) == id # 0 => id \in DOMAIN requests /\ requests[id].client = c

\* The session that a thread in state r works with is one of the client it serves.
Entitled(r) == r.pc # "idle" => MadeFor(r.session, requests[r.request].client)

\* A cookie, wherever it is, leads its client to no session of somebody else.
CookiesOwn ==
    /\ \A n \in DOMAIN requests : MadeFor(requests[n].cookie, requests[n].client)
    /\ \A c \in Client : MadeFor(cookies[c], c)
    /\ \A n \in DOMAIN replies : MadeFor(replies[n].cookie, requests[n].client)
    /\ \A t \in Thread : Entitled(thread[t])
    /\ DOMAIN sessions \subseteq DOMAIN requests

\* The default output is that of the default pipeline, wherever that writes anything.
DefaultStays ==
    /\ initialOutput \notin EmptyRuns
    /\ defaultRun \notin EmptyRuns => initialOutput = defaultRun

SharedInv == TypeOK /\ ThreadsOK /\ CookiesOwn /\ DefaultStays

-----------------------------------------------------------------------------
(* What holds where there is one thread                                    *)

SingleThread == \E t : Thread = {t}

Acting == {"fields", "input", "prepare", "clear", "run", "save", "options", "form", "output",
           "json", "jsonrun", "jsonpage"}

\* From SetCurrentSession() on, the current session is that of the thread.
InCharge ==
    \A t \in Thread :
        /\ thread[t].pc \in Acting \cup {"current"} => thread[t].session \in DOMAIN sessions
        /\ thread[t].pc \in Acting => currentSessionId = thread[t].session

\* What a session keeps of the last run agrees; o is the default output, which may
\* stand in the place of an empty one.
Agrees(s, o) ==
    IF s.errorOccured
    THEN s.outputFile = NoOutput /\ s.outputText # NoOutput /\ fails(s.outputText)
    ELSE s.outputText \in IF s.outputFile \in EmptyRuns \cup {NoOutput} THEN {NoOutput, o}
                         ELSE {s.outputFile}

\* A session s that a thread in state r does not need otherwise has no choice of
\* a file left over, and what it keeps agrees.
AtRest(s, id, r, o) ==
    /\ (r.session = id =>
           r.pc \notin {"fields", "input", "prepare", "clear", "run", "save", "options"})
       => ~s.radioFile
    /\ (r.session = id => r.pc \notin {"run", "save"}) => Agrees(s, o)

\* A session s of client c holds nothing of others, save the default output o.
Owned(s, c, o) ==
    /\ {s.inputText, s.inputFile, s.input} \subseteq TextsOf(c)
    /\ s.outputText # NoOutput =>
          \/ s.outputText[2] \in TextsOf(c)
          \/ defaultRun \in EmptyRuns /\ s.outputText = o
    /\ s.outputFile # NoOutput => s.outputFile[2] \in TextsOf(c)

\* Those fields of its request that the thread has passed are in the session.
Stored(r, s) ==
    LET all  == fieldsOf(r.request)
        done == Len(all) - Len(r.fields)
    IN  /\ done \in Nat
        /\ \A i \in 1 .. Len(r.fields) : r.fields[i] = all[done + i]
        /\ \A i \in 1 .. done : s[all[i][1]] = all[i][2]

JsonDue(n) ==
    IF requests[n].form.pipe = NoPipe \/ requests[n].form.empty THEN NoOutput
    ELSE <<requests[n].form.pipe, n, FALSE>>

\* The page answers request n; where there is no output, it shows one of others.
Answers(n, page, others) ==
    /\ Submitted(n) => page.output \in IF Due(n) \in EmptyRuns THEN others ELSE {Due(n)}
    /\ requests[n].form.kind = "json" => page.output = JsonDue(n)
    /\ requests[n].form.kind \in {"view", "text", "file"} =>
          IF page.error
          THEN page.file = NoOutput /\ page.output # NoOutput /\ fails(page.output)
          ELSE page.output \in IF page.file \in EmptyRuns \cup {NoOutput} THEN others
                              ELSE {page.file}

\* What a thread in state r knows of its request, step by step, by itself and from
\* its session s and the members of the sites.
Knows(r, s, fromFile, json, o) ==
    LET n    == r.request
        form == requests[n].form
    IN  /\ r.pc \in {"instance", "create", "session", "current"} => form.kind # "malformed"
        /\ r.pc = "fields" => /\ form.kind \in {"text", "file", "json"}
                              /\ Stored(r, s)
                              /\ s.radioFile => form.kind = "file"
        /\ r.pc \in {"input", "prepare", "clear", "run", "save"} => Submitted(n)
        /\ r.pc = "input" =>
              /\ s.radioFile <=> form.kind = "file"
              /\ (IF form.kind = "file" THEN s.inputFile ELSE s.inputText) = Data(n)
              /\ s.pipeText = form.pipe
        /\ r.pc = "prepare" => <<r.pipe, r.input, fromFile>> = Due(n)
        /\ r.pc \in {"clear", "run", "save"} => r.run = Due(n)
        /\ r.pc = "run" => s.outputFile = NoOutput /\ ~s.errorOccured
        /\ r.pc = "save" =>
              /\ s.errorOccured <=> fails(Due(n))
              /\ s.outputFile = IF fails(Due(n)) THEN NoOutput ELSE Due(n)
        /\ r.pc \in {"options", "form", "output"} =>
              /\ form.kind \in {"view", "text", "file"}
              /\ Submitted(n) => s.outputText = outputOf(Due(n))
        /\ r.pc \in {"form", "output"} =>
              r.page.file = s.outputFile /\ r.page.error = s.errorOccured
        /\ r.pc \in {"json", "jsonrun", "jsonpage"} => form.kind = "json"
        /\ r.pc = "json" => s.pipe = form.pipe /\ s.input = Data(n)
        /\ r.pc = "jsonrun" => r.pipe = form.pipe /\ r.input = Data(n)
        /\ r.pc = "jsonpage" => json = JsonDue(n)
        /\ r.pc = "reply" => Answers(n, r.page, {o})

SessionsRest ==
    \A t \in Thread : \A id \in DOMAIN sessions :
        AtRest(sessions[id], id, thread[t], initialOutput)

SessionsOwned ==
    \A id \in DOMAIN sessions : Owned(sessions[id], requests[id].client, initialOutput)

ThreadKnows ==
    \A t \in Thread : Knows(thread[t], session, inputFromFile, jsonOutput, initialOutput)

AnswersOK == \A n \in DOMAIN replies : Answers(n, replies[n].page, StandIns)

ServedRight == InCharge /\ SessionsRest /\ SessionsOwned /\ ThreadKnows /\ AnswersOK

\* Between the run and the reply.
Showing == {"options", "form", "output", "reply"}

\* The default output may stand in for an empty one, or it is that of the request
\* being served, and may once that is answered.
DefaultKnown ==
    \/ initialOutput \in StandIns
    \/ \E t \in Thread : /\ thread[t].pc \in Showing
                         /\ Submitted(thread[t].request)
                         /\ initialOutput = Due(thread[t].request)

OneThreadInv == ServedRight /\ DefaultKnown

-----------------------------------------------------------------------------
(* Types and cookies                                                       *)

LEMMA RequestFields ==
    ASSUME TypeOK, NEW n \in DOMAIN requests
    PROVE  /\ n \in Nat /\ n # 0
           /\ requests[n].client \in Client
           /\ requests[n].cookie \in {0} \cup Number
           /\ requests[n].form \in Form
           /\ requests[n].form.kind \in Kind
           /\ requests[n].form.pipe \in Pipe \cup {NoPipe}
           /\ requests[n].form.empty \in BOOLEAN
<1> DEFINE Request == [client : Client, cookie : {0} \cup Number, form : Form]
<1>1. requests \in Seq(Request)
    BY DEF TypeOK
<1>2. n \in 1 .. Len(requests) /\ requests[n] \in Request
    <2> HIDE DEF Request
    <2> QED BY <1>1
<1>3. requests[n].form \in [kind : Kind, pipe : Pipe \cup {NoPipe}, empty : BOOLEAN]
    BY <1>2 DEF Form
<1> QED BY <1>1, <1>2, <1>3 DEF Form

LEMMA Numbers ==
    ASSUME TypeOK, ThreadsOK
    PROVE  /\ Len(requests) \in Nat
           /\ DOMAIN requests = 1 .. Len(requests)
           /\ DOMAIN requests \subseteq Number
           /\ Number \subseteq Text
<1> DEFINE Request == [client : Client, cookie : {0} \cup Number, form : Form]
<1>1. requests \in Seq(Request)
    BY DEF TypeOK
<1>2. Len(requests) \in Nat /\ DOMAIN requests = 1 .. Len(requests)
    <2> HIDE DEF Request
    <2> QED BY <1>1
<1> QED BY <1>2, ServerAssumption DEF ThreadsOK, Number, Text

LEMMA ShortSequences ==
    ASSUME NEW S
    PROVE  /\ <<>> \in Seq(S)
           /\ \A a, b \in S : <<a, b>> \in Seq(S)
           /\ \A a, b, c, d \in S : <<a, b, c, d>> \in Seq(S)
OBVIOUS

\* What a client sends, field by field.
LEMMA FormFields ==
    ASSUME SharedInv, NEW n \in DOMAIN requests
    PROVE  /\ Data(n) \in Text \cup {NoText}
           /\ fieldsOf(n) \in Seq(Field)
<1>1. Data(n) \in Text \cup {NoText}
    BY Numbers DEF SharedInv, Data
<1>2. requests[n].form.kind \in Kind /\ requests[n].form.pipe \in Pipe \cup {NoPipe}
    BY RequestFields DEF SharedInv
<1> DEFINE p == requests[n].form.pipe
<1>3. /\ <<"inputText", Data(n)>> \in Field /\ <<"inputFile", Data(n)>> \in Field
      /\ <<"input", Data(n)>> \in Field /\ <<"inputText", NoText>> \in Field
      /\ <<"pipeText", p>> \in Field /\ <<"pipe", p>> \in Field
      /\ <<"radioFile", TRUE>> \in Field
    BY <1>1, <1>2 DEF Field, TextKey, PipeKey
<1>4. /\ requests[n].form.kind = "text" =>
            fieldsOf(n) = <<<<"inputText", Data(n)>>, <<"pipeText", p>>>>
      /\ requests[n].form.kind = "file" =>
            fieldsOf(n) = <<<<"inputFile", Data(n)>>, <<"inputText", NoText>>,
                            <<"pipeText", p>>, <<"radioFile", TRUE>>>>
      /\ requests[n].form.kind = "json" =>
            fieldsOf(n) = <<<<"pipe", p>>, <<"input", Data(n)>>>>
      /\ requests[n].form.kind \notin {"text", "file", "json"} => fieldsOf(n) = <<>>
    BY DEF fieldsOf
<1> DEFINE e1 == <<"inputText", Data(n)>>
           e2 == <<"inputFile", Data(n)>>
           e3 == <<"input", Data(n)>>
           e4 == <<"inputText", NoText>>
           e5 == <<"pipeText", p>>
           e6 == <<"pipe", p>>
           e7 == <<"radioFile", TRUE>>
<1> HIDE DEF e1, e2, e3, e4, e5, e6, e7
<1>5. /\ <<e1, e5>> \in Seq(Field) /\ <<e6, e3>> \in Seq(Field)
      /\ <<e2, e4, e5, e7>> \in Seq(Field) /\ <<>> \in Seq(Field)
    <2>1. {e1, e2, e3, e4, e5, e6, e7} \subseteq Field
        BY <1>3 DEF e1, e2, e3, e4, e5, e6, e7
    <2> QED BY <2>1, ShortSequences
<1>6. fieldsOf(n) \in {<<e1, e5>>, <<e2, e4, e5, e7>>, <<e6, e3>>, <<>>}
    BY <1>4 DEF e1, e2, e3, e4, e5, e6, e7
<1> QED BY <1>1, <1>5, <1>6

LEMMA SessionFields ==
    ASSUME TypeOK
    PROVE  /\ session \in Session
           /\ \A id \in DOMAIN sessions : sessions[id] \in Session
<1>1. \A id \in DOMAIN sessions : sessions[id] \in Session
    BY DEF TypeOK, Range_
<1>2. emptySession \in Session
    BY DEF emptySession, Session
<1> QED BY <1>1, <1>2 DEF session

\* What a thread's state looks like when only its pc changes.
LEMMA Goes ==
    ASSUME ThreadsOK, NEW t \in Thread, NEW pc \in Step
    PROVE  /\ [thread[t] EXCEPT !.pc = pc] \in ThreadState
           /\ [thread EXCEPT ![t].pc = pc] = [thread EXCEPT ![t] = [thread[t] EXCEPT !.pc = pc]]
BY DEF ThreadsOK, ThreadState

\* A value stored in a session leaves the others.
LEMMA StoreDatum ==
    ASSUME NEW s \in Session, NEW d \in Datum
    PROVE  /\ [s EXCEPT ![d[1]] = d[2]] \in Session
           /\ [s EXCEPT ![d[1]] = d[2]][d[1]] = d[2]
           /\ \A k \in Key : k # d[1] => [s EXCEPT ![d[1]] = d[2]][k] = s[k]
<1>1. CASE d \in Field
    BY <1>1 DEF Session, Field, TextKey, PipeKey, Key
<1>2. CASE d \notin Field
    BY <1>2 DEF Datum, Session, TextKey, PipeKey, Key
<1> QED BY <1>1, <1>2

LEMMA DataSet ==
    ASSUME TypeOK, NEW d \in Datum, setData(d[1], d[2])
    PROVE  /\ DOMAIN sessions' = DOMAIN sessions
           /\ \A id \in DOMAIN sessions : sessions'[id] \in Session
           /\ \A id \in DOMAIN sessions : id # currentSessionId => sessions'[id] = sessions[id]
           /\ currentSessionId \in DOMAIN sessions =>
                 sessions'[currentSessionId] = [session EXCEPT ![d[1]] = d[2]]
<1>1. CASE currentSessionId \in DOMAIN sessions
    <2>1. sessions' = [sessions EXCEPT ![currentSessionId] = [session EXCEPT ![d[1]] = d[2]]]
        BY <1>1 DEF setData, session
    <2>2. [session EXCEPT ![d[1]] = d[2]] \in Session
        BY SessionFields, StoreDatum
    <2> QED BY <2>1, <2>2, <1>1, SessionFields
<1>2. CASE currentSessionId \notin DOMAIN sessions
    BY <1>2, SessionFields DEF setData
<1> QED BY <1>1, <1>2

\* Runs, and the outputs that are known by them.
LEMMA RunFacts ==
    /\ defaultRun \in Run /\ NoOutput \notin Run /\ EmptyRuns \subseteq Run
    /\ \A run \in Run : /\ outputOf(run) \in Run \cup {NoOutput}
                        /\ outputOf(run) \notin EmptyRuns
                        /\ outputOf(run) = IF run \in EmptyRuns THEN NoOutput ELSE run
                        /\ fails(run) => run \notin EmptyRuns
<1>1. 0 \in Text /\ initialPipe \in Pipe /\ EmptyRuns \subseteq {run \in Run : ~fails(run)}
    BY ServerAssumption DEF Text
<1>2. defaultRun \in Run
    BY <1>1 DEF defaultRun, Run
<1>3. NoOutput \notin Run
    BY DEF NoOutput, Run
<1> QED BY <1>1, <1>2, <1>3 DEF outputOf

\* What a step may do to the default output, and what becomes of it.
DefaultKept ==
    \/ UNCHANGED initialOutput
    \/ \E run \in Run : initialOutput' = newInitialOutput(outputOf(run))

LEMMA DefaultFollows ==
    ASSUME SharedInv, DefaultKept
    PROVE  /\ initialOutput' \in Run \cup {NoOutput}
           /\ DefaultStays'
           /\ initialOutput' = initialOutput \/ initialOutput = NoOutput
<1>1. initialOutput \in Run \cup {NoOutput} /\ DefaultStays
    BY DEF SharedInv, TypeOK
<1>2. CASE UNCHANGED initialOutput
    BY <1>1, <1>2 DEF DefaultStays
<1>3. ASSUME NEW run \in Run, initialOutput' = newInitialOutput(outputOf(run))
      PROVE  /\ initialOutput' \in Run \cup {NoOutput}
             /\ DefaultStays'
             /\ initialOutput' = initialOutput \/ initialOutput = NoOutput
    BY <1>1, <1>3, RunFacts DEF DefaultStays, newInitialOutput
<1> QED BY <1>2, <1>3 DEF DefaultKept

SessionsOK == DOMAIN sessions \subseteq DOMAIN requests /\ Range_(sessions) \subseteq Session

\* One step of one thread: the conditions under which what is shared stays right.
LEMMA Serves ==
    ASSUME SharedInv, NEW t \in Thread, NEW r \in ThreadState, Ready(r), Entitled(r),
           thread' = [thread EXCEPT ![t] = r],
           UNCHANGED <<requests, cookies, replies, restarts>>, pending' \subseteq pending,
           SessionsOK',
           managerExists' \in BOOLEAN,
           currentSessionId' \in {0} \cup Number,
           inputFromFile' \in BOOLEAN,
           jsonOutput' \in Run \cup {NoOutput},
           DefaultKept
    PROVE  SharedInv'
<1>1. /\ thread' \in [Thread -> ThreadState]
      /\ thread'[t] = r
      /\ \A u \in Thread : u # t => thread'[u] = thread[u]
    BY DEF SharedInv, ThreadsOK
<1>3. ThreadsOK'
    BY <1>1 DEF SharedInv, ThreadsOK, Ready
<1>4. CookiesOwn'
    BY <1>1 DEF SharedInv, CookiesOwn, Entitled, MadeFor, SessionsOK
<1>5. DOMAIN requests \subseteq Number
    BY Numbers DEF SharedInv
<1>6. TypeOK'
    BY <1>5, DefaultFollows DEF SharedInv, TypeOK, SessionsOK
<1> QED BY <1>3, <1>4, <1>6, DefaultFollows DEF SharedInv


LEMMA EmptyPage == emptyPage \in Page /\ emptyPage \in AnyPage /\ idle \in ThreadState
<1>1. emptyPage \in Page /\ emptyPage \in AnyPage
    BY DEF emptyPage, Page, AnyPage
<1> QED BY <1>1 DEF idle, ThreadState, Step

LEMMA ThreadFields ==
    ASSUME SharedInv, NEW t \in Thread
    PROVE  /\ thread[t] \in ThreadState /\ Ready(thread[t]) /\ Entitled(thread[t])
           /\ thread[t].pc \in Step
           /\ thread[t].request \in {0} \cup Number
           /\ thread[t].session \in {0} \cup Number
           /\ thread[t].fields \in Seq(Field)
           /\ thread[t].input \in Text \cup {NoText}
           /\ thread[t].pipe \in Pipe \cup {NoPipe}
           /\ thread[t].run \in Run \cup {NoOutput}
           /\ thread[t].page \in AnyPage
BY DEF SharedInv, ThreadsOK, CookiesOwn, ThreadState

\* A step that only moves the thread on, when its next step needs nothing new.
LEMMA Passes ==
    ASSUME SharedInv, NEW t \in Thread, NEW pc, pc \in Step,
           thread[t].pc \notin {"idle", "form", "output", "reply"},
           pc \notin {"idle", "form", "output", "reply", "prepare", "clear", "run", "save"},
           Goto(t, pc), Handling, SessionsOK',
           managerExists' \in BOOLEAN, currentSessionId' \in {0} \cup Number,
           inputFromFile' \in BOOLEAN, jsonOutput' \in Run \cup {NoOutput},
           UNCHANGED initialOutput
    PROVE  SharedInv'
<1> DEFINE r == [thread[t] EXCEPT !.pc = pc]
<1>1. r \in ThreadState /\ thread' = [thread EXCEPT ![t] = r]
    BY Goes DEF SharedInv, Goto
<1>2. Ready(r) /\ Entitled(r)
    BY ThreadFields DEF Ready, Entitled, ThreadState
<1> HIDE DEF r
<1> QED BY <1>1, <1>2, Serves DEF Handling, browsers, DefaultKept

\* The steps of a thread, up to the action.
LEMMA BeginsWell ==
    ASSUME SharedInv, NEW t \in Thread,
           \/ \E n \in pending : Take(t, n)
           \/ Instance(t) \/ Create(t) \/ FindSession(t) \/ SetCurrentSession(t)
           \/ AddData(t) \/ CallAction(t)
    PROVE  SharedInv'
<1>0. /\ SessionsOK
      /\ managerExists \in BOOLEAN /\ currentSessionId \in {0} \cup Number
      /\ inputFromFile \in BOOLEAN /\ jsonOutput \in Run \cup {NoOutput}
      /\ DOMAIN requests \subseteq Number
    BY Numbers DEF SharedInv, CookiesOwn, SessionsOK, TypeOK
<1>1. ASSUME NEW n \in pending, Take(t, n)
      PROVE  SharedInv'
    <2> DEFINE bad == requests[n].form.kind = "malformed"
               pc  == IF bad THEN "reply" ELSE "instance"
               id  == IF bad THEN requests[n].cookie ELSE 0
               r   == [thread[t] EXCEPT !.request = n, !.pc = pc, !.session = id]
    <2>1. n \in DOMAIN requests
        BY DEF SharedInv, TypeOK
    <2>2. r \in ThreadState
        <3>1. n \in Number /\ pc \in Step /\ id \in {0} \cup Number
            BY <2>1, Numbers, RequestFields DEF SharedInv, Step
        <3> HIDE DEF pc, id
        <3> QED BY <3>1, ThreadFields DEF ThreadState
    <2>3. thread' = [thread EXCEPT ![t] = r]
        BY <1>1, ThreadFields DEF Take, ThreadState
    <2>4. Ready(r)
        <3>1. thread[t].page = emptyPage
            BY <1>1, ThreadFields DEF Ready, Take, At
        <3>2. r.request = n /\ r.page = emptyPage /\ r.pc \in {"reply", "instance"}
            BY <3>1, ThreadFields DEF ThreadState
        <3> HIDE DEF r
        <3> QED BY <2>1, <3>2, EmptyPage DEF Ready
    <2>5. Entitled(r)
        BY <2>1, ThreadFields DEF SharedInv, CookiesOwn, Entitled, MadeFor, ThreadState
    <2>6. SessionsOK'
        BY <1>0, <1>1 DEF Take, SessionsOK, manager, browsers
    <2> HIDE DEF r
    <2> QED BY <1>0, <1>1, <2>2, <2>3, <2>4, <2>5, <2>6, Serves DEF DefaultKept, Take, manager, browsers, sites
<1>2. CASE Instance(t)
    <2>1. UNCHANGED <<sessions, managerExists, currentSessionId, inputFromFile, jsonOutput,
                      initialOutput>>
        BY <1>2 DEF Instance, manager, sites
    <2>2. (IF managerExists THEN "session" ELSE "create") \in Step \ {"idle"}
        BY DEF Step
    <2> QED BY <1>0, <1>2, <2>1, <2>2, Passes DEF Instance, At, SessionsOK, Handling, browsers
<1>3. CASE Create(t)
    <2>1. SessionsOK'
        BY <1>3 DEF Create, SessionsOK, Range_
    <2> QED BY <1>0, <1>3, <2>1, Passes DEF Create, At, Step, sites
<1>4. CASE FindSession(t)
    <2> DEFINE n  == thread[t].request
               id == IF requests[n].cookie \in DOMAIN sessions THEN requests[n].cookie ELSE n
               r  == [thread[t] EXCEPT !.session = id, !.pc = "current"]
    <2>1. n \in DOMAIN requests /\ thread[t].pc = "session"
        BY <1>4, ThreadFields DEF Ready, FindSession, At
    <2>2. id \in DOMAIN requests /\ MadeFor(id, requests[n].client)
        BY <1>0, <2>1, RequestFields DEF SharedInv, CookiesOwn, MadeFor, SessionsOK
    <2>3. DOMAIN sessions' = DOMAIN sessions \cup {id}
          /\ \A i \in DOMAIN sessions' : sessions'[i] \in Session
        <3>1. emptySession \in Session
            BY DEF emptySession, Session
        <3> QED BY <1>4, <3>1, SessionFields DEF SharedInv, FindSession
    <2>4. SessionsOK'
        BY <1>0, <1>4, <2>2, <2>3 DEF FindSession, SessionsOK, Range_, Handling, browsers
    <2>5. r \in ThreadState /\ thread' = [thread EXCEPT ![t] = r]
        <3>1. thread' = [thread EXCEPT ![t] = r]
            BY <1>4, ThreadFields DEF FindSession, ThreadState
        <3>2. id \in {0} \cup Number /\ "current" \in Step
            BY <1>0, <2>2 DEF Step
        <3> HIDE DEF id
        <3> QED BY <3>1, <3>2, ThreadFields DEF ThreadState
    <2>6. Ready(r) /\ Entitled(r)
        BY <2>1, <2>2, ThreadFields DEF Ready, Entitled, ThreadState
    <2> HIDE DEF r, id
    <2> QED BY <1>0, <1>4, <2>4, <2>5, <2>6, Serves DEF DefaultKept, FindSession, sites, Handling, browsers
<1>5. CASE SetCurrentSession(t)
    <2> DEFINE n  == thread[t].request
               pc == CASE requests[n].form.kind = "view" -> "options"
                       [] requests[n].form.kind = "static" -> "reply"
                       [] OTHER -> "fields"
               r  == [thread[t] EXCEPT !.fields = fieldsOf(n), !.pc = pc]
    <2>1. n \in DOMAIN requests /\ thread[t].pc = "current" /\ thread[t].page = emptyPage
        BY <1>5, ThreadFields DEF Ready, SetCurrentSession, At
    <2>2. pc \in {"options", "reply", "fields"}
        OBVIOUS
    <2>3. thread' = [thread EXCEPT ![t] = r]
        BY <1>5, ThreadFields DEF SetCurrentSession, ThreadState
    <2> HIDE DEF pc
    <2>4. r \in ThreadState
        BY <2>1, <2>2, ThreadFields, FormFields DEF ThreadState, Step
    <2>5. Ready(r) /\ Entitled(r)
        <3>1. /\ r.request = n /\ r.session = thread[t].session /\ r.page = emptyPage
              /\ r.pc = pc
            BY <2>1, ThreadFields DEF ThreadState
        <3> HIDE DEF r
        <3> QED BY <2>1, <2>2, <3>1, ThreadFields, EmptyPage DEF Ready, Entitled
    <2>6. SessionsOK' /\ currentSessionId' \in {0} \cup Number
        BY <1>0, <1>5, ThreadFields DEF SetCurrentSession, SessionsOK, Handling, browsers
    <2> HIDE DEF r
    <2> QED BY <1>0, <1>5, <2>3, <2>4, <2>5, <2>6, Serves
       DEF DefaultKept, SetCurrentSession, sites, Handling, browsers
<1>6. CASE AddData(t)
    <2> DEFINE r == [thread[t] EXCEPT !.fields = Tail(thread[t].fields)]
               d == Head(thread[t].fields)
    <2>1. d \in Field /\ Tail(thread[t].fields) \in Seq(Field)
        BY <1>6, ThreadFields DEF AddData
    <2>2. r \in ThreadState /\ thread' = [thread EXCEPT ![t] = r]
        BY <1>6, <2>1, ThreadFields DEF AddData, ThreadState
    <2>3. Ready(r) /\ Entitled(r)
        BY ThreadFields DEF Ready, Entitled, ThreadState
    <2>4. setData(d[1], d[2]) /\ d \in Datum
        BY <1>6, <2>1 DEF AddData, Datum
    <2> HIDE DEF r, d
    <2>5. SessionsOK'
        BY <1>0, <1>6, <2>4, DataSet DEF SharedInv, SessionsOK, Range_, AddData, Handling, browsers
    <2> QED BY <1>0, <1>6, <2>2, <2>3, <2>5, Serves DEF DefaultKept, AddData, sites, Handling, browsers
<1>7. CASE CallAction(t)
    <2>1. UNCHANGED <<sessions, managerExists, currentSessionId, inputFromFile, jsonOutput,
                      initialOutput>>
        BY <1>7 DEF CallAction, manager, sites
    <2>2. \E pc \in {"json", "input"} : Goto(t, pc)
        BY <1>7 DEF CallAction
    <2> QED BY <1>0, <1>7, <2>1, <2>2, Passes
       DEF CallAction, At, Step, SessionsOK, Handling, browsers
<1> QED BY <1>1, <1>2, <1>3, <1>4, <1>5, <1>6, <1>7

\* setData() at a step that then goes on.
LEMMA StoresAndPasses ==
    ASSUME SharedInv, NEW t \in Thread, NEW pc, pc \in Step,
           thread[t].pc \notin {"idle", "form", "output", "reply"},
           pc \notin {"idle", "form", "output", "reply", "prepare", "clear", "run", "save"}
           \/ (pc = "save" /\ thread[t].pc = "run"),
           NEW d \in Datum, setData(d[1], d[2]), Goto(t, pc), Handling,
           UNCHANGED <<managerExists, currentSessionId, inputFromFile, jsonOutput>>,
           DefaultKept
    PROVE  SharedInv'
<1> DEFINE r == [thread[t] EXCEPT !.pc = pc]
<1>1. r \in ThreadState /\ thread' = [thread EXCEPT ![t] = r]
    BY Goes DEF SharedInv, Goto
<1>2. Ready(r) /\ Entitled(r)
    BY ThreadFields DEF Ready, Entitled, ThreadState
<1> HIDE DEF r
<1>3. SessionsOK'
    <2>1. /\ DOMAIN sessions' = DOMAIN sessions
          /\ \A id \in DOMAIN sessions : sessions'[id] \in Session
        BY DataSet DEF SharedInv
    <2>2. DOMAIN sessions \subseteq DOMAIN requests /\ UNCHANGED requests
        BY DEF SharedInv, CookiesOwn, Handling, browsers
    <2> QED BY <2>1, <2>2 DEF SessionsOK, Range_
<1> QED BY <1>1, <1>2, <1>3, Serves DEF DefaultKept, SharedInv, TypeOK, Handling, browsers

\* The steps of PipeSite.
LEMMA PipeSiteWell ==
    ASSUME SharedInv, NEW t \in Thread,
           \/ GetInput(t) \/ Prepare(t) \/ ClearPreviousFile(t) \/ RunPipe(t) \/ SaveOutput(t)
           \/ HiddenOptions(t) \/ ShowForm(t) \/ ShowOutput(t)
    PROVE  SharedInv'
<1>0. /\ SessionsOK
      /\ managerExists \in BOOLEAN /\ currentSessionId \in {0} \cup Number
      /\ inputFromFile \in BOOLEAN /\ jsonOutput \in Run \cup {NoOutput}
      /\ initialOutput \in Run \cup {NoOutput}
    BY DEF SharedInv, CookiesOwn, SessionsOK, TypeOK
<1>s. /\ session \in Session
      /\ session.inputText \in Text \cup {NoText} /\ session.inputFile \in Text \cup {NoText}
      /\ session.pipeText \in Pipe \cup {NoPipe} /\ session.radioFile \in BOOLEAN
      /\ session.outputText \in Run \cup {NoOutput}
      /\ session.outputFile \in Run \cup {NoOutput}
      /\ session.errorOccured \in BOOLEAN
    BY SessionFields DEF SharedInv, Session
<1>1. CASE GetInput(t)
    <2> DEFINE given == IF session.radioFile THEN session.inputFile ELSE session.inputText
               input == IF given = NoText THEN 0 ELSE given
               pipe  == IF session.pipeText = NoPipe THEN initialPipe ELSE session.pipeText
               r     == [thread[t] EXCEPT !.input = input, !.pipe = pipe, !.pc = "prepare"]
    <2>1. input \in Text /\ pipe \in Pipe
        BY <1>s, ServerAssumption DEF Text
    <2>2. thread' = [thread EXCEPT ![t] = r]
        BY <1>1, ThreadFields DEF GetInput, ThreadState
    <2> HIDE DEF input, pipe
    <2>3. r \in ThreadState
        BY <2>1, ThreadFields DEF ThreadState, Step
    <2>4. Ready(r) /\ Entitled(r)
        BY <1>1, <2>1, ThreadFields DEF Ready, Entitled, GetInput, At, ThreadState
    <2> HIDE DEF r
    <2> QED BY <1>0, <1>1, <1>s, <2>2, <2>3, <2>4, Serves
            DEF DefaultKept, GetInput, manager, Handling, browsers, SessionsOK
<1>2. CASE Prepare(t)
    <2> DEFINE o == <<thread[t].pipe, thread[t].input, inputFromFile>>
               r == [thread[t] EXCEPT !.run = o, !.pc = "clear"]
    <2>1. o \in Run
        BY <1>0, <1>2, ThreadFields DEF Ready, Prepare, At, Run
    <2>2. thread' = [thread EXCEPT ![t] = r]
        BY <1>2, ThreadFields DEF Prepare, ThreadState
    <2> HIDE DEF o
    <2>3. r \in ThreadState
        BY <2>1, ThreadFields DEF ThreadState, Step
    <2>4. Ready(r) /\ Entitled(r)
        BY <1>2, <2>1, ThreadFields DEF Ready, Entitled, Prepare, At, ThreadState
    <2> HIDE DEF r
    <2> QED BY <1>0, <1>2, <2>2, <2>3, <2>4, Serves
            DEF DefaultKept, Prepare, manager, sites, Handling, browsers, SessionsOK
<1>3. CASE ClearPreviousFile(t)
    <2> DEFINE r == [thread[t] EXCEPT !.pc = "run"]
    <2>1. r \in ThreadState /\ thread' = [thread EXCEPT ![t] = r]
        BY <1>3, Goes DEF SharedInv, ClearPreviousFile, Goto, Step
    <2>2. Ready(r) /\ Entitled(r)
        BY <1>3, ThreadFields DEF Ready, Entitled, ThreadState, ClearPreviousFile, At
    <2> HIDE DEF r
    <2>3. SessionsOK'
        <3>1. [session EXCEPT !.outputFile = NoOutput, !.errorOccured = FALSE] \in Session
            BY <1>s DEF Session
        <3>2. DOMAIN sessions' = DOMAIN sessions
              /\ \A id \in DOMAIN sessions' : sessions'[id] \in Session
            BY <1>3, <3>1, SessionFields DEF SharedInv, ClearPreviousFile, session
        <3> QED BY <1>0, <1>3, <3>2 DEF SessionsOK, Range_, ClearPreviousFile, Handling, browsers
    <2> QED BY <1>0, <1>3, <2>1, <2>2, <2>3, Serves DEF DefaultKept, ClearPreviousFile, sites, Handling, browsers
<1>4. CASE RunPipe(t)
    <2> DEFINE o == thread[t].run
    <2>1. o \in Run /\ thread[t].pc = "run"
        BY <1>4, ThreadFields DEF Ready, RunPipe, At
    <2>2. \E d \in Datum : setData(d[1], d[2])
        <3>1. <<"errorOccured", TRUE>> \in Datum /\ <<"outputFile", o>> \in Datum
            BY <2>1 DEF Datum
        <3>2. setData("errorOccured", TRUE) \/ setData("outputFile", o)
            BY <1>4 DEF RunPipe
        <3> QED BY <3>1, <3>2
    <2> HIDE DEF o
    <2> QED BY <1>4, <2>1, <2>2, StoresAndPasses DEF DefaultKept, RunPipe, sites, Step
<1>5. CASE SaveOutput(t)
    <2>1. thread[t].run \in Run /\ thread[t].pc = "save"
        BY <1>5, ThreadFields DEF Ready, SaveOutput, At
    <2>2. \E d \in Datum : setData(d[1], d[2])
        <3>1. <<"outputText", outputOf(thread[t].run)>> \in Datum
            BY <2>1, RunFacts DEF Datum
        <3> QED BY <1>5, <3>1 DEF SaveOutput
    <2>3. DefaultKept
        BY <1>5, <2>1 DEF SaveOutput, DefaultKept
    <2> QED BY <1>5, <2>1, <2>2, <2>3, StoresAndPasses DEF SaveOutput, Step
<1>6. CASE HiddenOptions(t)
    <2> DEFINE page == [thread[t].page EXCEPT !.file = session.outputFile,
                                              !.error = session.errorOccured]
               r    == [thread[t] EXCEPT !.page = page, !.pc = "form"]
    <2>1. page \in AnyPage
        BY <1>s, ThreadFields DEF AnyPage
    <2>2. thread' = [thread EXCEPT ![t] = r]
        BY <1>6, ThreadFields DEF HiddenOptions, ThreadState, AnyPage
    <2> HIDE DEF page
    <2>3. r \in ThreadState
        BY <2>1, ThreadFields DEF ThreadState, Step
    <2>4. Ready(r) /\ Entitled(r)
        BY <1>6, ThreadFields DEF Ready, Entitled, HiddenOptions, At, ThreadState
    <2> HIDE DEF r
    <2>5. SessionsOK'
        <3>1. <<"radioFile", FALSE>> \in Datum
            BY DEF Datum, Field
        <3>2. \E d \in Datum : setData(d[1], d[2])
            BY <1>6, <3>1 DEF HiddenOptions
        <3> QED BY <1>0, <1>6, <3>2, DataSet
                DEF SharedInv, SessionsOK, Range_, HiddenOptions, Handling, browsers
    <2> QED BY <1>0, <1>6, <2>2, <2>3, <2>4, <2>5, Serves
       DEF DefaultKept, HiddenOptions, sites, Handling, browsers
<1>7. CASE ShowForm(t)
    <2> DEFINE pipe  == orDefault(session.pipeText, NoPipe, initialPipe)
               input == orDefault(session.inputText, NoText, 0)
               page  == [thread[t].page EXCEPT !.pipe = pipe, !.input = input]
               r     == [thread[t] EXCEPT !.page = page, !.pc = "output"]
    <2>1. input \in Text /\ pipe \in Pipe
        BY <1>s, ServerAssumption DEF Text, orDefault
    <2>2. SessionsOK'
        <3>1. [session EXCEPT !.pipeText = pipe, !.inputText = input] \in Session
            <4> HIDE DEF pipe, input
            <4> QED BY <1>s, <2>1 DEF Session
        <3>2. DOMAIN sessions' = DOMAIN sessions
              /\ \A id \in DOMAIN sessions' : sessions'[id] \in Session
            BY <1>7, <3>1, SessionFields DEF SharedInv, ShowForm, session
        <3> QED BY <1>0, <1>7, <3>2 DEF SessionsOK, Range_, ShowForm, Handling, browsers
    <2>3. thread' = [thread EXCEPT ![t] = r]
        BY <1>7, ThreadFields DEF ShowForm, ThreadState, AnyPage
    <2> HIDE DEF pipe, input
    <2>4. page \in AnyPage /\ page.input \in Text /\ page.pipe \in Pipe
        BY <2>1, ThreadFields DEF AnyPage
    <2> HIDE DEF page
    <2>5. r \in ThreadState
        BY <2>4, ThreadFields DEF ThreadState, Step
    <2>6. Ready(r) /\ Entitled(r)
        BY <1>7, <2>4, ThreadFields DEF Ready, Entitled, ShowForm, At, ThreadState
    <2> HIDE DEF r
    <2> QED BY <1>0, <1>7, <2>2, <2>3, <2>5, <2>6, Serves DEF DefaultKept, ShowForm, sites, Handling, browsers
<1>8. CASE ShowOutput(t)
    <2> DEFINE o    == orDefault(session.outputText, NoOutput, initialOutput)
               page == [thread[t].page EXCEPT !.output = o]
               r    == [thread[t] EXCEPT !.page = page, !.pc = "reply"]
    <2>1. o \in Run \cup {NoOutput}
        BY <1>s, <1>0 DEF orDefault
    <2>2. SessionsOK'
        <3>1. <<"outputText", o>> \in Datum
            BY <2>1 DEF Datum
        <3>2. \E d \in Datum : setData(d[1], d[2])
            BY <1>8, <3>1 DEF ShowOutput
        <3> QED BY <1>0, <1>8, <3>2, DataSet
                DEF SharedInv, SessionsOK, Range_, ShowOutput, Handling, browsers
    <2>3. thread' = [thread EXCEPT ![t] = r]
        BY <1>8, ThreadFields DEF ShowOutput, ThreadState, AnyPage
    <2> HIDE DEF o
    <2>4. page \in AnyPage /\ page \in Page
        BY <1>8, <2>1, ThreadFields DEF AnyPage, Page, Ready, ShowOutput, At
    <2> HIDE DEF page
    <2>5. r \in ThreadState
        BY <2>4, ThreadFields DEF ThreadState, Step
    <2>6. Ready(r) /\ Entitled(r)
        BY <1>8, <2>4, ThreadFields DEF Ready, Entitled, ShowOutput, At, ThreadState
    <2> HIDE DEF r
    <2> QED BY <1>0, <1>8, <2>2, <2>3, <2>5, <2>6, Serves DEF DefaultKept, ShowOutput, sites, Handling, browsers
<1> QED BY <1>1, <1>2, <1>3, <1>4, <1>5, <1>6, <1>7, <1>8

\* The steps of JsonSite.
LEMMA JsonSiteWell ==
    ASSUME SharedInv, NEW t \in Thread, JsonStart(t) \/ JsonRun(t) \/ JsonPage(t)
    PROVE  SharedInv'
<1>0. /\ SessionsOK
      /\ managerExists \in BOOLEAN /\ currentSessionId \in {0} \cup Number
      /\ inputFromFile \in BOOLEAN /\ jsonOutput \in Run \cup {NoOutput}
    BY DEF SharedInv, CookiesOwn, SessionsOK, TypeOK
<1>1. CASE JsonStart(t)
    <2> DEFINE r == [thread[t] EXCEPT !.pipe = session.pipe, !.input = session.input,
                                      !.pc = "jsonrun"]
    <2>1. r \in ThreadState
        <3>1. session.pipe \in Pipe \cup {NoPipe} /\ session.input \in Text \cup {NoText}
            BY SessionFields DEF SharedInv, Session
        <3> QED BY <3>1, ThreadFields DEF ThreadState, Step
    <2>2. thread' = [thread EXCEPT ![t] = r]
        BY <1>1, ThreadFields DEF JsonStart, ThreadState
    <2>3. Ready(r) /\ Entitled(r)
        BY <1>1, ThreadFields DEF Ready, Entitled, JsonStart, At, ThreadState
    <2> HIDE DEF r
    <2> QED BY <1>0, <1>1, <2>1, <2>2, <2>3, Serves
            DEF DefaultKept, JsonStart, manager, Handling, browsers, SessionsOK
<1>2. CASE JsonRun(t)
    <2>1. jsonOutput' \in Run \cup {NoOutput}
        <3>1. CASE thread[t].pipe = NoPipe \/ thread[t].input = NoText
            BY <1>2, <3>1 DEF JsonRun
        <3>2. CASE ~(thread[t].pipe = NoPipe \/ thread[t].input = NoText)
            BY <1>2, <3>2, ThreadFields DEF JsonRun, Run
        <3> QED BY <3>1, <3>2
    <2>2. "jsonpage" \in Step
        BY DEF Step
    <2> QED BY <1>0, <1>2, <2>1, <2>2, Passes
            DEF JsonRun, At, manager, Handling, browsers, SessionsOK
<1>3. CASE JsonPage(t)
    <2> DEFINE page == [thread[t].page EXCEPT !.output = jsonOutput]
               r    == [thread[t] EXCEPT !.page = page, !.pc = "reply"]
    <2>1. page \in AnyPage /\ page \in Page
        <3>1. thread[t].page = emptyPage
            BY <1>3, ThreadFields DEF Ready, JsonPage, At
        <3>2. page \in AnyPage
            BY <1>0, ThreadFields DEF AnyPage
        <3>3. page.input = NoText /\ page.pipe = NoPipe /\ page.file = NoOutput /\ page.error = FALSE
            BY <3>1 DEF emptyPage
        <3> HIDE DEF page
        <3> QED BY <3>2, <3>3 DEF AnyPage, Page
    <2>2. thread' = [thread EXCEPT ![t] = r]
        BY <1>3, ThreadFields DEF JsonPage, ThreadState, AnyPage
    <2> HIDE DEF page
    <2>3. r \in ThreadState
        BY <2>1, ThreadFields DEF ThreadState, Step
    <2>4. Ready(r) /\ Entitled(r)
        BY <1>3, <2>1, ThreadFields DEF Ready, Entitled, JsonPage, At, ThreadState
    <2> HIDE DEF r
    <2> QED BY <1>0, <1>3, <2>2, <2>3, <2>4, Serves
            DEF DefaultKept, JsonPage, manager, sites, Handling, browsers, SessionsOK
<1> QED BY <1>1, <1>2, <1>3

\* What a reply consists of.
LEMMA Replied ==
    ASSUME SharedInv, NEW t \in Thread, Reply(t)
    PROVE  LET n == thread[t].request
           IN  /\ n \in DOMAIN requests
               /\ DOMAIN replies' = DOMAIN replies \cup {n}
               /\ replies'[n].page = thread[t].page /\ thread[t].page \in Page
               /\ replies'[n].cookie \in {0} \cup Number
               /\ MadeFor(replies'[n].cookie, requests[n].client)
               /\ \A m \in DOMAIN replies : m # n => replies'[m] = replies[m]
<1> DEFINE n == thread[t].request
           rep == reply(t, thread[t].page)
<1>1. n \in DOMAIN requests /\ thread[t].page \in Page /\ thread[t].pc = "reply"
    BY ThreadFields DEF Ready, Reply, At
<1>2. rep.page = thread[t].page /\ rep.cookie \in {0, thread[t].session}
    BY DEF reply
<1>3. MadeFor(rep.cookie, requests[n].client)
    BY <1>1, <1>2, ThreadFields DEF Entitled, MadeFor
<1>4. replies' = [m \in DOMAIN replies \cup {n} |-> IF m = n THEN rep ELSE replies[m]]
    BY DEF Reply
<1> HIDE DEF rep
<1> QED BY <1>1, <1>2, <1>3, <1>4, ThreadFields

LEMMA ReplyWell ==
    ASSUME SharedInv, NEW t \in Thread, Reply(t)
    PROVE  SharedInv'
<1> DEFINE n == thread[t].request
<1>1. UNCHANGED <<requests, cookies, pending, manager, sites, restarts>>
    BY DEF Reply, browsers
<1>2. /\ thread' \in [Thread -> ThreadState]
      /\ \A u \in Thread : thread'[u] \in {idle, thread[u]}
    BY EmptyPage DEF SharedInv, ThreadsOK, Reply
<1>3. Ready(idle) /\ Entitled(idle)
    BY DEF Ready, Entitled, idle
<1>4. ThreadsOK'
    BY <1>1, <1>2, <1>3 DEF SharedInv, ThreadsOK, Ready
<1>5. \A m \in DOMAIN replies' : /\ m \in DOMAIN requests
                                 /\ replies'[m].page \in Page
                                 /\ replies'[m].cookie \in {0} \cup Number
                                 /\ MadeFor(replies'[m].cookie, requests[m].client)
    BY Replied DEF SharedInv, TypeOK, CookiesOwn
<1>6. CookiesOwn'
    BY <1>1, <1>2, <1>3, <1>5 DEF SharedInv, CookiesOwn, Entitled, MadeFor, manager
<1>7. TypeOK'
    BY <1>1, <1>5 DEF SharedInv, TypeOK, manager, sites
<1> QED BY <1>1, <1>4, <1>6, <1>7 DEF SharedInv, DefaultStays, sites

\* Requests are only ever appended.
RequestsKept ==
    \A n \in DOMAIN requests : n \in DOMAIN requests' /\ requests'[n] = requests[n]

LEMMA Sent ==
    ASSUME SharedInv, NEW c \in Client, NEW form \in Forms, Send(c, form)
    PROVE  LET n == Len(requests) + 1
           IN  /\ requests' \in Seq([client : Client, cookie : {0} \cup Number, form : Form])
               /\ Len(requests') = n /\ n <= MaxRequests
               /\ DOMAIN requests' = DOMAIN requests \cup {n}
               /\ requests'[n] = [client |-> c, cookie |-> cookies[c], form |-> form]
               /\ RequestsKept
<1> DEFINE Request == [client : Client, cookie : {0} \cup Number, form : Form]
           q == [client |-> c, cookie |-> cookies[c], form |-> form]
<1>1. requests \in Seq(Request)
    BY DEF SharedInv, TypeOK
<1>2. q \in Request
    BY ServerAssumption DEF SharedInv, TypeOK
<1>3. requests' = Append(requests, q) /\ Len(requests) < MaxRequests
    BY DEF Send
<1> HIDE DEF Request, q
<1>4. /\ requests' \in Seq(Request)
      /\ Len(requests') = Len(requests) + 1
      /\ requests'[Len(requests) + 1] = q
      /\ RequestsKept
    BY <1>1, <1>2, <1>3 DEF RequestsKept
<1>5. DOMAIN requests' = DOMAIN requests \cup {Len(requests) + 1}
    BY <1>1, <1>4
<1>6. Len(requests) + 1 <= MaxRequests
    BY <1>1, <1>3, ServerAssumption
<1> QED BY <1>4, <1>5, <1>6 DEF Request, q

LEMMA ClientsWell ==
    ASSUME SharedInv,
           \/ \E c \in Client, form \in Forms : Send(c, form)
           \/ \E n \in Number : Receive(n)
    PROVE  SharedInv' /\ RequestsKept
<1>1. ASSUME NEW c \in Client, NEW form \in Forms, Send(c, form)
      PROVE  SharedInv' /\ RequestsKept
    <2>1. UNCHANGED <<cookies, manager, sites, thread, replies, restarts>>
        BY <1>1 DEF Send
    <2>s. /\ DOMAIN requests' = DOMAIN requests \cup {Len(requests) + 1}
          /\ requests'[Len(requests) + 1] = [client |-> c, cookie |-> cookies[c], form |-> form]
        BY <1>1, Sent
    <2>2. RequestsKept
        BY <1>1, Sent
    <2>3. ThreadsOK'
        BY <1>1, <2>1, <2>2, Sent DEF SharedInv, ThreadsOK, Ready, RequestsKept
    <2>4. TypeOK'
        <3>1. pending' \subseteq DOMAIN requests' /\ DOMAIN replies' \subseteq DOMAIN requests'
            BY <1>1, <2>1, Sent DEF SharedInv, TypeOK, Send
        <3> QED BY <1>1, <2>1, <3>1, Sent DEF SharedInv, TypeOK, manager, sites
    <2>5. ASSUME NEW id, NEW k, MadeFor(id, k)
          PROVE  MadeFor(id, k)'
        BY <2>2, <2>5 DEF MadeFor, RequestsKept
    <2>6. CookiesOwn'
        <3>1. ASSUME NEW n \in DOMAIN requests'
              PROVE  MadeFor(requests[n].cookie, requests[n].client)'
            <4>1. CASE n \in DOMAIN requests
                <5>1. MadeFor(requests[n].cookie, requests[n].client)
                    BY <4>1 DEF SharedInv, CookiesOwn
                <5> QED BY <2>2, <4>1, <5>1 DEF MadeFor, RequestsKept
            <4>2. CASE n \notin DOMAIN requests
                <5>1. requests'[n] = [client |-> c, cookie |-> cookies[c], form |-> form]
                    <6>1. n = Len(requests) + 1
                        BY <2>s, <3>1, <4>2
                    <6> QED BY <2>s, <6>1
                <5>2. requests'[n].cookie = cookies[c] /\ requests'[n].client = c
                    BY <5>1
                <5>3. MadeFor(cookies[c], c)
                    BY DEF SharedInv, CookiesOwn
                <5> QED BY <2>2, <5>2, <5>3 DEF MadeFor, RequestsKept
            <4> QED BY <4>1, <4>2
        <3>2. ASSUME NEW n \in DOMAIN replies'
              PROVE  MadeFor(replies[n].cookie, requests[n].client)'
            <4>1. n \in DOMAIN requests /\ MadeFor(replies[n].cookie, requests[n].client)
                BY <2>1 DEF SharedInv, TypeOK, CookiesOwn
            <4> QED BY <2>1, <2>2, <4>1 DEF MadeFor, RequestsKept
        <3>3. \A u \in Thread : Entitled(thread[u])'
            BY <2>1, <2>2, <2>5, ThreadFields DEF Entitled, Ready, RequestsKept
        <3>4. \A k \in Client : MadeFor(cookies[k], k)'
            BY <2>1, <2>5 DEF SharedInv, CookiesOwn
        <3>5. DOMAIN sessions' \subseteq DOMAIN requests'
            BY <2>1, <2>2 DEF SharedInv, CookiesOwn, RequestsKept, manager
        <3> QED BY <3>1, <3>2, <3>3, <3>4, <3>5 DEF CookiesOwn
    <2> QED BY <2>1, <2>2, <2>3, <2>4, <2>6 DEF SharedInv, DefaultStays, sites
<1>2. ASSUME NEW n \in Number, Receive(n)
      PROVE  SharedInv' /\ RequestsKept
    <2>1. UNCHANGED <<requests, pending, manager, sites, thread, replies, restarts>>
        BY <1>2 DEF Receive
    <2>2. n \in DOMAIN requests /\ requests[n].client \in Client
        BY <1>2, RequestFields DEF SharedInv, TypeOK, Receive
    <2>3. /\ cookies' \in [Client -> {0} \cup Number]
          /\ \A k \in Client : MadeFor(cookies'[k], k)
        BY <1>2, <2>2 DEF SharedInv, TypeOK, CookiesOwn, Receive
    <2>4. TypeOK' /\ ThreadsOK'
        BY <2>1, <2>3 DEF SharedInv, TypeOK, ThreadsOK, Ready, manager, sites
    <2>5. CookiesOwn'
        BY <2>1, <2>3 DEF SharedInv, CookiesOwn, MadeFor, Entitled, manager
    <2> QED BY <2>1, <2>4, <2>5 DEF SharedInv, DefaultStays, sites, RequestsKept
<1> QED BY <1>1, <1>2

LEMMA RestartWell ==
    ASSUME SharedInv, Restart
    PROVE  SharedInv'
<1>1. /\ thread' = [t \in Thread |-> idle]
      /\ UNCHANGED <<requests, cookies, replies>>
      /\ pending' = {} /\ sessions' = <<>> /\ managerExists' = FALSE /\ currentSessionId' = 0
      /\ initialOutput' = outputOf(defaultRun) /\ jsonOutput' = NoOutput
      /\ inputFromFile' = FALSE
      /\ restarts' = restarts + 1 /\ restarts < MaxRestarts
    BY DEF Restart, browsers
<1>2. Ready(idle)' /\ Entitled(idle)'
    BY DEF Ready, Entitled, idle
<1>3. ThreadsOK'
    BY <1>1, <1>2, EmptyPage DEF SharedInv, ThreadsOK
<1>4. CookiesOwn'
    BY <1>1, <1>2 DEF SharedInv, CookiesOwn, MadeFor
<1>5. initialOutput' \in Run \cup {NoOutput} /\ DefaultStays'
    BY <1>1, RunFacts DEF DefaultStays
<1>6. restarts' \in 0 .. MaxRestarts
    BY <1>1, ServerAssumption DEF SharedInv, TypeOK
<1>7. DOMAIN sessions' = {} /\ Range_(sessions') = {}
    BY <1>1 DEF Range_
<1>8. TypeOK'
    BY <1>1, <1>5, <1>6, <1>7 DEF SharedInv, TypeOK
<1> QED BY <1>3, <1>4, <1>5, <1>8 DEF SharedInv

LEMMA SharedInit ==
    ASSUME Init
    PROVE  SharedInv
<1>1. Ready(idle) /\ Entitled(idle)
    BY DEF Ready, Entitled, idle
<1>2. requests = <<>> /\ Len(requests) = 0 /\ DOMAIN requests = {}
      /\ requests \in Seq([client : Client, cookie : {0} \cup Number, form : Form])
    BY DEF Init
<1>3. ThreadsOK
    BY <1>1, <1>2, EmptyPage, ServerAssumption DEF Init, ThreadsOK
<1>4. CookiesOwn
    BY <1>1, <1>2 DEF Init, CookiesOwn, MadeFor
<1>5. initialOutput \in Run \cup {NoOutput} /\ DefaultStays
    BY RunFacts DEF Init, DefaultStays
<1>6. DOMAIN sessions = {} /\ Range_(sessions) = {} /\ DOMAIN replies = {}
    BY DEF Init, Range_
<1>7. 0 \in 0 .. MaxRestarts
    BY ServerAssumption
<1>8. TypeOK
    BY <1>2, <1>5, <1>6, <1>7 DEF Init, TypeOK
<1> QED BY <1>3, <1>4, <1>5, <1>8 DEF SharedInv

LEMMA SharedNext ==
    ASSUME SharedInv, [Next]_vars
    PROVE  SharedInv'
<1>1. ASSUME NEW t \in Thread, Handle(t)
      PROVE  SharedInv'
    BY <1>1, BeginsWell, PipeSiteWell, JsonSiteWell, ReplyWell DEF Handle
<1>2. CASE UNCHANGED vars
    BY <1>2 DEF vars, browsers, manager, sites, SharedInv, TypeOK, ThreadsOK, Ready, CookiesOwn,
                MadeFor, Entitled, DefaultStays
<1> QED BY <1>1, <1>2, ClientsWell, RestartWell DEF Next

\* Types, what a thread needs for its next step, whose a cookie is, and that the
\* default output stays that of the default pipeline unless it was empty
\* (pipe_site.cpp:101-102), through every call of the handlers
\* (psi_request_handler.cpp, session_manager.cpp, pipe_site.cpp), message and restart.
THEOREM SharedInvariance == Spec => []SharedInv
BY SharedInit, SharedNext, PTL DEF Spec

\* Every variable keeps to its type: in particular what is shown was run, on a text
\* that was sent (pipe_site.cpp:94-180).
THEOREM ServerTypeCorrect == Spec => []TypeOK
<1>1. SharedInv => TypeOK
    BY DEF SharedInv
<1> QED BY <1>1, SharedInvariance, PTL

\* However many threads there are, a cookie brings its client to its own session
\* and a thread works with the session of the client it serves
\* (session_manager.cpp:42-71, psi_request_handler.cpp:42-70): what goes wrong with
\* two threads is the current session alone.
THEOREM CookiesStay == Spec => []CookiesOwn
<1>1. SharedInv => CookiesOwn
    BY DEF SharedInv
<1> QED BY <1>1, SharedInvariance, PTL

-----------------------------------------------------------------------------
(* One thread                                                              *)

\* The fields of a form: each key once, the choice of a file only where one is
\* sent, and no text but that of the request.
LEMMA FieldsOfForm ==
    ASSUME SharedInv, NEW n \in DOMAIN requests
    PROVE  /\ \A i, j \in DOMAIN fieldsOf(n) :
                 i # j => fieldsOf(n)[i][1] # fieldsOf(n)[j][1]
           /\ \A i \in DOMAIN fieldsOf(n) :
                 /\ fieldsOf(n)[i][1] = "radioFile" => requests[n].form.kind = "file"
                 /\ fieldsOf(n)[i][1] \in TextKey => fieldsOf(n)[i][2] \in {NoText, n}
<1> DEFINE p == requests[n].form.pipe
           d == Data(n)
<1>1. d \in {NoText, n}
    BY DEF Data
<1> HIDE DEF p, d
<1>2. CASE requests[n].form.kind = "text"
    <2>1. fieldsOf(n) = <<<<"inputText", d>>, <<"pipeText", p>>>>
        BY <1>2 DEF fieldsOf, p, d
    <2> QED BY <1>1, <2>1 DEF TextKey
<1>3. CASE requests[n].form.kind = "file"
    <2>1. fieldsOf(n) = <<<<"inputFile", d>>, <<"inputText", NoText>>, <<"pipeText", p>>,
                          <<"radioFile", TRUE>>>>
        BY <1>3 DEF fieldsOf, p, d
    <2> QED BY <1>1, <1>3, <2>1 DEF TextKey
<1>4. CASE requests[n].form.kind = "json"
    <2>1. fieldsOf(n) = <<<<"pipe", p>>, <<"input", d>>>>
        BY <1>4 DEF fieldsOf, p, d
    <2> QED BY <1>1, <2>1 DEF TextKey
<1>5. CASE requests[n].form.kind \notin {"text", "file", "json"}
    BY <1>5 DEF fieldsOf
<1> QED BY <1>2, <1>3, <1>4, <1>5

\* When all fields are stored, the session has what the client sent.
LEMMA AllStored ==
    ASSUME SharedInv, NEW n \in DOMAIN requests, NEW s,
           \A i \in DOMAIN fieldsOf(n) : s[fieldsOf(n)[i][1]] = fieldsOf(n)[i][2]
    PROVE  LET form == requests[n].form
           IN  /\ form.kind = "text" => s.inputText = Data(n) /\ s.pipeText = form.pipe
               /\ form.kind = "file" => /\ s.inputFile = Data(n) /\ s.pipeText = form.pipe
                                        /\ s.radioFile
               /\ form.kind = "json" => s.pipe = form.pipe /\ s.input = Data(n)
<1> DEFINE p == requests[n].form.pipe
           d == Data(n)
<1>1. CASE requests[n].form.kind = "text"
    <2>1. fieldsOf(n) = <<<<"inputText", d>>, <<"pipeText", p>>>>
        BY <1>1 DEF fieldsOf
    <2> HIDE DEF p, d
    <2>2. s["inputText"] = d /\ s["pipeText"] = p
        BY <2>1
    <2> QED BY <1>1, <2>2 DEF p, d
<1>2. CASE requests[n].form.kind = "file"
    <2> DEFINE e1 == <<"inputFile", d>>
               e2 == <<"inputText", NoText>>
               e3 == <<"pipeText", p>>
               e4 == <<"radioFile", TRUE>>
    <2>1. fieldsOf(n) = <<e1, e2, e3, e4>>
        BY <1>2 DEF fieldsOf
    <2>2. /\ e1[1] = "inputFile" /\ e1[2] = d /\ e3[1] = "pipeText" /\ e3[2] = p
          /\ e4[1] = "radioFile" /\ e4[2] = TRUE
        OBVIOUS
    <2> HIDE DEF e1, e2, e3, e4, p, d
    <2>3. /\ {1, 3, 4} \subseteq DOMAIN fieldsOf(n)
          /\ fieldsOf(n)[1] = e1 /\ fieldsOf(n)[3] = e3 /\ fieldsOf(n)[4] = e4
        BY <2>1
    <2>4. s[e1[1]] = e1[2] /\ s[e3[1]] = e3[2] /\ s[e4[1]] = e4[2]
        BY <2>3
    <2>5. s["inputFile"] = d /\ s["pipeText"] = p /\ s["radioFile"] = TRUE
        BY <2>2, <2>4
    <2> QED BY <1>2, <2>5 DEF p, d
<1>3. CASE requests[n].form.kind = "json"
    <2>1. fieldsOf(n) = <<<<"pipe", p>>, <<"input", d>>>>
        BY <1>3 DEF fieldsOf
    <2> HIDE DEF p, d
    <2>2. s["pipe"] = p /\ s["input"] = d
        BY <2>1
    <2> QED BY <1>3, <2>2 DEF p, d
<1> QED BY <1>1, <1>2, <1>3

\* What is said of a request stays true of it.
LEMMA SameRequest ==
    ASSUME NEW n, requests'[n] = requests[n]
    PROVE  /\ Data(n)' = Data(n) /\ fieldsOf(n)' = fieldsOf(n)
           /\ (Submitted(n) <=> Submitted(n)') /\ Due(n)' = Due(n) /\ JsonDue(n)' = JsonDue(n)
           /\ \A page, others : Answers(n, page, others)' <=> Answers(n, page, others)
<1>1. Data(n)' = Data(n) /\ fieldsOf(n)' = fieldsOf(n)
    BY DEF Data, fieldsOf
<1>2. (Submitted(n) <=> Submitted(n)') /\ Due(n)' = Due(n) /\ JsonDue(n)' = JsonDue(n)
    BY DEF Submitted, Due, JsonDue
<1>3. ASSUME NEW page, NEW others
      PROVE  Answers(n, page, others)' <=> Answers(n, page, others)
    BY DEF Answers, Submitted, Due, JsonDue, fails
<1> QED BY <1>1, <1>2, <1>3

\* What is said of all requests.
LEMMA SameRequests ==
    ASSUME UNCHANGED requests, NEW n
    PROVE  /\ Data(n)' = Data(n) /\ fieldsOf(n)' = fieldsOf(n)
           /\ (Submitted(n) <=> Submitted(n)') /\ Due(n)' = Due(n) /\ JsonDue(n)' = JsonDue(n)
           /\ \A page, others : Answers(n, page, others)' <=> Answers(n, page, others)
           /\ \A c : TextsOf(c)' = TextsOf(c)
<1>1. \A c : TextsOf(c)' = TextsOf(c)
    BY DEF TextsOf
<1> QED BY <1>1, SameRequest

\* What a request calls for is an output of its client, not the empty one.
LEMMA DueFacts ==
    ASSUME SharedInv, NEW n \in DOMAIN requests
    PROVE  /\ Due(n) \in Run /\ Due(n) # NoOutput
           /\ Due(n)[1] \in Pipe /\ Due(n)[2] \in Text
           /\ Due(n)[2] \in TextsOf(requests[n].client)
           /\ outputOf(Due(n)) \in Run \cup {NoOutput}
           /\ outputOf(Due(n)) \notin EmptyRuns
<1>1. Due(n)[2] \in {0, n}
    BY DEF Due
<1>2. 0 \in Text /\ n \in Text
    BY Numbers, ServerAssumption DEF SharedInv, Text
<1>3. Due(n) \in Run
    <2>1. requests[n].form.pipe \in Pipe \cup {NoPipe}
        BY RequestFields DEF SharedInv
    <2> QED BY <1>2, <2>1, ServerAssumption DEF Due, Run
<1>4. \A run \in Run : run[1] \in Pipe /\ run[2] \in Text
    BY DEF Run
<1>5. {0, n} \subseteq TextsOf(requests[n].client)
    BY DEF TextsOf
<1> QED BY <1>1, <1>3, <1>4, <1>5, RunFacts

\* What may stand in for an empty output may do so from then on: replies are only
\* added, and where the server is restarted, what was said before may have been the
\* default output of another time.
LEMMA StandInsGrow ==
    ASSUME SharedInv,
           \A n \in DOMAIN replies : n \in DOMAIN replies' /\ requests'[n] = requests[n],
           restarts' = 0 => restarts = 0 /\ (initialOutput' = initialOutput \/ initialOutput = NoOutput)
    PROVE  StandIns \subseteq StandIns'
<1>1. CASE defaultRun \notin EmptyRuns
    BY <1>1 DEF StandIns, defaultRun
<1>2. CASE defaultRun \in EmptyRuns
    <2> SUFFICES ASSUME NEW output \in StandIns, output # NoOutput
                 PROVE  output \in StandIns'
        BY <1>2 DEF StandIns, defaultRun
    <2>1. PICK m \in DOMAIN replies : Submitted(m) /\ output = Due(m)
        BY <1>2 DEF StandIns
    <2>2. output \notin EmptyRuns /\ (restarts = 0 => output = initialOutput)
        BY <1>2 DEF StandIns
    <2>3. m \in DOMAIN replies' /\ Submitted(m)' /\ output = Due(m)'
        BY <2>1, SameRequest
    <2>4. restarts' = 0 => output = initialOutput'
        BY <2>2
    <2> QED BY <1>2, <2>2, <2>3, <2>4 DEF StandIns, defaultRun
<1> QED BY <1>1, <1>2

\* Answers that show what may stand in go on doing so.
LEMMA AnswersKept ==
    ASSUME SharedInv, OneThreadInv, UNCHANGED replies,
           \A n \in DOMAIN replies : requests'[n] = requests[n],
           restarts' = 0 => restarts = 0 /\ (initialOutput' = initialOutput \/ initialOutput = NoOutput)
    PROVE  AnswersOK'
<1>1. StandIns \subseteq StandIns'
    BY StandInsGrow
<1>2. ASSUME NEW n \in DOMAIN replies
      PROVE  Answers(n, replies[n].page, StandIns)'
    <2>1. Answers(n, replies[n].page, StandIns)
        BY DEF OneThreadInv, ServedRight, AnswersOK
    <2>2. PICK others : others = StandIns'
        OBVIOUS
    <2>3. Answers(n, replies[n].page, others)
        BY <1>1, <2>1, <2>2 DEF Answers
    <2> QED BY <2>2, <2>3, SameRequest
<1> QED BY <1>2 DEF AnswersOK

\* A session that is not written to stays right, even if the default output is found.
LEMMA DefaultFound ==
    ASSUME initialOutput' = initialOutput \/ initialOutput = NoOutput, NEW s
    PROVE  /\ Agrees(s, initialOutput) => Agrees(s, initialOutput')
           /\ \A c : Owned(s, c, initialOutput) => Owned(s, c, initialOutput')
BY DEF Agrees, Owned

\* What has to be shown of a step of the only thread.
LEMMA OneStep ==
    ASSUME SharedInv, OneThreadInv, SingleThread,
           NEW t \in Thread, NEW r \in ThreadState,
           thread' = [thread EXCEPT ![t] = r], UNCHANGED requests,
           r.pc \in Acting \cup {"current"} => r.session \in DOMAIN sessions',
           r.pc \in Acting => currentSessionId' = r.session,
           \A id \in DOMAIN sessions' : /\ AtRest(sessions'[id], id, r, initialOutput')
                                        /\ Owned(sessions'[id], requests[id].client, initialOutput'),
           Knows(r, session', inputFromFile', jsonOutput', initialOutput'),
           AnswersOK'
    PROVE  ServedRight'
<1>1. Thread = {t} /\ thread'[t] = r
    BY DEF SingleThread, SharedInv, ThreadsOK
<1>2. InCharge'
    BY <1>1 DEF InCharge
<1>3. SessionsRest'
    BY <1>1 DEF SessionsRest, AtRest, Agrees
<1>4. SessionsOwned'
    BY DEF SessionsOwned, Owned, TextsOf
<1>5. ThreadKnows'
    <2>1. Stored(r, session)' <=> Stored(r, session')
        BY DEF Stored, fieldsOf, Data
    <2> QED BY <1>1, <2>1, SameRequests DEF ThreadKnows, Knows
<1> QED BY <1>2, <1>3, <1>4, <1>5 DEF ServedRight

\* Where a thread that acts stands.
LEMMA ActingFacts ==
    ASSUME SharedInv, OneThreadInv, NEW t \in Thread, thread[t].pc \in Acting
    PROVE  LET n == thread[t].request
           IN  /\ n \in DOMAIN requests
               /\ currentSessionId = thread[t].session
               /\ currentSessionId \in DOMAIN sessions
               /\ session = sessions[currentSessionId] /\ session \in Session
               /\ requests[currentSessionId].client = requests[n].client
               /\ Owned(session, requests[n].client, initialOutput)
               /\ AtRest(session, currentSessionId, thread[t], initialOutput)
               /\ Knows(thread[t], session, inputFromFile, jsonOutput, initialOutput)
               /\ {0, NoText, n} \subseteq TextsOf(requests[n].client)
<1> DEFINE n == thread[t].request
<1>1. n \in DOMAIN requests
    BY ThreadFields DEF Ready, Acting
<1>2. currentSessionId = thread[t].session /\ currentSessionId \in DOMAIN sessions
    BY DEF OneThreadInv, ServedRight, InCharge
<1>3. session = sessions[currentSessionId] /\ session \in Session
    BY <1>2, SessionFields DEF SharedInv, session
<1>4. currentSessionId # 0
    BY <1>2, RequestFields DEF SharedInv, CookiesOwn
<1>5. requests[currentSessionId].client = requests[n].client
    BY <1>2, <1>4, ThreadFields DEF Entitled, MadeFor, Acting
<1>6. Owned(session, requests[n].client, initialOutput)
    BY <1>2, <1>3, <1>5 DEF OneThreadInv, ServedRight, SessionsOwned
<1>7. AtRest(session, currentSessionId, thread[t], initialOutput)
    BY <1>2, <1>3 DEF OneThreadInv, ServedRight, SessionsRest
<1>8. {0, NoText, n} \subseteq TextsOf(requests[n].client)
    BY <1>1 DEF TextsOf
<1> QED BY <1>1, <1>2, <1>3, <1>5, <1>6, <1>7, <1>8 DEF OneThreadInv, ServedRight, ThreadKnows

\* A step of the only thread while it acts: it writes to its own session alone.
LEMMA ActingStep ==
    ASSUME SharedInv, OneThreadInv, SingleThread,
           NEW t \in Thread, NEW r \in ThreadState,
           thread[t].pc \in Acting, r.pc \in Acting \cup {"reply"},
           r.session = thread[t].session,
           thread' = [thread EXCEPT ![t] = r],
           UNCHANGED <<requests, replies, restarts, currentSessionId>>,
           initialOutput' = initialOutput \/ initialOutput = NoOutput,
           DOMAIN sessions' = DOMAIN sessions,
           \A id \in DOMAIN sessions : id # currentSessionId => sessions'[id] = sessions[id],
           AtRest(session', currentSessionId, r, initialOutput'),
           Owned(session', requests[currentSessionId].client, initialOutput'),
           Knows(r, session', inputFromFile', jsonOutput', initialOutput')
    PROVE  ServedRight'
<1>1. /\ currentSessionId = r.session /\ currentSessionId \in DOMAIN sessions
      /\ currentSessionId = thread[t].session
    BY ActingFacts
<1>2. session' = sessions'[currentSessionId]
    BY <1>1 DEF session
<1>3. ASSUME NEW id \in DOMAIN sessions'
      PROVE  AtRest(sessions'[id], id, r, initialOutput') /\ Owned(sessions'[id], requests[id].client, initialOutput')
    <2>1. CASE id = currentSessionId
        BY <1>2, <2>1
    <2>2. CASE id # currentSessionId
        <3>1. id \in DOMAIN sessions /\ sessions'[id] = sessions[id]
            BY <2>2
        <3>2. AtRest(sessions[id], id, thread[t], initialOutput)
            BY <3>1 DEF OneThreadInv, ServedRight, SessionsRest
        <3>3. AtRest(sessions[id], id, r, initialOutput')
            BY <1>1, <2>2, <3>2, DefaultFound DEF AtRest
        <3>4. Owned(sessions[id], requests[id].client, initialOutput')
            BY <3>1, DefaultFound DEF OneThreadInv, ServedRight, SessionsOwned
        <3> QED BY <3>1, <3>3, <3>4
    <2> QED BY <2>1, <2>2
<1>4. AnswersOK'
    BY AnswersKept
<1>5. r.pc \in Acting => currentSessionId' = r.session
    BY <1>1
<1>6. r.pc \in Acting \cup {"current"} => r.session \in DOMAIN sessions'
    BY <1>1
<1> QED BY <1>3, <1>4, <1>5, <1>6, OneStep

\* The steps before the thread acts, and those of a request that is not HTTP.
LEMMA OneBegins ==
    ASSUME SharedInv, OneThreadInv, SingleThread, NEW t \in Thread,
           \/ \E n \in pending : Take(t, n)
           \/ Instance(t) \/ Create(t) \/ FindSession(t) \/ SetCurrentSession(t)
    PROVE  ServedRight'
<1>u. UNCHANGED <<requests, replies, restarts, initialOutput>>
    BY DEF Take, Instance, Create, FindSession, SetCurrentSession, Handling, browsers, sites
<1>a. AnswersOK'
    BY <1>u, AnswersKept
<1>0. thread[t].pc \in {"idle", "instance", "create", "session", "current"}
    BY DEF Take, Instance, Create, FindSession, SetCurrentSession, At
<1>r. \A id \in DOMAIN sessions : /\ ~sessions[id].radioFile /\ Agrees(sessions[id], initialOutput)
                                  /\ Owned(sessions[id], requests[id].client, initialOutput)
    BY <1>0 DEF OneThreadInv, ServedRight, SessionsRest, SessionsOwned, AtRest
<1>k. Knows(thread[t], session, inputFromFile, jsonOutput, initialOutput)
    BY DEF OneThreadInv, ServedRight, ThreadKnows
<1>1. ASSUME NEW n \in pending, Take(t, n)
      PROVE  ServedRight'
    <2> DEFINE bad == requests[n].form.kind = "malformed"
               pc  == IF bad THEN "reply" ELSE "instance"
               sid == IF bad THEN requests[n].cookie ELSE 0
               r   == [thread[t] EXCEPT !.request = n, !.pc = pc, !.session = sid]
    <2>1. n \in DOMAIN requests
        BY DEF SharedInv, TypeOK
    <2>2. r \in ThreadState
        <3>1. n \in Number /\ pc \in Step /\ sid \in {0} \cup Number
            BY <2>1, Numbers, RequestFields DEF SharedInv, Step
        <3> HIDE DEF pc, sid
        <3> QED BY <3>1, ThreadFields DEF ThreadState
    <2>3. thread' = [thread EXCEPT ![t] = r]
        BY <1>1, ThreadFields DEF Take, ThreadState
    <2>4. r.request = n /\ (bad => r.pc = "reply") /\ (~bad => r.pc = "instance")
        BY ThreadFields DEF ThreadState
    <2>5. Knows(r, session', inputFromFile', jsonOutput', initialOutput')
        <3> HIDE DEF r
        <3> QED BY <2>4 DEF Knows, Answers, Submitted
    <2>6. UNCHANGED sessions
        BY <1>1 DEF Take, manager
    <2>7. \A id \in DOMAIN sessions' : /\ AtRest(sessions'[id], id, r, initialOutput')
                                       /\ Owned(sessions'[id], requests[id].client, initialOutput')
        BY <1>u, <1>r, <2>6 DEF AtRest
    <2> HIDE DEF r
    <2> QED BY <1>u, <1>a, <2>2, <2>3, <2>4, <2>5, <2>7, OneStep DEF Acting
<1>2. CASE Instance(t) \/ Create(t)
    <2> DEFINE pc == IF Instance(t) /\ ~managerExists THEN "create" ELSE "session"
               r  == [thread[t] EXCEPT !.pc = pc]
    <2>1. pc \in {"create", "session"} /\ pc \in Step
        BY DEF Step
    <2>2. Goto(t, pc)
        BY <1>2 DEF Instance, Create, At
    <2> HIDE DEF pc
    <2>3. r \in ThreadState /\ thread' = [thread EXCEPT ![t] = r]
        BY <2>1, <2>2, Goes DEF SharedInv, Goto
    <2>4. r.pc = pc /\ r.request = thread[t].request
        BY ThreadFields DEF ThreadState
    <2> HIDE DEF r
    <2>5. \A id \in DOMAIN sessions' : id \in DOMAIN sessions /\ sessions'[id] = sessions[id]
        BY <1>2 DEF Instance, Create, manager
    <2>6. \A id \in DOMAIN sessions' : /\ AtRest(sessions'[id], id, r, initialOutput')
                                       /\ Owned(sessions'[id], requests[id].client, initialOutput')
        BY <1>u, <1>r, <2>5 DEF AtRest
    <2>7. thread[t].pc \in {"instance", "create"}
        BY <1>2 DEF Instance, Create, At
    <2>8. Knows(r, session', inputFromFile', jsonOutput', initialOutput')
        BY <1>u, <1>k, <2>1, <2>4, <2>7 DEF Knows
    <2> QED BY <1>u, <1>a, <2>1, <2>3, <2>4, <2>6, <2>8, OneStep DEF Acting
<1>3. CASE FindSession(t)
    <2> DEFINE n  == thread[t].request
               id == IF requests[n].cookie \in DOMAIN sessions THEN requests[n].cookie ELSE n
               r  == [thread[t] EXCEPT !.session = id, !.pc = "current"]
    <2>1. n \in DOMAIN requests /\ thread[t].pc = "session"
        BY <1>3, ThreadFields DEF Ready, FindSession, At
    <2>2. id \in Number
        BY <2>1, RequestFields, Numbers DEF SharedInv, TypeOK
    <2>3. r \in ThreadState /\ thread' = [thread EXCEPT ![t] = r]
        <3>1. thread' = [thread EXCEPT ![t] = r]
            BY <1>3, ThreadFields DEF FindSession, ThreadState
        <3>2. id \in {0} \cup Number /\ "current" \in Step
            BY <2>2 DEF Step
        <3> HIDE DEF id
        <3> QED BY <3>1, <3>2, ThreadFields DEF ThreadState
    <2>4. r.pc = "current" /\ r.request = n /\ r.session = id
        BY ThreadFields DEF ThreadState
    <2>5. /\ id \in DOMAIN sessions'
          /\ \A i \in DOMAIN sessions' :
                \/ i \in DOMAIN sessions /\ sessions'[i] = sessions[i]
                \/ sessions'[i] = emptySession
        BY <1>3 DEF FindSession
    <2> HIDE DEF r, id
    <2>6. /\ ~emptySession.radioFile /\ Agrees(emptySession, initialOutput)
          /\ \A c : Owned(emptySession, c, initialOutput)
        BY DEF emptySession, Agrees, Owned, TextsOf, NoOutput
    <2>7. \A i \in DOMAIN sessions' : /\ AtRest(sessions'[i], i, r, initialOutput')
                                      /\ Owned(sessions'[i], requests[i].client, initialOutput')
        BY <1>u, <1>r, <2>5, <2>6 DEF AtRest
    <2>8. Knows(r, session', inputFromFile', jsonOutput', initialOutput')
        BY <1>u, <1>k, <2>1, <2>4 DEF Knows
    <2> QED BY <1>u, <1>a, <2>3, <2>4, <2>5, <2>7, <2>8, OneStep DEF Acting
<1>4. CASE SetCurrentSession(t)
    <2> DEFINE n  == thread[t].request
               pc == CASE requests[n].form.kind = "view" -> "options"
                       [] requests[n].form.kind = "static" -> "reply"
                       [] OTHER -> "fields"
               r  == [thread[t] EXCEPT !.fields = fieldsOf(n), !.pc = pc]
    <2>1. n \in DOMAIN requests /\ thread[t].pc = "current" /\ requests[n].form.kind \in Kind
          /\ requests[n].form.kind # "malformed"
        BY <1>4, <1>k, ThreadFields, RequestFields DEF Ready, SetCurrentSession, At, Knows, SharedInv
    <2>2. /\ requests[n].form.kind = "view" => pc = "options"
          /\ requests[n].form.kind = "static" => pc = "reply"
          /\ requests[n].form.kind \in {"text", "file", "json"} => pc = "fields"
        OBVIOUS
    <2>3. thread' = [thread EXCEPT ![t] = r]
        BY <1>4, ThreadFields DEF SetCurrentSession, ThreadState
    <2>4. requests[n].form.kind \in {"view", "static", "text", "file", "json"}
        BY <2>1 DEF Kind
    <2> HIDE DEF pc
    <2>5. r \in ThreadState
        <3>1. pc \in Step /\ fieldsOf(n) \in Seq(Field)
            BY <2>1, <2>2, <2>4, FormFields DEF Step
        <3> QED BY <3>1, ThreadFields DEF ThreadState
    <2>6. r.pc = pc /\ r.request = n /\ r.session = thread[t].session /\ r.fields = fieldsOf(n)
        BY ThreadFields DEF ThreadState
    <2> HIDE DEF r
    <2>7. /\ r.session \in DOMAIN sessions /\ UNCHANGED sessions
          /\ currentSessionId' = r.session
        BY <1>4, <2>1, <2>6 DEF SetCurrentSession, OneThreadInv, ServedRight, InCharge
    <2>8. session' = sessions[r.session] /\ ~session'.radioFile
        BY <1>r, <2>7 DEF session
    <2>9. Stored(r, session')
        <3>1. fieldsOf(n) \in Seq(Field)
            BY <2>1, FormFields
        <3> QED BY <2>6, <3>1 DEF Stored
    <2>10. \A i \in DOMAIN sessions' : /\ AtRest(sessions'[i], i, r, initialOutput')
                                       /\ Owned(sessions'[i], requests[i].client, initialOutput')
        BY <1>u, <1>r, <2>7 DEF AtRest
    <2>11. Knows(r, session', inputFromFile', jsonOutput', initialOutput')
        BY <2>2, <2>4, <2>6, <2>8, <2>9 DEF Knows, Submitted, Answers
    <2> QED BY <1>u, <1>a, <2>3, <2>5, <2>7, <2>10, <2>11, OneStep
<1> QED BY <1>1, <1>2, <1>3, <1>4

\* setData() of the only thread that acts.
LEMMA OwnDataSet ==
    ASSUME SharedInv, OneThreadInv, NEW t \in Thread, thread[t].pc \in Acting,
           NEW d \in Datum, setData(d[1], d[2]), UNCHANGED currentSessionId
    PROVE  /\ DOMAIN sessions' = DOMAIN sessions
           /\ \A id \in DOMAIN sessions : id # currentSessionId => sessions'[id] = sessions[id]
           /\ session' = [session EXCEPT ![d[1]] = d[2]]
           /\ session'[d[1]] = d[2]
           /\ \A k \in Key : k # d[1] => session'[k] = session[k]
<1>1. currentSessionId \in DOMAIN sessions /\ session \in Session
    BY ActingFacts
<1>2. /\ DOMAIN sessions' = DOMAIN sessions
      /\ \A id \in DOMAIN sessions : id # currentSessionId => sessions'[id] = sessions[id]
      /\ sessions'[currentSessionId] = [session EXCEPT ![d[1]] = d[2]]
    BY <1>1, DataSet DEF SharedInv
<1>3. session' = sessions'[currentSessionId]
    BY <1>1, <1>2 DEF session
<1> QED BY <1>1, <1>2, <1>3, StoreDatum

\* The same, where the members of a session are named.
LEMMA SessionAfter ==
    ASSUME SharedInv, OneThreadInv, NEW t \in Thread, thread[t].pc \in Acting,
           NEW d \in Datum, setData(d[1], d[2]), UNCHANGED currentSessionId
    PROVE  /\ session'.inputText = IF d[1] = "inputText" THEN d[2] ELSE session.inputText
           /\ session'.inputFile = IF d[1] = "inputFile" THEN d[2] ELSE session.inputFile
           /\ session'.input = IF d[1] = "input" THEN d[2] ELSE session.input
           /\ session'.pipeText = IF d[1] = "pipeText" THEN d[2] ELSE session.pipeText
           /\ session'.pipe = IF d[1] = "pipe" THEN d[2] ELSE session.pipe
           /\ session'.radioFile = IF d[1] = "radioFile" THEN d[2] ELSE session.radioFile
           /\ session'.outputText = IF d[1] = "outputText" THEN d[2] ELSE session.outputText
           /\ session'.outputFile = IF d[1] = "outputFile" THEN d[2] ELSE session.outputFile
           /\ session'.errorOccured = IF d[1] = "errorOccured" THEN d[2] ELSE session.errorOccured
<1>1. \A k \in Key : session'[k] = IF d[1] = k THEN d[2] ELSE session[k]
    BY OwnDataSet
<1> QED BY <1>1 DEF Key, TextKey, PipeKey

\* Where a suffix of a sequence loses its head.
LEMMA SuffixAdvances ==
    ASSUME NEW F, NEW all \in Seq(F), NEW old \in Seq(F), old # <<>>,
           NEW done \in Nat, done = Len(all) - Len(old),
           \A i \in 1 .. Len(old) : old[i] = all[done + i]
    PROVE  /\ Tail(old) \in Seq(F) /\ Head(old) \in F
           /\ Len(all) - Len(Tail(old)) = done + 1
           /\ done + 1 \in DOMAIN all /\ Head(old) = all[done + 1]
           /\ \A i \in 1 .. Len(Tail(old)) : Tail(old)[i] = all[done + 1 + i]
           /\ \A i \in 1 .. done + 1 : i \in DOMAIN all /\ (i \in 1 .. done \/ i = done + 1)
<1>1. Len(all) \in Nat /\ Len(old) \in Nat /\ Len(old) >= 1
    OBVIOUS
<1>2. DOMAIN all = 1 .. Len(all)
    OBVIOUS
<1>3. /\ Tail(old) \in Seq(F) /\ Len(Tail(old)) = Len(old) - 1
      /\ \A i \in 1 .. Len(Tail(old)) : Tail(old)[i] = old[i + 1]
      /\ Head(old) = old[1] /\ Head(old) \in F
    OBVIOUS
<1>4. old[1] = all[done + 1]
    BY <1>1
<1>5. done + 1 \in DOMAIN all
    BY <1>1, <1>2
<1>6. ASSUME NEW i \in 1 .. Len(Tail(old))
      PROVE  Tail(old)[i] = all[done + 1 + i]
    <2>1. i \in Int /\ i + 1 \in 1 .. Len(old) /\ done + (i + 1) = done + 1 + i
        BY <1>1, <1>3
    <2>2. Tail(old)[i] = old[i + 1]
        BY <1>3
    <2>3. old[i + 1] = all[done + (i + 1)]
        BY <2>1
    <2> QED BY <2>1, <2>2, <2>3
<1>7. ASSUME NEW i \in 1 .. done + 1
      PROVE  i \in DOMAIN all /\ (i \in 1 .. done \/ i = done + 1)
    <2>1. i \in 1 .. Len(all) /\ (i \in 1 .. done \/ i = done + 1)
        BY <1>1, <1>2
    <2> QED BY <2>1
<1> QED BY <1>1, <1>3, <1>4, <1>5, <1>6, <1>7

LEMMA OneAddsData ==
    ASSUME SharedInv, OneThreadInv, SingleThread, NEW t \in Thread, AddData(t)
    PROVE  ServedRight'
<1> DEFINE n    == thread[t].request
           all  == fieldsOf(n)
           old  == thread[t].fields
           done == Len(all) - Len(old)
           d    == Head(old)
           r    == [thread[t] EXCEPT !.fields = Tail(old)]
<1>1. /\ thread[t].pc = "fields" /\ old # <<>> /\ setData(d[1], d[2])
      /\ UNCHANGED <<requests, replies, restarts, initialOutput, currentSessionId>>
    <2> HIDE DEF all, done, r
    <2> QED BY DEF AddData, At, Handling, browsers, sites
<1>2. /\ old \in Seq(Field) /\ n \in DOMAIN requests
    BY <1>1, ThreadFields DEF Ready
<1>3. all \in Seq(Field)
    BY <1>2, FormFields
<1>4. /\ currentSessionId = thread[t].session /\ session \in Session
      /\ requests[currentSessionId].client = requests[n].client
      /\ Owned(session, requests[n].client, initialOutput)
      /\ AtRest(session, currentSessionId, thread[t], initialOutput)
      /\ Knows(thread[t], session, inputFromFile, jsonOutput, initialOutput)
      /\ {0, NoText, n} \subseteq TextsOf(requests[n].client)
    BY <1>1, ActingFacts DEF Acting
<1>5. /\ done \in Nat
      /\ \A i \in 1 .. Len(old) : old[i] = all[done + i]
      /\ \A i \in 1 .. done : session[all[i][1]] = all[i][2]
    BY <1>1, <1>4 DEF Knows, Stored
<1> HIDE DEF all
<1>6. /\ Tail(old) \in Seq(Field) /\ d \in Field
      /\ Len(all) - Len(Tail(old)) = done + 1
      /\ done + 1 \in DOMAIN all /\ d = all[done + 1]
      /\ \A i \in 1 .. Len(Tail(old)) : Tail(old)[i] = all[done + 1 + i]
      /\ \A i \in 1 .. done + 1 : i \in DOMAIN all /\ (i \in 1 .. done \/ i = done + 1)
    <2>1. /\ done = Len(all) - Len(old) /\ d = Head(old) /\ done \in Nat
          /\ old # <<>> /\ old \in Seq(Field)
          /\ \A i \in 1 .. Len(old) : old[i] = all[done + i]
        BY <1>1, <1>2, <1>5
    <2> HIDE DEF old, done, d
    <2> QED BY <1>3, <2>1, SuffixAdvances
<1>7. done + 1 \in DOMAIN all /\ d = all[done + 1]
    BY <1>6
<1>8. d \in Datum
    BY <1>6 DEF Datum
<1>9. r \in ThreadState /\ thread' = [thread EXCEPT ![t] = r]
    BY <1>6, ThreadFields DEF AddData, ThreadState
<1>10. r.pc = "fields" /\ r.request = n /\ r.session = thread[t].session /\ r.fields = Tail(old)
    BY <1>1, ThreadFields DEF ThreadState
<1> HIDE DEF r, d, old, done
<1>11. \A i \in 1 .. done + 1 : session'[all[i][1]] = all[i][2]
    <2> SUFFICES ASSUME NEW i \in 1 .. done + 1
                 PROVE  session'[all[i][1]] = all[i][2]
        OBVIOUS
    <2>1. CASE i = done + 1
        BY <1>1, <1>7, <1>8, <2>1, OwnDataSet DEF Acting
    <2>2. CASE i # done + 1
        <3>1. i \in 1 .. done /\ i \in DOMAIN all /\ i # done + 1
            BY <1>6, <2>2
        <3>2. all[i] \in Field
            BY <1>3, <3>1
        <3>3. all[i][1] \in Key
            BY <3>2 DEF Field, Key
        <3>4. all[i][1] # d[1]
            BY <1>2, <1>7, <3>1, FieldsOfForm DEF all
        <3>5. session'[all[i][1]] = session[all[i][1]]
            BY <1>1, <1>8, <3>3, <3>4, OwnDataSet DEF Acting
        <3> QED BY <1>5, <3>1, <3>5
    <2> QED BY <2>1, <2>2
<1>12. Stored(r, session')
    <2>1. done + 1 \in Nat
        BY <1>5
    <2> QED BY <1>6, <1>10, <1>11, <2>1 DEF Stored, all
<1>13. /\ d[1] \in TextKey => d[2] \in {NoText, n}
       /\ d[1] = "radioFile" => requests[n].form.kind = "file"
       /\ d[1] \in TextKey \cup PipeKey \cup {"radioFile"}
    <2>1. d[1] \in TextKey \cup PipeKey \cup {"radioFile"}
        BY <1>6 DEF Field
    <2> QED BY <1>2, <1>7, <2>1, FieldsOfForm DEF all
<1>14. Owned(session', requests[n].client, initialOutput')
    BY <1>1, <1>4, <1>8, <1>13, SessionAfter DEF Owned, Acting, TextKey, PipeKey
<1>15. AtRest(session', currentSessionId, r, initialOutput')
    BY <1>1, <1>4, <1>8, <1>10, <1>13, SessionAfter DEF AtRest, Agrees, Acting, TextKey, PipeKey
<1>16. Knows(r, session', inputFromFile', jsonOutput', initialOutput')
    <2>1. session'.radioFile => requests[n].form.kind = "file"
        BY <1>1, <1>4, <1>8, <1>13, SessionAfter DEF Knows, Acting
    <2> QED BY <1>1, <1>4, <1>10, <1>12, <2>1 DEF Knows
<1>17. /\ DOMAIN sessions' = DOMAIN sessions
       /\ \A id \in DOMAIN sessions : id # currentSessionId => sessions'[id] = sessions[id]
    BY <1>1, <1>8, OwnDataSet DEF Acting
<1> QED BY <1>1, <1>4, <1>9, <1>10, <1>14, <1>15, <1>16, <1>17, ActingStep DEF Acting

LEMMA OneCallsAction ==
    ASSUME SharedInv, OneThreadInv, SingleThread, NEW t \in Thread, CallAction(t)
    PROVE  ServedRight'
<1> DEFINE n    == thread[t].request
           kind == requests[n].form.kind
           pc   == IF kind = "json" THEN "json" ELSE "input"
           r    == [thread[t] EXCEPT !.pc = pc]
<1>1. /\ thread[t].pc = "fields" /\ thread[t].fields = <<>>
      /\ UNCHANGED <<requests, replies, restarts, sessions, currentSessionId, inputFromFile, jsonOutput,
                   initialOutput>>
    BY DEF CallAction, At, Handling, browsers, manager, sites
<1>2. /\ currentSessionId = thread[t].session /\ session \in Session
      /\ requests[currentSessionId].client = requests[n].client
      /\ n \in DOMAIN requests
      /\ Owned(session, requests[n].client, initialOutput)
      /\ AtRest(session, currentSessionId, thread[t], initialOutput)
      /\ Knows(thread[t], session, inputFromFile, jsonOutput, initialOutput)
    BY <1>1, ActingFacts DEF Acting
<1>3. r \in ThreadState /\ thread' = [thread EXCEPT ![t] = r]
    BY Goes DEF SharedInv, CallAction, Goto, Step
<1>4. r.pc = pc /\ r.request = n /\ r.session = thread[t].session
    BY ThreadFields DEF ThreadState
<1>5. pc \in {"json", "input"} /\ (kind = "json" <=> pc = "json")
    OBVIOUS
<1>6. session' = session
    BY <1>1 DEF session
<1>7. kind \in {"text", "file", "json"} /\ (session.radioFile => kind = "file")
    BY <1>1, <1>2 DEF Knows
<1>8. \A i \in DOMAIN fieldsOf(n) : session[fieldsOf(n)[i][1]] = fieldsOf(n)[i][2]
    <2>1. fieldsOf(n) \in Seq(Field)
        BY <1>2, FormFields
    <2>2. \A i \in 1 .. Len(fieldsOf(n)) - 0 : session[fieldsOf(n)[i][1]] = fieldsOf(n)[i][2]
        BY <1>1, <1>2 DEF Knows, Stored
    <2> QED BY <2>1, <2>2
<1>9. /\ kind = "text" => session.inputText = Data(n) /\ session.pipeText = requests[n].form.pipe
      /\ kind = "file" => /\ session.inputFile = Data(n) /\ session.pipeText = requests[n].form.pipe
                          /\ session.radioFile
      /\ kind = "json" => session.pipe = requests[n].form.pipe /\ session.input = Data(n)
    BY <1>2, <1>8, AllStored
<1> HIDE DEF r, pc
<1>10. Knows(r, session', inputFromFile', jsonOutput', initialOutput')
    BY <1>1, <1>4, <1>5, <1>6, <1>7, <1>9 DEF Knows, Submitted
<1>11. AtRest(session', currentSessionId, r, initialOutput')
    <2>1. ~(kind = "file") => ~session.radioFile
        BY <1>7
    <2>2. CASE kind = "json"
        BY <1>1, <1>2, <1>4, <1>5, <1>6, <1>7, <2>2 DEF AtRest
    <2>3. CASE kind # "json"
        BY <1>1, <1>2, <1>4, <1>5, <1>6, <2>3 DEF AtRest
    <2> QED BY <2>2, <2>3
<1> QED BY <1>1, <1>2, <1>3, <1>4, <1>5, <1>6, <1>10, <1>11, ActingStep DEF Acting

\* The steps of actionPipe().
LEMMA OneRuns ==
    ASSUME SharedInv, OneThreadInv, SingleThread, NEW t \in Thread,
           \/ GetInput(t) \/ Prepare(t) \/ ClearPreviousFile(t) \/ RunPipe(t) \/ SaveOutput(t)
    PROVE  ServedRight'
<1> DEFINE n    == thread[t].request
           c    == requests[n].client
           kind == requests[n].form.kind
<1>0. /\ thread[t].pc \in {"input", "prepare", "clear", "run", "save"}
      /\ UNCHANGED <<requests, replies, restarts, currentSessionId>>
      /\ initialOutput' = initialOutput \/ initialOutput = NoOutput
    BY DEF GetInput, Prepare, ClearPreviousFile, RunPipe, SaveOutput, At, Handling, browsers, manager,
           sites, newInitialOutput
<1>1. /\ thread[t].pc \in Acting
      /\ currentSessionId = thread[t].session /\ session \in Session
      /\ currentSessionId \in DOMAIN sessions
      /\ requests[currentSessionId].client = c
      /\ n \in DOMAIN requests
      /\ Owned(session, c, initialOutput)
      /\ AtRest(session, currentSessionId, thread[t], initialOutput)
      /\ Knows(thread[t], session, inputFromFile, jsonOutput, initialOutput)
      /\ {0, NoText, n} \subseteq TextsOf(c)
    BY <1>0, ActingFacts DEF Acting
<1>2. Submitted(n)
    BY <1>0, <1>1 DEF Knows
<1>3. /\ Due(n) \in Run /\ Due(n) # NoOutput
      /\ Due(n)[2] \in TextsOf(c) /\ outputOf(Due(n)) \in Run \cup {NoOutput}
    BY <1>1, DueFacts
<1>d. /\ Agrees(session, initialOutput) => Agrees(session, initialOutput')
      /\ Owned(session, c, initialOutput')
    BY <1>0, <1>1, DefaultFound
<1>4. CASE GetInput(t)
    <2> DEFINE given == IF session.radioFile THEN session.inputFile ELSE session.inputText
               input == IF given = NoText THEN 0 ELSE given
               pipe  == IF session.pipeText = NoPipe THEN initialPipe ELSE session.pipeText
               r     == [thread[t] EXCEPT !.input = input, !.pipe = pipe, !.pc = "prepare"]
    <2>1. thread' = [thread EXCEPT ![t] = r]
        BY <1>4, ThreadFields DEF GetInput, ThreadState
    <2>2. thread[t].pc = "input" /\ UNCHANGED sessions
        BY <1>4 DEF GetInput, At, manager
    <2>3. given = Data(n) /\ session.pipeText = requests[n].form.pipe
          /\ (session.radioFile <=> kind = "file")
        BY <1>1, <2>2 DEF Knows
    <2>4. session.radioFile = (kind = "file")
        BY <1>1, <2>3 DEF Session
    <2>5. <<pipe, input, inputFromFile'>> = Due(n)
        <3>1. input = IF requests[n].form.empty THEN 0 ELSE n
            <4>1. n # NoText
                BY <1>1, RequestFields DEF SharedInv, NoText
            <4> QED BY <2>3, <4>1 DEF Data
        <3>2. inputFromFile' = (kind = "file")
            BY <1>4, <2>4 DEF GetInput
        <3>3. pipe = IF requests[n].form.pipe = NoPipe THEN initialPipe ELSE requests[n].form.pipe
            BY <2>3
        <3> HIDE DEF input, pipe
        <3> QED BY <3>1, <3>2, <3>3 DEF Due
    <2> HIDE DEF input, pipe, given
    <2>6. input \in Text /\ pipe \in Pipe
        <3>1. Due(n)[1] = pipe /\ Due(n)[2] = input
            BY <2>5
        <3> QED BY <1>1, <3>1, DueFacts
    <2>7. r \in ThreadState
        BY <2>6, ThreadFields DEF ThreadState, Step
    <2>8. /\ r.pc = "prepare" /\ r.request = n /\ r.session = thread[t].session
          /\ r.pipe = pipe /\ r.input = input
        BY ThreadFields DEF ThreadState
    <2> HIDE DEF r
    <2>9. session' = session
        BY <1>0, <2>2 DEF session
    <2>10. Knows(r, session', inputFromFile', jsonOutput', initialOutput')
        BY <1>2, <2>5, <2>8 DEF Knows
    <2>11. AtRest(session', currentSessionId, r, initialOutput')
        BY <1>1, <1>d, <2>2, <2>8, <2>9 DEF AtRest
    <2> QED BY <1>0, <1>1, <2>1, <2>2, <2>7, <2>8, <2>9, <2>10, <2>11, <1>d, ActingStep DEF Acting
<1>5. CASE Prepare(t)
    <2> DEFINE o == <<thread[t].pipe, thread[t].input, inputFromFile>>
               r == [thread[t] EXCEPT !.run = o, !.pc = "clear"]
    <2>1. thread' = [thread EXCEPT ![t] = r]
        BY <1>5, ThreadFields DEF Prepare, ThreadState
    <2>2. thread[t].pc = "prepare" /\ UNCHANGED sessions
        BY <1>5 DEF Prepare, At, manager
    <2>3. o = Due(n)
        BY <1>1, <2>2 DEF Knows
    <2> HIDE DEF o
    <2>4. r \in ThreadState
        BY <1>3, <2>3, ThreadFields DEF ThreadState, Step
    <2>5. r.pc = "clear" /\ r.request = n /\ r.session = thread[t].session /\ r.run = o
        BY ThreadFields DEF ThreadState
    <2> HIDE DEF r
    <2>6. session' = session
        BY <1>0, <2>2 DEF session
    <2>7. Knows(r, session', inputFromFile', jsonOutput', initialOutput')
        BY <1>2, <2>3, <2>5 DEF Knows
    <2>8. AtRest(session', currentSessionId, r, initialOutput')
        BY <1>1, <1>d, <2>2, <2>5, <2>6 DEF AtRest
    <2> QED BY <1>0, <1>1, <2>1, <2>2, <2>4, <2>5, <2>6, <2>7, <2>8, <1>d, ActingStep DEF Acting
<1>6. CASE ClearPreviousFile(t)
    <2> DEFINE r == [thread[t] EXCEPT !.pc = "run"]
    <2>1. r \in ThreadState /\ thread' = [thread EXCEPT ![t] = r]
        BY <1>6, Goes DEF SharedInv, ClearPreviousFile, Goto, Step
    <2>2. r.pc = "run" /\ r.request = n /\ r.session = thread[t].session
          /\ r.run = thread[t].run
        BY ThreadFields DEF ThreadState
    <2> HIDE DEF r
    <2>3. /\ DOMAIN sessions' = DOMAIN sessions
          /\ \A id \in DOMAIN sessions : id # currentSessionId => sessions'[id] = sessions[id]
          /\ session' = [session EXCEPT !.outputFile = NoOutput, !.errorOccured = FALSE]
        BY <1>0, <1>1, <1>6 DEF ClearPreviousFile, session
    <2>4. /\ session'.outputFile = NoOutput /\ session'.errorOccured = FALSE
          /\ session'.inputText = session.inputText /\ session'.inputFile = session.inputFile
          /\ session'.input = session.input /\ session'.outputText = session.outputText
        BY <1>1, <2>3 DEF Session
    <2>5. thread[t].pc = "clear"
        BY <1>6 DEF ClearPreviousFile, At
    <2>6. Knows(r, session', inputFromFile', jsonOutput', initialOutput')
        BY <1>1, <1>2, <2>2, <2>4, <2>5 DEF Knows
    <2>7. AtRest(session', currentSessionId, r, initialOutput')
        BY <1>1, <2>2 DEF AtRest
    <2>8. Owned(session', c, initialOutput')
        BY <1>d, <2>4 DEF Owned
    <2> QED BY <1>0, <1>1, <2>1, <2>2, <2>3, <2>6, <2>7, <2>8, ActingStep DEF Acting
<1>7. CASE RunPipe(t)
    <2> DEFINE r == [thread[t] EXCEPT !.pc = "save"]
               d == IF fails(Due(n)) THEN <<"errorOccured", TRUE>> ELSE <<"outputFile", Due(n)>>
    <2>1. r \in ThreadState /\ thread' = [thread EXCEPT ![t] = r]
        BY <1>7, Goes DEF SharedInv, RunPipe, Goto, Step
    <2>2. r.pc = "save" /\ r.request = n /\ r.session = thread[t].session
          /\ r.run = thread[t].run
        BY ThreadFields DEF ThreadState
    <2>3. thread[t].pc = "run"
        BY <1>7 DEF RunPipe, At
    <2>4. /\ thread[t].run = Due(n)
          /\ session.outputFile = NoOutput /\ ~session.errorOccured
        BY <1>1, <2>3 DEF Knows
    <2>5. d \in Datum
        BY <1>3 DEF Datum
    <2>6. setData(d[1], d[2])
        BY <1>7, <2>4 DEF RunPipe
    <2>7. /\ fails(Due(n)) => d[1] = "errorOccured" /\ d[2] = TRUE
          /\ ~fails(Due(n)) => d[1] = "outputFile" /\ d[2] = Due(n)
        OBVIOUS
    <2> HIDE DEF r, d
    <2>8. /\ session'.outputFile = IF fails(Due(n)) THEN NoOutput ELSE Due(n)
          /\ session'.errorOccured <=> fails(Due(n))
          /\ session'.inputText = session.inputText /\ session'.inputFile = session.inputFile
          /\ session'.input = session.input /\ session'.outputText = session.outputText
        <3>1. CASE fails(Due(n))
            BY <1>0, <1>1, <2>4, <2>5, <2>6, <2>7, <3>1, SessionAfter
        <3>2. CASE ~fails(Due(n))
            BY <1>0, <1>1, <2>4, <2>5, <2>6, <2>7, <3>2, SessionAfter
        <3> QED BY <3>1, <3>2
    <2>9. Knows(r, session', inputFromFile', jsonOutput', initialOutput')
        BY <1>2, <2>2, <2>4, <2>8 DEF Knows
    <2>10. AtRest(session', currentSessionId, r, initialOutput')
        BY <1>1, <2>2 DEF AtRest
    <2>11. Owned(session', c, initialOutput')
        BY <1>d, <1>3, <2>8 DEF Owned
    <2>12. /\ DOMAIN sessions' = DOMAIN sessions
           /\ \A id \in DOMAIN sessions : id # currentSessionId => sessions'[id] = sessions[id]
        BY <1>0, <1>1, <2>5, <2>6, OwnDataSet
    <2> QED BY <1>0, <1>1, <2>1, <2>2, <2>9, <2>10, <2>11, <2>12, ActingStep DEF Acting
<1>8. CASE SaveOutput(t)
    <2> DEFINE r == [thread[t] EXCEPT !.pc = "options"]
               d == <<"outputText", outputOf(Due(n))>>
    <2>1. r \in ThreadState /\ thread' = [thread EXCEPT ![t] = r]
        BY <1>8, Goes DEF SharedInv, SaveOutput, Goto, Step
    <2>2. r.pc = "options" /\ r.request = n /\ r.session = thread[t].session
        BY ThreadFields DEF ThreadState
    <2>3. thread[t].pc = "save"
        BY <1>8 DEF SaveOutput, At
    <2>4. /\ thread[t].run = Due(n)
          /\ session.errorOccured <=> fails(Due(n))
          /\ session.outputFile = IF fails(Due(n)) THEN NoOutput ELSE Due(n)
        BY <1>1, <2>3 DEF Knows
    <2>5. d \in Datum /\ d[1] = "outputText" /\ d[2] = outputOf(Due(n))
        BY <1>3 DEF Datum
    <2>6. setData(d[1], d[2])
        BY <1>8, <2>4 DEF SaveOutput
    <2> HIDE DEF r, d
    <2>8. /\ session'.outputText = outputOf(Due(n)) /\ session'.outputFile = session.outputFile
          /\ session'.errorOccured = session.errorOccured
          /\ session'.inputText = session.inputText /\ session'.inputFile = session.inputFile
          /\ session'.input = session.input
        BY <1>0, <1>1, <2>5, <2>6, SessionAfter
    <2>9. Knows(r, session', inputFromFile', jsonOutput', initialOutput')
        BY <1>2, <2>2, <2>8 DEF Knows, Submitted
    <2>7. /\ outputOf(Due(n)) = IF Due(n) \in EmptyRuns THEN NoOutput ELSE Due(n)
          /\ fails(Due(n)) => Due(n) \notin EmptyRuns
        BY <1>3, RunFacts
    <2>10. AtRest(session', currentSessionId, r, initialOutput')
        <3>1. CASE fails(Due(n))
            BY <1>1, <1>3, <2>2, <2>4, <2>7, <2>8, <3>1 DEF AtRest, Agrees
        <3>2. CASE ~fails(Due(n))
            BY <1>1, <1>3, <2>2, <2>4, <2>7, <2>8, <3>2 DEF AtRest, Agrees
        <3> QED BY <3>1, <3>2
    <2>11. Owned(session', c, initialOutput')
        <3>1. session'.outputText \in {NoOutput, Due(n)}
            BY <2>7, <2>8
        <3> QED BY <1>d, <1>3, <2>8, <3>1 DEF Owned
    <2>12. /\ DOMAIN sessions' = DOMAIN sessions
           /\ \A id \in DOMAIN sessions : id # currentSessionId => sessions'[id] = sessions[id]
        BY <1>0, <1>1, <2>5, <2>6, OwnDataSet
    <2> QED BY <1>0, <1>1, <2>1, <2>2, <2>9, <2>10, <2>11, <2>12, ActingStep DEF Acting
<1> QED BY <1>4, <1>5, <1>6, <1>7, <1>8

\* The steps in which a page is filled.
LEMMA OneShows ==
    ASSUME SharedInv, OneThreadInv, SingleThread, NEW t \in Thread,
           HiddenOptions(t) \/ ShowForm(t) \/ ShowOutput(t)
    PROVE  ServedRight'
<1> DEFINE n    == thread[t].request
           c    == requests[n].client
           kind == requests[n].form.kind
<1>0. /\ thread[t].pc \in {"options", "form", "output"}
      /\ UNCHANGED <<requests, replies, restarts, initialOutput, currentSessionId>>
    BY DEF HiddenOptions, ShowForm, ShowOutput, At, Handling, browsers, sites
<1>1. /\ thread[t].pc \in Acting
      /\ currentSessionId = thread[t].session /\ session \in Session
      /\ currentSessionId \in DOMAIN sessions
      /\ requests[currentSessionId].client = c
      /\ n \in DOMAIN requests
      /\ Owned(session, c, initialOutput)
      /\ AtRest(session, currentSessionId, thread[t], initialOutput)
      /\ Knows(thread[t], session, inputFromFile, jsonOutput, initialOutput)
      /\ {0, NoText, n} \subseteq TextsOf(c)
    BY <1>0, ActingFacts DEF Acting
<1>2. /\ kind \in {"view", "text", "file"} /\ (Submitted(n) => session.outputText = outputOf(Due(n)))
      /\ Agrees(session, initialOutput)
    BY <1>0, <1>1 DEF Knows, AtRest
<1>3. CASE HiddenOptions(t)
    <2> DEFINE page == [thread[t].page EXCEPT !.file = session.outputFile,
                                              !.error = session.errorOccured]
               r    == [thread[t] EXCEPT !.page = page, !.pc = "form"]
               d    == <<"radioFile", FALSE>>
    <2>1. page \in AnyPage /\ page.file = session.outputFile /\ page.error = session.errorOccured
        BY <1>1, ThreadFields DEF AnyPage, Session
    <2>2. thread' = [thread EXCEPT ![t] = r]
        BY <1>3, ThreadFields DEF HiddenOptions, ThreadState, AnyPage
    <2> HIDE DEF page
    <2>3. r \in ThreadState
        BY <2>1, ThreadFields DEF ThreadState, Step
    <2>4. r.pc = "form" /\ r.request = n /\ r.session = thread[t].session /\ r.page = page
        BY ThreadFields DEF ThreadState
    <2>5. d \in Datum /\ d[1] = "radioFile" /\ d[2] = FALSE
        BY DEF Datum, Field
    <2>6. setData(d[1], d[2])
        BY <1>3 DEF HiddenOptions
    <2> HIDE DEF r, d
    <2>7. /\ session'.outputText = session.outputText /\ session'.outputFile = session.outputFile
          /\ session'.errorOccured = session.errorOccured /\ session'.radioFile = FALSE
          /\ session'.inputText = session.inputText /\ session'.inputFile = session.inputFile
          /\ session'.input = session.input
        BY <1>0, <1>1, <2>5, <2>6, SessionAfter
    <2>8. Knows(r, session', inputFromFile', jsonOutput', initialOutput')
        BY <1>2, <2>1, <2>4, <2>7 DEF Knows, Submitted
    <2>9. AtRest(session', currentSessionId, r, initialOutput')
        BY <1>0, <1>2, <2>7 DEF AtRest, Agrees
    <2>10. Owned(session', c, initialOutput')
        BY <1>0, <1>1, <2>7 DEF Owned
    <2>11. /\ DOMAIN sessions' = DOMAIN sessions
           /\ \A id \in DOMAIN sessions : id # currentSessionId => sessions'[id] = sessions[id]
        BY <1>0, <1>1, <2>5, <2>6, OwnDataSet
    <2> QED BY <1>0, <1>1, <2>2, <2>3, <2>4, <2>8, <2>9, <2>10, <2>11, ActingStep DEF Acting
<1>4. CASE ShowForm(t)
    <2> DEFINE pipe  == orDefault(session.pipeText, NoPipe, initialPipe)
               input == orDefault(session.inputText, NoText, 0)
               page  == [thread[t].page EXCEPT !.pipe = pipe, !.input = input]
               r     == [thread[t] EXCEPT !.page = page, !.pc = "output"]
    <2>1. input \in Text /\ pipe \in Pipe /\ input \in {0, session.inputText}
        BY <1>1, ServerAssumption DEF Text, orDefault, Session
    <2>2. thread' = [thread EXCEPT ![t] = r]
        BY <1>4, ThreadFields DEF ShowForm, ThreadState, AnyPage
    <2>3. /\ DOMAIN sessions' = DOMAIN sessions
          /\ \A id \in DOMAIN sessions : id # currentSessionId => sessions'[id] = sessions[id]
          /\ session' = [session EXCEPT !.pipeText = pipe, !.inputText = input]
        BY <1>0, <1>1, <1>4 DEF ShowForm, session
    <2> HIDE DEF pipe, input
    <2>4. /\ page \in AnyPage /\ page.file = thread[t].page.file
          /\ page.error = thread[t].page.error
        BY <2>1, ThreadFields DEF AnyPage
    <2> HIDE DEF page
    <2>5. r \in ThreadState
        BY <2>4, ThreadFields DEF ThreadState, Step
    <2>6. r.pc = "output" /\ r.request = n /\ r.session = thread[t].session /\ r.page = page
        BY ThreadFields DEF ThreadState
    <2> HIDE DEF r
    <2>7. /\ session'.outputText = session.outputText /\ session'.outputFile = session.outputFile
          /\ session'.errorOccured = session.errorOccured /\ session'.radioFile = session.radioFile
          /\ session'.inputText = input /\ session'.inputFile = session.inputFile
          /\ session'.input = session.input
        BY <1>1, <2>3 DEF Session
    <2>8. thread[t].pc = "form"
        BY <1>4 DEF ShowForm, At
    <2>9. Knows(r, session', inputFromFile', jsonOutput', initialOutput')
        <3>1. thread[t].page.file = session.outputFile /\ thread[t].page.error = session.errorOccured
            BY <1>1, <2>8 DEF Knows
        <3> QED BY <1>2, <2>4, <2>6, <2>7, <3>1 DEF Knows, Submitted
    <2>10. AtRest(session', currentSessionId, r, initialOutput')
        BY <1>0, <1>1, <1>2, <2>6, <2>7, <2>8 DEF AtRest, Agrees
    <2>11. Owned(session', c, initialOutput')
        BY <1>0, <1>1, <2>1, <2>7 DEF Owned
    <2> QED BY <1>0, <1>1, <2>2, <2>3, <2>5, <2>6, <2>9, <2>10, <2>11, ActingStep DEF Acting
<1>5. CASE ShowOutput(t)
    <2> DEFINE o    == orDefault(session.outputText, NoOutput, initialOutput)
               page == [thread[t].page EXCEPT !.output = o]
               r    == [thread[t] EXCEPT !.page = page, !.pc = "reply"]
               d    == <<"outputText", o>>
    <2>1. /\ o \in Run \cup {NoOutput}
          /\ session.outputText = NoOutput => o = initialOutput
          /\ session.outputText # NoOutput => o = session.outputText
        BY <1>1 DEF orDefault, Session, SharedInv, TypeOK
    <2>2. thread' = [thread EXCEPT ![t] = r]
        BY <1>5, ThreadFields DEF ShowOutput, ThreadState, AnyPage
    <2>3. setData(d[1], d[2])
        BY <1>5 DEF ShowOutput
    <2> HIDE DEF o
    <2>4. /\ page \in AnyPage /\ page.file = thread[t].page.file
          /\ page.error = thread[t].page.error /\ page.output = o
        BY <2>1, ThreadFields DEF AnyPage
    <2> HIDE DEF page
    <2>5. r \in ThreadState
        BY <2>4, ThreadFields DEF ThreadState, Step
    <2>6. r.pc = "reply" /\ r.request = n /\ r.session = thread[t].session /\ r.page = page
        BY ThreadFields DEF ThreadState
    <2>7. d \in Datum /\ d[1] = "outputText" /\ d[2] = o
        BY <2>1 DEF Datum
    <2> HIDE DEF r, d
    <2>8. /\ session'.outputText = o /\ session'.outputFile = session.outputFile
          /\ session'.errorOccured = session.errorOccured /\ session'.radioFile = session.radioFile
          /\ session'.inputText = session.inputText /\ session'.inputFile = session.inputFile
          /\ session'.input = session.input
        BY <1>0, <1>1, <2>3, <2>7, SessionAfter
    <2>9. thread[t].pc = "output"
        BY <1>5 DEF ShowOutput, At
    <2>10. page.file = session.outputFile /\ page.error = session.errorOccured
        BY <1>1, <2>4, <2>9 DEF Knows
    <2>11. IF session.errorOccured THEN session.outputFile = NoOutput /\ o # NoOutput /\ fails(o)
           ELSE o \in IF session.outputFile \in EmptyRuns \cup {NoOutput} THEN {initialOutput}
                     ELSE {session.outputFile}
        BY <1>2, <2>1 DEF Agrees
    <2>12. Submitted(n) => o \in IF Due(n) \in EmptyRuns THEN {initialOutput} ELSE {Due(n)}
        <3>1. outputOf(Due(n)) = IF Due(n) \in EmptyRuns THEN NoOutput ELSE Due(n)
            BY DEF outputOf
        <3> QED BY <1>1, <1>2, <2>1, <3>1, DueFacts
    <2>13. Knows(r, session', inputFromFile', jsonOutput', initialOutput')
        BY <1>0, <1>2, <2>4, <2>6, <2>10, <2>11, <2>12 DEF Knows, Answers, Submitted
    <2>14. AtRest(session', currentSessionId, r, initialOutput')
        <3>1. ~session'.radioFile
            BY <1>1, <2>8, <2>9 DEF AtRest
        <3>2. Agrees(session', initialOutput')
            BY <1>0, <2>8, <2>11 DEF Agrees
        <3> QED BY <3>1, <3>2 DEF AtRest
    <2>15. Owned(session', c, initialOutput')
        <3>1. CASE session.outputText = NoOutput
            <4>1. o = initialOutput /\ (defaultRun \notin EmptyRuns => o = defaultRun)
                BY <2>1, <3>1 DEF SharedInv, DefaultStays
            <4>2. defaultRun[2] \in TextsOf(c)
                BY <1>1 DEF defaultRun
            <4> QED BY <1>0, <1>1, <2>8, <4>1, <4>2 DEF Owned
        <3>2. CASE session.outputText # NoOutput
            BY <1>0, <1>1, <2>1, <2>8, <3>2 DEF Owned
        <3> QED BY <3>1, <3>2
    <2>16. /\ DOMAIN sessions' = DOMAIN sessions
           /\ \A id \in DOMAIN sessions : id # currentSessionId => sessions'[id] = sessions[id]
        BY <1>1, <1>5, <2>3, <2>7, OwnDataSet DEF ShowOutput
    <2> QED BY <1>0, <1>1, <2>2, <2>5, <2>6, <2>13, <2>14, <2>15, <2>16, ActingStep DEF Acting
<1> QED BY <1>3, <1>4, <1>5

\* The steps of actionJson() and its page.
LEMMA OneJson ==
    ASSUME SharedInv, OneThreadInv, SingleThread, NEW t \in Thread,
           JsonStart(t) \/ JsonRun(t) \/ JsonPage(t)
    PROVE  ServedRight'
<1> DEFINE n    == thread[t].request
           c    == requests[n].client
           form == requests[n].form
<1>0. /\ thread[t].pc \in {"json", "jsonrun", "jsonpage"}
      /\ UNCHANGED <<requests, replies, restarts, initialOutput, currentSessionId, sessions>>
    BY DEF JsonStart, JsonRun, JsonPage, At, Handling, browsers, manager, sites
<1>1. /\ thread[t].pc \in Acting
      /\ currentSessionId = thread[t].session /\ session \in Session
      /\ requests[currentSessionId].client = c
      /\ n \in DOMAIN requests
      /\ Owned(session, c, initialOutput)
      /\ AtRest(session, currentSessionId, thread[t], initialOutput)
      /\ Knows(thread[t], session, inputFromFile, jsonOutput, initialOutput)
    BY <1>0, ActingFacts DEF Acting
<1>2. form.kind = "json" /\ session' = session
    BY <1>0, <1>1 DEF Knows, session
<1>3. ASSUME NEW r \in ThreadState, r.session = thread[t].session,
             r.pc \in {"jsonrun", "jsonpage", "reply"}
      PROVE  AtRest(session', currentSessionId, r, initialOutput')
    BY <1>0, <1>1, <1>2, <1>3 DEF AtRest
<1>4. CASE JsonStart(t)
    <2> DEFINE r == [thread[t] EXCEPT !.pipe = session.pipe, !.input = session.input,
                                      !.pc = "jsonrun"]
    <2>1. r \in ThreadState
        <3>1. session.pipe \in Pipe \cup {NoPipe} /\ session.input \in Text \cup {NoText}
            BY <1>1 DEF Session
        <3> QED BY <3>1, ThreadFields DEF ThreadState, Step
    <2>2. thread' = [thread EXCEPT ![t] = r]
        BY <1>4, ThreadFields DEF JsonStart, ThreadState
    <2>3. /\ r.pc = "jsonrun" /\ r.request = n /\ r.session = thread[t].session
          /\ r.pipe = session.pipe /\ r.input = session.input
        BY ThreadFields DEF ThreadState
    <2> HIDE DEF r
    <2>4. session.pipe = form.pipe /\ session.input = Data(n)
        BY <1>1, <1>4 DEF Knows, JsonStart, At
    <2>5. Knows(r, session', inputFromFile', jsonOutput', initialOutput')
        BY <1>2, <2>3, <2>4 DEF Knows
    <2> QED BY <1>0, <1>1, <1>2, <1>3, <2>1, <2>2, <2>3, <2>5, ActingStep DEF Acting
<1>5. CASE JsonRun(t)
    <2> DEFINE r == [thread[t] EXCEPT !.pc = "jsonpage"]
    <2>1. r \in ThreadState /\ thread' = [thread EXCEPT ![t] = r]
        BY <1>5, Goes DEF SharedInv, JsonRun, Goto, Step
    <2>2. r.pc = "jsonpage" /\ r.request = n /\ r.session = thread[t].session
        BY ThreadFields DEF ThreadState
    <2> HIDE DEF r
    <2>3. thread[t].pipe = form.pipe /\ thread[t].input = Data(n)
        BY <1>1, <1>5 DEF Knows, JsonRun, At
    <2>4. jsonOutput' = JsonDue(n)
        <3>1. Data(n) = NoText <=> form.empty
            <4>1. n # NoText
                BY <1>1, RequestFields DEF SharedInv, NoText
            <4> QED BY <4>1 DEF Data
        <3>2. ~form.empty => Data(n) = n
            BY DEF Data
        <3>3. CASE form.pipe = NoPipe \/ form.empty
            BY <1>5, <2>3, <3>1, <3>3 DEF JsonRun, JsonDue
        <3>4. CASE ~(form.pipe = NoPipe \/ form.empty)
            BY <1>5, <2>3, <3>1, <3>2, <3>4 DEF JsonRun, JsonDue
        <3> QED BY <3>3, <3>4
    <2>5. Knows(r, session', inputFromFile', jsonOutput', initialOutput')
        BY <1>2, <2>2, <2>4 DEF Knows
    <2> QED BY <1>0, <1>1, <1>2, <1>3, <2>1, <2>2, <2>5, ActingStep DEF Acting
<1>6. CASE JsonPage(t)
    <2> DEFINE page == [thread[t].page EXCEPT !.output = jsonOutput]
               r    == [thread[t] EXCEPT !.page = page, !.pc = "reply"]
    <2>1. page \in AnyPage /\ page.output = jsonOutput
        BY ThreadFields DEF AnyPage, SharedInv, TypeOK
    <2>2. thread' = [thread EXCEPT ![t] = r]
        BY <1>6, ThreadFields DEF JsonPage, ThreadState, AnyPage
    <2> HIDE DEF page
    <2>3. r \in ThreadState
        BY <2>1, ThreadFields DEF ThreadState, Step
    <2>4. r.pc = "reply" /\ r.request = n /\ r.session = thread[t].session /\ r.page = page
        BY ThreadFields DEF ThreadState
    <2> HIDE DEF r
    <2>5. jsonOutput = JsonDue(n)
        BY <1>1, <1>6 DEF Knows, JsonPage, At
    <2>6. Knows(r, session', inputFromFile', jsonOutput', initialOutput')
        BY <1>2, <2>1, <2>4, <2>5 DEF Knows, Answers, Submitted
    <2> QED BY <1>0, <1>1, <1>2, <1>3, <2>2, <2>3, <2>4, <2>6, ActingStep DEF Acting
<1> QED BY <1>4, <1>5, <1>6

\* Once the request is answered, its output may stand in for those of others.
LEMMA ReplyStandsIn ==
    ASSUME SharedInv, OneThreadInv, SingleThread, NEW t \in Thread, Reply(t)
    PROVE  StandIns \subseteq StandIns' /\ initialOutput \in StandIns'
<1>n. PICK n : n = thread[t].request
    OBVIOUS
<1>1. /\ UNCHANGED <<requests, restarts, initialOutput>>
      /\ n \in DOMAIN replies' /\ DOMAIN replies \subseteq DOMAIN replies'
    BY <1>n, Replied DEF Reply, browsers, sites
<1>2. StandIns \subseteq StandIns'
    <2>1. \A m \in DOMAIN replies : m \in DOMAIN replies' /\ requests'[m] = requests[m]
        BY <1>1
    <2> QED BY <1>1, <2>1, StandInsGrow
<1>3. CASE initialOutput \in StandIns
    BY <1>2, <1>3
<1>4. CASE initialOutput \notin StandIns
    <2>1. Submitted(n) /\ initialOutput = Due(n)
        BY <1>n, <1>4 DEF OneThreadInv, DefaultKnown, SingleThread
    <2>2. defaultRun \in EmptyRuns /\ initialOutput \notin EmptyRuns
        BY <1>4 DEF SharedInv, DefaultStays, StandIns
    <2>3. Submitted(n)' /\ initialOutput = Due(n)'
        <3>1. requests'[n] = requests[n]
            BY <1>1
        <3> QED BY <2>1, <3>1, SameRequest
    <2> QED BY <1>1, <1>2, <2>2, <2>3 DEF StandIns, defaultRun
<1> QED BY <1>3, <1>4

LEMMA OneReplies ==
    ASSUME SharedInv, OneThreadInv, SingleThread, NEW t \in Thread, Reply(t)
    PROVE  ServedRight'
<1> DEFINE n == thread[t].request
<1>1. thread[t].pc = "reply" /\ UNCHANGED <<requests, sessions, currentSessionId>>
    BY DEF Reply, At, browsers, manager
<1>s. StandIns \subseteq StandIns' /\ initialOutput \in StandIns'
    BY ReplyStandsIn
<1>o. PICK others : others = StandIns'
    OBVIOUS
<1>2. Answers(n, thread[t].page, {initialOutput})
    BY <1>1 DEF OneThreadInv, ServedRight, ThreadKnows, Knows
<1>3. \A m \in DOMAIN replies' : Answers(m, replies'[m].page, others)
    <2>1. /\ DOMAIN replies' = DOMAIN replies \cup {n}
          /\ replies'[n].page = thread[t].page
          /\ \A m \in DOMAIN replies : m # n => replies'[m] = replies[m]
        BY Replied
    <2>2. \A m \in DOMAIN replies : Answers(m, replies[m].page, others)
        <3>1. \A m \in DOMAIN replies : Answers(m, replies[m].page, StandIns)
            BY DEF OneThreadInv, ServedRight, AnswersOK
        <3> QED BY <1>s, <1>o, <3>1 DEF Answers
    <2>3. Answers(n, thread[t].page, others)
        BY <1>s, <1>o, <1>2 DEF Answers
    <2> HIDE DEF n
    <2> QED BY <2>1, <2>2, <2>3
<1>4. AnswersOK'
    BY <1>1, <1>3, <1>o, SameRequests DEF AnswersOK
<1>5. idle.pc = "idle" /\ idle \in ThreadState
    BY EmptyPage DEF idle
<1>6. thread' = [thread EXCEPT ![t] = idle]
    BY DEF Reply
<1>7. Knows(idle, session', inputFromFile', jsonOutput', initialOutput')
    BY <1>5 DEF Knows
<1>8. \A id \in DOMAIN sessions' : /\ AtRest(sessions'[id], id, idle, initialOutput')
                                   /\ Owned(sessions'[id], requests[id].client, initialOutput')
    <2>1. UNCHANGED initialOutput
        BY DEF Reply, sites
    <2> QED BY <1>1, <1>5, <2>1 DEF OneThreadInv, ServedRight, SessionsRest, SessionsOwned, AtRest
<1> QED BY <1>1, <1>4, <1>5, <1>6, <1>7, <1>8, OneStep DEF Acting

\* Clients disturb nothing: requests are appended, cookies are no part of this.
LEMMA OneClients ==
    ASSUME SharedInv, OneThreadInv, RequestsKept,
           UNCHANGED <<manager, sites, thread, replies, restarts>>
    PROVE  ServedRight'
<1>1. UNCHANGED <<sessions, currentSessionId, inputFromFile, jsonOutput, initialOutput, thread,
                  replies, restarts>>
    BY DEF manager, sites
<1>2. session' = session
    BY <1>1 DEF session
<1>3. InCharge'
    BY <1>1 DEF OneThreadInv, ServedRight, InCharge
<1>4. SessionsRest'
    BY <1>1 DEF OneThreadInv, ServedRight, SessionsRest, AtRest, Agrees
<1>5. SessionsOwned'
    <2>1. ASSUME NEW id \in DOMAIN sessions
          PROVE  Owned(sessions[id], requests[id].client, initialOutput)'
        <3>0. PICK c : c = requests[id].client
            OBVIOUS
        <3>1. requests'[id].client = c
            BY <2>1, <3>0 DEF SharedInv, CookiesOwn, RequestsKept
        <3>2. TextsOf(c) \subseteq TextsOf(c)'
            BY DEF TextsOf, RequestsKept
        <3>3. Owned(sessions[id], c, initialOutput)
            BY <2>1, <3>0 DEF OneThreadInv, ServedRight, SessionsOwned
        <3>4. Owned(sessions[id], c, initialOutput)'
            BY <1>1, <3>2, <3>3 DEF Owned
        <3> QED BY <3>1, <3>4 DEF Owned
    <2> QED BY <1>1, <2>1 DEF SessionsOwned
<1>6. ThreadKnows'
    <2>1. ASSUME NEW t \in Thread
          PROVE  Knows(thread[t], session, inputFromFile, jsonOutput, initialOutput)'
        <3> DEFINE n == thread[t].request
        <3>1. Knows(thread[t], session, inputFromFile, jsonOutput, initialOutput)
            BY DEF OneThreadInv, ServedRight, ThreadKnows
        <3>2. CASE thread[t].pc = "idle"
            BY <1>1, <3>2 DEF Knows
        <3>3. CASE thread[t].pc # "idle"
            <4>1. n \in DOMAIN requests
                BY <3>3, ThreadFields DEF Ready
            <4>2. requests'[n] = requests[n]
                BY <4>1 DEF RequestsKept
            <4>3. /\ fieldsOf(n)' = fieldsOf(n) /\ Data(n)' = Data(n)
                  /\ Due(n)' = Due(n) /\ JsonDue(n)' = JsonDue(n)
                  /\ Submitted(n)' <=> Submitted(n)
                  /\ \A page, others : Answers(n, page, others)' <=> Answers(n, page, others)
                BY <4>2, SameRequest
            <4>4. Stored(thread[t], session)' <=> Stored(thread[t], session)
                BY <1>1, <1>2, <4>3 DEF Stored
            <4> QED BY <1>1, <1>2, <3>1, <4>2, <4>3, <4>4 DEF Knows
        <3> QED BY <3>2, <3>3
    <2> QED BY <2>1 DEF ThreadKnows
<1>7. AnswersOK'
    BY <1>1, AnswersKept DEF SharedInv, TypeOK, RequestsKept
<1> QED BY <1>3, <1>4, <1>5, <1>6, <1>7 DEF ServedRight

LEMMA OneRestart ==
    ASSUME SharedInv, OneThreadInv, Restart
    PROVE  ServedRight'
<1>1. DOMAIN sessions' = {} /\ UNCHANGED <<requests, replies>>
    BY DEF Restart, browsers
<1>2. \A t \in Thread : thread'[t] = idle /\ idle.pc = "idle"
    BY DEF Restart, idle
<1>3. InCharge'
    BY <1>2 DEF InCharge, Acting
<1>4. SessionsRest' /\ SessionsOwned'
    BY <1>1 DEF SessionsRest, SessionsOwned
<1>5. ThreadKnows'
    BY <1>2 DEF ThreadKnows, Knows
<1>6. AnswersOK'
    <2>1. restarts' # 0
        BY DEF Restart, SharedInv, TypeOK
    <2> QED BY <1>1, <2>1, AnswersKept
<1> QED BY <1>3, <1>4, <1>5, <1>6 DEF ServedRight

LEMMA OneInit ==
    ASSUME Init
    PROVE  OneThreadInv
<1>1. DOMAIN sessions = {} /\ DOMAIN replies = {}
    BY DEF Init
<1>2. \A t \in Thread : thread[t] = idle /\ idle.pc = "idle"
    BY DEF Init, idle
<1>3. InCharge
    BY <1>2 DEF InCharge, Acting
<1>4. SessionsRest /\ SessionsOwned /\ AnswersOK
    BY <1>1 DEF SessionsRest, SessionsOwned, AnswersOK
<1>5. ThreadKnows
    BY <1>2 DEF ThreadKnows, Knows
<1>6. DefaultKnown
    BY DEF Init, DefaultKnown, StandIns, outputOf
<1> QED BY <1>3, <1>4, <1>5, <1>6 DEF OneThreadInv, ServedRight

\* The default output, step by step.
LEMMA OneDefault ==
    ASSUME SingleThread, SharedInv, OneThreadInv, [Next]_vars
    PROVE  DefaultKnown'
<1>1. ASSUME UNCHANGED <<requests, replies, restarts, initialOutput>>
      PROVE  StandIns \subseteq StandIns' /\ \A n : requests'[n] = requests[n]
    BY <1>1, StandInsGrow
<1>2. ASSUME NEW t \in Thread, SaveOutput(t)
      PROVE  DefaultKnown'
    <2> DEFINE n == thread[t].request
    <2>1. /\ thread[t].pc = "save" /\ UNCHANGED <<requests, replies, restarts>>
          /\ initialOutput' = newInitialOutput(outputOf(thread[t].run))
          /\ thread' = [thread EXCEPT ![t].pc = "options"]
        BY <1>2 DEF SaveOutput, At, Goto, Handling, browsers
    <2>2. thread'[t].pc = "options" /\ thread'[t].request = n
        BY <2>1, ThreadFields DEF SharedInv, ThreadsOK, ThreadState
    <2>3. Submitted(n) /\ thread[t].run = Due(n)
        BY <2>1 DEF OneThreadInv, ServedRight, ThreadKnows, Knows
    <2>4. initialOutput \in StandIns
        BY <2>1 DEF OneThreadInv, DefaultKnown, SingleThread, Showing
    <2>5. CASE initialOutput' = initialOutput
        BY <1>1, <2>1, <2>4, <2>5 DEF DefaultKnown
    <2>6. CASE initialOutput' # initialOutput
        <3>1. initialOutput' = Due(n)
            BY <2>1, <2>3, <2>6 DEF newInitialOutput, outputOf
        <3>2. Submitted(thread[t].request)' /\ initialOutput' = Due(thread[t].request)'
            BY <2>1, <2>2, <2>3, <3>1 DEF Submitted, Due
        <3> QED BY <2>2, <3>2 DEF DefaultKnown, Showing
    <2> QED BY <2>5, <2>6
<1>3. ASSUME NEW t \in Thread, Handle(t), ~SaveOutput(t), ~Reply(t)
      PROVE  DefaultKnown'
    <2>1. UNCHANGED <<requests, replies, restarts, initialOutput>>
        BY <1>3 DEF Handle, Take, Instance, Create, FindSession, SetCurrentSession, AddData,
                    CallAction, GetInput, Prepare, ClearPreviousFile, RunPipe, HiddenOptions,
                    ShowForm, ShowOutput, JsonStart, JsonRun, JsonPage, Handling, browsers, sites
    <2>2. CASE initialOutput \in StandIns
        BY <1>1, <2>1, <2>2 DEF DefaultKnown
    <2>3. CASE initialOutput \notin StandIns
        <3>1. /\ thread[t].pc \in Showing /\ Submitted(thread[t].request)
              /\ initialOutput = Due(thread[t].request)
            BY <2>3 DEF OneThreadInv, DefaultKnown, SingleThread
        <3>2. HiddenOptions(t) \/ ShowForm(t) \/ ShowOutput(t)
            BY <1>3, <3>1 DEF Handle, Take, Instance, Create, FindSession, SetCurrentSession,
                    AddData, CallAction, GetInput, Prepare, ClearPreviousFile, RunPipe, JsonStart,
                    JsonRun, JsonPage, At, Showing
        <3>3. thread'[t].pc \in Showing /\ thread'[t].request = thread[t].request
            <4>1. thread[t] \in ThreadState /\ thread \in [Thread -> ThreadState]
                BY DEF SharedInv, ThreadsOK
            <4>2. CASE HiddenOptions(t)
                BY <4>1, <4>2 DEF ThreadState, AnyPage, HiddenOptions, Showing
            <4>3. CASE ShowForm(t)
                BY <4>1, <4>3 DEF ThreadState, AnyPage, ShowForm, Showing
            <4>4. CASE ShowOutput(t)
                BY <4>1, <4>4 DEF ThreadState, AnyPage, ShowOutput, Showing
            <4> QED BY <3>2, <4>2, <4>3, <4>4
        <3>4. Submitted(thread[t].request)' /\ initialOutput' = Due(thread[t].request)'
            BY <2>1, <3>1, <3>3 DEF Submitted, Due
        <3> QED BY <3>3, <3>4 DEF DefaultKnown
    <2> QED BY <2>2, <2>3
<1>4. ASSUME NEW t \in Thread, Reply(t)
      PROVE  DefaultKnown'
    <2>1. UNCHANGED initialOutput
        BY <1>4 DEF Reply, sites
    <2> QED BY <1>4, <2>1, ReplyStandsIn DEF DefaultKnown
<1>5. CASE Restart
    BY <1>5 DEF Restart, DefaultKnown, StandIns, outputOf, defaultRun
<1>6. ASSUME RequestsKept, UNCHANGED <<sites, thread, replies, restarts>>
      PROVE  DefaultKnown'
    <2>1. UNCHANGED initialOutput
        BY <1>6 DEF sites
    <2>2. CASE initialOutput \in StandIns
        <3>1. \A n \in DOMAIN replies : n \in DOMAIN replies' /\ requests'[n] = requests[n]
            BY <1>6 DEF RequestsKept, SharedInv, TypeOK
        <3>2. StandIns \subseteq StandIns'
            BY <1>6, <2>1, <3>1, StandInsGrow
        <3> QED BY <2>1, <2>2, <3>2 DEF DefaultKnown
    <2>3. CASE initialOutput \notin StandIns
        <3>1. PICK t \in Thread : /\ thread[t].pc \in Showing /\ Submitted(thread[t].request)
                                  /\ initialOutput = Due(thread[t].request)
            BY <2>3 DEF OneThreadInv, DefaultKnown
        <3>2. requests'[thread[t].request] = requests[thread[t].request]
            BY <1>6, <3>1, ThreadFields DEF Ready, Showing, RequestsKept
        <3>3. Submitted(thread[t].request)' /\ initialOutput' = Due(thread[t].request)'
            BY <1>6, <2>1, <3>1, <3>2 DEF Submitted, Due
        <3> QED BY <1>6, <3>1, <3>3 DEF DefaultKnown
    <2> QED BY <2>2, <2>3
<1>7. ASSUME NEW c \in Client, NEW form \in Forms, Send(c, form)
      PROVE  DefaultKnown'
    BY <1>6, <1>7, ClientsWell DEF Send
<1>8. ASSUME NEW n \in Number, Receive(n)
      PROVE  DefaultKnown'
    BY <1>6, <1>8, ClientsWell DEF Receive
<1>9. CASE UNCHANGED vars
    BY <1>6, <1>9 DEF vars, browsers, RequestsKept
<1> QED BY <1>2, <1>3, <1>4, <1>5, <1>7, <1>8, <1>9 DEF Next

LEMMA OneNext ==
    ASSUME SingleThread, SharedInv, OneThreadInv, [Next]_vars
    PROVE  OneThreadInv'
<1> SUFFICES ServedRight'
    BY OneDefault DEF OneThreadInv
<1>1. ASSUME NEW t \in Thread, Handle(t)
      PROVE  ServedRight'
    BY <1>1, OneBegins, OneAddsData, OneCallsAction, OneRuns, OneShows, OneJson, OneReplies
       DEF Handle
<1>2. ASSUME NEW c \in Client, NEW form \in Forms, Send(c, form)
      PROVE  ServedRight'
    BY <1>2, ClientsWell, OneClients DEF Send
<1>3. ASSUME NEW n \in Number, Receive(n)
      PROVE  ServedRight'
    BY <1>3, ClientsWell, OneClients DEF Receive
<1>4. CASE UNCHANGED vars
    BY <1>4, OneClients DEF vars, browsers, RequestsKept
<1> QED BY <1>1, <1>2, <1>3, <1>4, OneRestart DEF Next

\* What one thread keeps to between any two of its steps: it alone moves the
\* current session (session_manager.cpp:64-71) and the members of the sites
\* (pipe_site.cpp:94-105, json_site.cpp:20-36); and the default output, which takes
\* the place of empty ones (session.cpp:16-19, pipe_site.cpp:101-102, 126-131), is
\* that of the default pipeline or, if that is empty, of some request.
THEOREM OneThreadInvariance ==
    ASSUME SingleThread
    PROVE  Spec => []OneThreadInv
<1>1. Init => OneThreadInv
    BY OneInit
<1>2. SharedInv /\ OneThreadInv /\ [Next]_vars => OneThreadInv'
    BY OneNext
<1> QED BY <1>1, <1>2, SharedInvariance, PTL DEF Spec

\* With one thread every client gets the output of its own pipeline for its own
\* text or file, whatever comes between, unless that output is empty: then, and only
\* then, it gets the default output (pipe_site.cpp:60-62, 126-131).
THEOREM OwnAnswers ==
    ASSUME SingleThread
    PROVE  Spec => []OwnAnswer
<1>1. OneThreadInv => OwnAnswer
    BY DEF OneThreadInv, ServedRight, AnswersOK, Answers, OwnAnswer, JsonDue
<1> QED BY <1>1, OneThreadInvariance, PTL

\* With one thread the output, the link to it and the message of a page are
\* those of one run, where that run wrote anything; else the page shows the default
\* output, notes no error, and links to the empty file or to none.
THEOREM PagesConsistent ==
    ASSUME SingleThread
    PROVE  Spec => []PageConsistent
<1>1. OneThreadInv => PageConsistent
    BY DEF OneThreadInv, ServedRight, AnswersOK, Answers, PageConsistent
<1> QED BY <1>1, OneThreadInvariance, PTL

\* With one thread no session holds what another client has sent, but for the
\* default output, and that only where the default pipeline writes nothing
\* (pipe_site.cpp:101-102).
THEOREM OwnDataHolds ==
    ASSUME SingleThread
    PROVE  Spec => []OwnData
<1>1. OneThreadInv => OwnData
    BY DEF OneThreadInv, ServedRight, SessionsOwned, Owned, OwnData
<1> QED BY <1>1, OneThreadInvariance, PTL
=============================================================================
