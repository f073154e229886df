------------------------------- MODULE Server -------------------------------
(***************************************************************************)
(* The server (server/): browsers send requests, a pool of threads handles *)
(* them, and what a client typed is kept in a session that is found by a   *)
(* cookie.  The session manager, the page with the pipeline (PipeSite) and *)
(* the page with JSON are one object each, used by all threads.            *)
(*                                                                         *)
(* A request is named by its number, and so are its text, its file and the *)
(* session made for it.  A step of a thread is one call that reads or      *)
(* writes shared state; within a call nothing interleaves.  Running the    *)
(* pipeline is one step: that it ends is what PipeRunner shows.            *)
(***************************************************************************)
EXTENDS Integers, Sequences

CONSTANTS
    Client, Thread,
    Pipe, NoPipe,
    FailingPipe,       \* pipelines that throw
    EmptyRuns,         \* what is run and writes nothing
    initialPipe,       \* of the command line
    Forms,             \* what clients send
    MaxRequests, MaxRestarts  \* bounds of the model

Kind == {"view",       \* GET of a page with the form
         "static",     \* GET of a page or a file without it
         "malformed",  \* not HTTP
         "text", "file", \* POST of the form, with a text or with a file
         "json"}       \* GET json.psis?...

\* empty: the text or the file is.
Form == [kind : Kind, pipe : Pipe \cup {NoPipe}, empty : BOOLEAN]

Number == 1 .. MaxRequests
Text == 0 .. MaxRequests          \* 0: initialText_, n: that of request n
NoText == -1

\* What is run; the last: the input is a file.
Run == Pipe \X Text \X BOOLEAN

\* An output is known by what was run, unless it is the empty string.
NoOutput == <<>>

outputOf(run) == IF run \in EmptyRuns THEN NoOutput ELSE run

fails(run) == run[1] \in FailingPipe

\* Run when the server starts: initialPipe_ on initialText_.
defaultRun == <<initialPipe, 0, FALSE>>

ASSUME ServerAssumption ==
    /\ MaxRequests \in Nat /\ MaxRestarts \in Nat
    /\ NoPipe \notin Pipe
    /\ initialPipe \in Pipe
    /\ FailingPipe \subseteq Pipe
    /\ EmptyRuns \subseteq {run \in Run : ~fails(run)}  \* a message is not empty
    /\ Forms \subseteq Form

VARIABLES
    requests,          \* those sent, with the cookie they carry (0: none)
    pending,           \* the numbers of those no thread has taken
    cookies,           \* of the clients
    managerExists,     \* sessionManagerInstance_
    sessions,          \* sessions_
    currentSessionId,  \* currentSessionId_
    inputFromFile,     \* inputFromFile_
    initialOutput,     \* initialOutput_
    jsonOutput,        \* output_ of JsonSite
    thread,            \* what each thread is doing
    replies,           \* number -> what was sent back
    restarts

sites == <<inputFromFile, initialOutput, jsonOutput>>
manager == <<managerExists, sessions, currentSessionId>>
browsers == <<requests, cookies>>
vars == <<browsers, pending, manager, sites, thread, replies, restarts>>

Session == [inputText : Text \cup {NoText}, inputFile : Text \cup {NoText},
            pipeText : Pipe \cup {NoPipe}, radioFile : BOOLEAN,
            outputText : Run \cup {NoOutput}, outputFile : Run \cup {NoOutput},
            errorOccured : BOOLEAN,
            pipe : Pipe \cup {NoPipe}, input : Text \cup {NoText}]

emptySession == [inputText |-> NoText, inputFile |-> NoText, pipeText |-> NoPipe,
                 radioFile |-> FALSE, outputText |-> NoOutput, outputFile |-> NoOutput,
                 errorOccured |-> FALSE, pipe |-> NoPipe, input |-> NoText]

\* What a page shows, with the form and without.
Page == [input : Text, pipe : Pipe, output : Run \cup {NoOutput},
         file : Run \cup {NoOutput}, error : BOOLEAN]
        \cup [input : {NoText}, pipe : {NoPipe}, output : Run \cup {NoOutput},
              file : {NoOutput}, error : {FALSE}]

emptyPage == [input |-> NoText, pipe |-> NoPipe, output |-> NoOutput, file |-> NoOutput,
              error |-> FALSE]

idle == [pc |-> "idle", request |-> 0, session |-> 0, fields |-> <<>>, input |-> NoText,
         pipe |-> NoPipe, run |-> NoOutput, page |-> emptyPage]

Range_(f) == {f[x] : x \in DOMAIN f}

-----------------------------------------------------------------------------
(* Sessions                                                                *)

\* currentSession(): an unknown id gives a session that nobody else will see.
session == IF currentSessionId \in DOMAIN sessions THEN sessions[currentSessionId]
           ELSE emptySession

setData(key, value) ==
    sessions' = IF currentSessionId \in DOMAIN sessions
                THEN [sessions EXCEPT ![currentSessionId] = [@ EXCEPT ![key] = value]]
                ELSE sessions

Data(n) == IF requests[n].form.empty THEN NoText ELSE n

\* The names and values of a form, in the order of GetFieldsMap(); of a query, in
\* its own.
fieldsOf(n) ==
    LET form == requests[n].form
    IN  CASE form.kind = "text" -> <<<<"inputText", Data(n)>>, <<"pipeText", form.pipe>>>>
          [] form.kind = "file" -> <<<<"inputFile", Data(n)>>, <<"inputText", NoText>>,
                                     <<"pipeText", form.pipe>>, <<"radioFile", TRUE>>>>
          [] form.kind = "json" -> <<<<"pipe", form.pipe>>, <<"input", Data(n)>>>>
          [] OTHER -> <<>>

-----------------------------------------------------------------------------
(* Clients                                                                 *)

Init ==
    /\ requests = <<>>
    /\ pending = {}
    /\ cookies = [c \in Client |-> 0]
    /\ managerExists = FALSE
    /\ sessions = <<>>
    /\ currentSessionId = 0
    /\ inputFromFile = FALSE
    /\ initialOutput = outputOf(defaultRun)
    /\ jsonOutput = NoOutput
    /\ thread = [t \in Thread |-> idle]
    /\ replies = <<>>
    /\ restarts = 0

\* A client need not wait for the reply to an earlier request.
Send(c, form) ==
    /\ Len(requests) < MaxRequests
    /\ requests' = Append(requests, [client |-> c, cookie |-> cookies[c], form |-> form])
    /\ pending' = pending \cup {Len(requests) + 1}
    /\ UNCHANGED <<cookies, manager, sites, thread, replies, restarts>>

\* The reply arrives, in any order or never.
Receive(n) ==
    /\ n \in DOMAIN replies
    /\ replies[n].cookie # 0
    /\ cookies' = [cookies EXCEPT ![requests[n].client] = replies[n].cookie]
    /\ UNCHANGED <<requests, pending, manager, sites, thread, replies, restarts>>

-----------------------------------------------------------------------------
(* Threads: connection::handle_read and PsiRequestHandler::handle_request  *)

At(t, pc) == thread[t].pc = pc

Goto(t, pc) == thread' = [thread EXCEPT ![t].pc = pc]

Handling == UNCHANGED <<browsers, pending, replies, restarts>>

reply(t, page) ==
    LET n == thread[t].request
    IN  [output |-> page.output, page |-> page,
         cookie |-> IF thread[t].session # requests[n].cookie THEN thread[t].session ELSE 0]

Take(t, n) ==
    /\ At(t, "idle")
    /\ n \in pending
    /\ pending' = pending \ {n}
    /\ thread' = [thread EXCEPT ![t].request = n,
                     ![t].pc = IF requests[n].form.kind = "malformed" THEN "reply" ELSE "instance",
                     ![t].session = IF requests[n].form.kind = "malformed"
                                    THEN requests[n].cookie ELSE 0]
    /\ UNCHANGED <<browsers, manager, sites, replies, restarts>>

\* SessionManager::Instance() looks ...
Instance(t) ==
    /\ At(t, "instance")
    /\ Goto(t, IF managerExists THEN "session" ELSE "create")
    /\ Handling
    /\ UNCHANGED <<manager, sites>>

\* ... and makes a new one if there was none when it looked.
Create(t) ==
    /\ At(t, "create")
    /\ managerExists' = TRUE
    /\ sessions' = <<>>
    /\ currentSessionId' = 0
    /\ Goto(t, "session")
    /\ Handling
    /\ UNCHANGED sites

\* The session of the cookie, or a new one.
FindSession(t) ==
    /\ At(t, "session")
    /\ LET n  == thread[t].request
           id == IF requests[n].cookie \in DOMAIN sessions THEN requests[n].cookie ELSE n
       IN  /\ sessions' = [i \in DOMAIN sessions \cup {id} |->
                              IF i \in DOMAIN sessions THEN sessions[i] ELSE emptySession]
           /\ thread' = [thread EXCEPT ![t].session = id, ![t].pc = "current"]
    /\ Handling
    /\ UNCHANGED <<managerExists, currentSessionId, sites>>

SetCurrentSession(t) ==
    /\ At(t, "current")
    /\ currentSessionId' = thread[t].session
    /\ LET n == thread[t].request
       IN  thread' = [thread EXCEPT ![t].fields = fieldsOf(n),
                         ![t].pc = CASE requests[n].form.kind = "view" -> "options"
                                     [] requests[n].form.kind = "static" -> "reply"
                                     [] OTHER -> "fields"]
    /\ Handling
    /\ UNCHANGED <<managerExists, sessions, sites>>

\* Slip: the loop over the fields does not advance
AddData_Same(t) ==
    /\ At(t, "fields")
    /\ thread[t].fields # <<>>
    /\ LET field == Head(thread[t].fields) IN setData(field[1], field[2])
    /\ UNCHANGED <<managerExists, currentSessionId, sites, thread>>
    /\ Handling

\* addDataToCurrentSession()
AddData(t) ==
    /\ At(t, "fields")
    /\ thread[t].fields # <<>>
    /\ LET field == Head(thread[t].fields) IN setData(field[1], field[2])
    /\ thread' = [thread EXCEPT ![t].fields = Tail(@)]
    /\ UNCHANGED <<managerExists, currentSessionId, sites>>
    /\ Handling

CallAction(t) ==
    /\ At(t, "fields")
    /\ thread[t].fields = <<>>
    /\ Goto(t, IF requests[thread[t].request].form.kind = "json" THEN "json" ELSE "input")
    /\ UNCHANGED <<manager, sites>>
    /\ Handling

-----------------------------------------------------------------------------
(* PipeSite                                                                *)

\* getInput_() and getPipe_()
GetInput(t) ==
    /\ At(t, "input")
    /\ LET given == IF session.radioFile THEN session.inputFile ELSE session.inputText
       IN  thread' = [thread EXCEPT ![t].input = IF given = NoText THEN 0 ELSE given,
                         ![t].pipe = IF session.pipeText = NoPipe THEN initialPipe
                                     ELSE session.pipeText,
                         ![t].pc = "prepare"]
    /\ inputFromFile' = session.radioFile
    /\ UNCHANGED <<manager, initialOutput, jsonOutput>>
    /\ Handling

\* preparePipelineAndInput_(): what becomes of the input depends on the field.
Prepare(t) ==
    /\ At(t, "prepare")
    /\ thread' = [thread EXCEPT ![t].run = <<thread[t].pipe, thread[t].input, inputFromFile>>,
                     ![t].pc = "clear"]
    /\ UNCHANGED <<manager, sites>>
    /\ Handling

\* Slip: the link to the previous file stays
ClearPreviousFile_Error(t) ==
    /\ At(t, "clear")
    /\ setData("errorOccured", FALSE)
    /\ Goto(t, "run")
    /\ UNCHANGED <<managerExists, currentSessionId, sites>>
    /\ Handling

\* clearPreviousFileFromOutput_()
ClearPreviousFile(t) ==
    /\ At(t, "clear")
    /\ sessions' = IF currentSessionId \in DOMAIN sessions
                   THEN [sessions EXCEPT ![currentSessionId].outputFile = NoOutput,
                                         ![currentSessionId].errorOccured = FALSE]
                   ELSE sessions
    /\ Goto(t, "run")
    /\ UNCHANGED <<managerExists, currentSessionId, sites>>
    /\ Handling

\* The rest of runPipe_(): the output is stored in a file of its own, though it may
\* be empty, or the error is noted and its message is the output.
RunPipe(t) ==
    /\ At(t, "run")
    /\ IF fails(thread[t].run) THEN setData("errorOccured", TRUE)
       ELSE setData("outputFile", thread[t].run)
    /\ Goto(t, "save")
    /\ UNCHANGED <<managerExists, currentSessionId, sites>>
    /\ Handling

\* Slip: the default output is the last one
newInitialOutput_Last(output) == IF output = NoOutput THEN initialOutput ELSE output

newInitialOutput(output) == IF initialOutput = NoOutput THEN output ELSE initialOutput

\* The rest of actionPipe()
SaveOutput(t) ==
    /\ At(t, "save")
    /\ setData("outputText", outputOf(thread[t].run))
    /\ initialOutput' = newInitialOutput(outputOf(thread[t].run))
    /\ Goto(t, "options")
    /\ UNCHANGED <<managerExists, currentSessionId, inputFromFile, jsonOutput>>
    /\ Handling

\* Slip: the choice of a file stays
HiddenOptions_Keep(t) ==
    /\ At(t, "options")
    /\ thread' = [thread EXCEPT ![t].page.file = session.outputFile,
                                ![t].page.error = session.errorOccured, ![t].pc = "form"]
    /\ UNCHANGED <<manager, sites>>
    /\ Handling

\* hiddenOptions(), with which a page begins
HiddenOptions(t) ==
    /\ At(t, "options")
    /\ thread' = [thread EXCEPT ![t].page.file = session.outputFile,
                                ![t].page.error = session.errorOccured, ![t].pc = "form"]
    /\ setData("radioFile", FALSE)
    /\ UNCHANGED <<managerExists, currentSessionId, sites>>
    /\ Handling

\* Slip: an empty field is shown as it was
orDefault_Old(value, none, default) == value

\* getOrSetDefaultData_(): isData() does not tell an empty value from none.
orDefault(value, none, default) == IF value = none THEN default ELSE value

\* pipeText() and inputText()
ShowForm(t) ==
    LET pipe  == orDefault(session.pipeText, NoPipe, initialPipe)
        input == orDefault(session.inputText, NoText, 0)
    IN  /\ At(t, "form")
        /\ sessions' = IF currentSessionId \in DOMAIN sessions
                       THEN [sessions EXCEPT ![currentSessionId].pipeText = pipe,
                                             ![currentSessionId].inputText = input]
                       ELSE sessions
        /\ thread' = [thread EXCEPT ![t].page.pipe = pipe, ![t].page.input = input,
                                    ![t].pc = "output"]
        /\ UNCHANGED <<managerExists, currentSessionId, sites>>
        /\ Handling

\* outputText()
ShowOutput(t) ==
    LET output == orDefault(session.outputText, NoOutput, initialOutput)
    IN  /\ At(t, "output")
        /\ setData("outputText", output)
        /\ thread' = [thread EXCEPT ![t].page.output = output, ![t].pc = "reply"]
        /\ UNCHANGED <<managerExists, currentSessionId, sites>>
        /\ Handling

-----------------------------------------------------------------------------
(* JsonSite                                                                *)

\* actionJson(), up to the run: it begins by emptying output_.
JsonStart(t) ==
    /\ At(t, "json")
    /\ jsonOutput' = NoOutput
    /\ thread' = [thread EXCEPT ![t].pipe = session.pipe, ![t].input = session.input,
                                ![t].pc = "jsonrun"]
    /\ UNCHANGED <<manager, inputFromFile, initialOutput>>
    /\ Handling

\* An empty pipeline throws; what is run on an empty text is not told apart from that.
\* The pipeline and the text are in the answer beside the output, which may be empty.
JsonRun(t) ==
    /\ At(t, "jsonrun")
    /\ jsonOutput' = IF thread[t].pipe = NoPipe \/ thread[t].input = NoText THEN NoOutput
                     ELSE <<thread[t].pipe, thread[t].input, FALSE>>
    /\ Goto(t, "jsonpage")
    /\ UNCHANGED <<manager, inputFromFile, initialOutput>>
    /\ Handling

\* jsonOutput(), included in json.html
JsonPage(t) ==
    /\ At(t, "jsonpage")
    /\ thread' = [thread EXCEPT ![t].page.output = jsonOutput, ![t].pc = "reply"]
    /\ UNCHANGED <<manager, sites>>
    /\ Handling

-----------------------------------------------------------------------------
\* async_write(); a cookie is set if the request carried none that is known.
Reply(t) ==
    /\ At(t, "reply")
    /\ LET n == thread[t].request
       IN  replies' = [m \in DOMAIN replies \cup {n} |->
                          IF m = n THEN reply(t, thread[t].page) ELSE replies[m]]
    /\ thread' = [thread EXCEPT ![t] = idle]
    /\ UNCHANGED <<browsers, pending, manager, sites, restarts>>

\* The server is stopped and started again: only the files and what the browsers
\* hold remain, and connections are lost.
Restart ==
    /\ restarts < MaxRestarts
    /\ restarts' = restarts + 1
    /\ pending' = {}
    /\ managerExists' = FALSE
    /\ sessions' = <<>>
    /\ currentSessionId' = 0
    /\ inputFromFile' = FALSE
    /\ initialOutput' = outputOf(defaultRun)
    /\ jsonOutput' = NoOutput
    /\ thread' = [t \in Thread |-> idle]
    /\ UNCHANGED <<browsers, replies>>

Handle(t) ==
    \/ \E n \in pending : Take(t, n)
    \/ Instance(t) \/ Create(t) \/ FindSession(t) \/ SetCurrentSession(t)
    \/ AddData(t) \/ CallAction(t)
    \/ GetInput(t) \/ Prepare(t) \/ ClearPreviousFile(t) \/ RunPipe(t) \/ SaveOutput(t)
    \/ HiddenOptions(t) \/ ShowForm(t) \/ ShowOutput(t)
    \/ JsonStart(t) \/ JsonRun(t) \/ JsonPage(t)
    \/ Reply(t)

Next ==
    \/ \E c \in Client, form \in Forms : Send(c, form)
    \/ \E n \in Number : Receive(n)
    \/ \E t \in Thread : Handle(t)
    \/ Restart

\* io_service::run() goes on while there is something to do.
Spec == Init /\ [][Next]_vars
FairSpec == Spec /\ \A t \in Thread : WF_vars(Handle(t))

-----------------------------------------------------------------------------
(* Properties                                                              *)

TypeOK ==
    /\ requests \in Seq([client : Client, cookie : {0} \cup Number, form : Form])
    /\ pending \subseteq DOMAIN requests
    /\ cookies \in [Client -> {0} \cup Number]
    /\ managerExists \in BOOLEAN
    /\ DOMAIN sessions \subseteq Number
    /\ Range_(sessions) \subseteq Session
    /\ currentSessionId \in {0} \cup Number
    /\ inputFromFile \in BOOLEAN
    /\ {initialOutput, jsonOutput} \subseteq Run \cup {NoOutput}
    /\ DOMAIN replies \subseteq DOMAIN requests
    /\ \A n \in DOMAIN replies : /\ replies[n].page \in Page
                                 /\ replies[n].cookie \in {0} \cup Number
    /\ restarts \in 0 .. MaxRestarts

Submitted(n) == requests[n].form.kind \in {"text", "file"}

\* The output that the form of request n calls for.
Due(n) ==
    LET form == requests[n].form
    IN  <<IF form.pipe = NoPipe THEN initialPipe ELSE form.pipe,
          IF form.empty THEN 0 ELSE n,
          form.kind = "file">>

\* What is shown where there is no output, or an empty one: the default output.
\* Where the default pipeline writes nothing either, that is nothing, or an output
\* that somebody was given for a request: always the same one before any restart.
StandIns ==
    IF defaultRun \notin EmptyRuns THEN {defaultRun}
    ELSE {NoOutput} \cup
         {output \in {Due(m) : m \in {k \in DOMAIN replies : Submitted(k)}} \ EmptyRuns :
             restarts = 0 => output = initialOutput}

\* Whoever submits a pipeline and a text or a file gets the output of that
\* pipeline for that text, whatever other requests came between and whatever the
\* session held before (server/t/pipe_site_test.rb:46-66, json_site_test.rb:29-37);
\* an empty output is replaced by the default one, never by an earlier output of
\* the session.
OwnAnswer ==
    \A n \in DOMAIN replies :
        /\ Submitted(n) => replies[n].page.output \in
                              IF Due(n) \in EmptyRuns THEN StandIns ELSE {Due(n)}
        /\ requests[n].form.kind = "json" /\ requests[n].form.pipe # NoPipe /\ ~requests[n].form.empty
           => replies[n].page.output = <<requests[n].form.pipe, n, FALSE>>

\* A page that notes an error shows its message and offers nothing for download;
\* what another page offers is what it shows, unless that is empty; and where there
\* is nothing to show, the default output is shown and no error noted.
PageConsistent ==
    \A n \in DOMAIN replies :
        LET page == replies[n].page
        IN  requests[n].form.kind \in {"view", "text", "file"} =>
                IF page.error
                THEN page.file = NoOutput /\ page.output # NoOutput /\ fails(page.output)
                ELSE page.output \in IF page.file \in EmptyRuns \cup {NoOutput} THEN StandIns
                                     ELSE {page.file}

\* Texts that client c has sent.
TextsOf(c) == {0, NoText} \cup {n \in DOMAIN requests : requests[n].client = c}

\* A session holds what its client sent, and nothing of others, although the
\* sites keep the same fields for all of them (session_manager.cpp:64-71,
\* pipe_site.cpp:94-105).  Only where the default pipeline writes nothing the
\* output of one request becomes that of all sessions without one.
OwnData ==
    \A id \in DOMAIN sessions :
        LET c == requests[id].client
            output == sessions[id].outputText
        IN  /\ {sessions[id].inputText, sessions[id].inputFile, sessions[id].input} \subseteq TextsOf(c)
            /\ output # NoOutput =>
                  \/ output[2] \in TextsOf(c)
                  \/ defaultRun \in EmptyRuns /\ output = initialOutput
            /\ sessions[id].outputFile # NoOutput => sessions[id].outputFile[2] \in TextsOf(c)

Lost(n) == n \notin pending /\ n \notin DOMAIN replies /\ \A t \in Thread : thread[t].request # n

\* Every request is answered, unless a restart cut its connection.
Answered ==
    \A n \in Number : n \in pending ~> n \in DOMAIN replies \/ (Lost(n) /\ restarts > 0)
=============================================================================
