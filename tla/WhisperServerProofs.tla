------------------------ MODULE WhisperServerProofs ------------------------
(***************************************************************************)
(* The safety of the server for any number of requests, workers and models. *)
(* The inductive invariant adds to the properties who holds the mutex,     *)
(* that a queued request is in no handler, and that a context is missing   *)
(* only while a /load handler is making one.                               *)
(***************************************************************************)
EXTENDS WhisperServer, TLAPS

\* Where a handler holds whisper_mutex.
Holding == {"checked", "converting", "reading", "inferring", "replying", "loading", "initialising"}

\* A handler that is past its first statement holds the mutex.
MutexHeld == \A r \in Requests : pc[r] \in Holding => whisper_mutex = r

\* A queued request is queued once and in no handler.
QueuedOnce ==
    /\ \A i \in 1..Len(jobs) : pc[jobs[i]] = "queued"
    /\ \A i, j \in 1..Len(jobs) : i # j => jobs[i] # jobs[j]

\* Nothing is served before the model is loaded.
NothingBeforeStart ==
    phase = "starting" => server_state = "loading" /\ \A r \in Requests : pc[r] = "client"

\* The steps of /load are those of a /load request, and the state says that it is loading.
LoadHandlers ==
    \A r \in Requests : pc[r] \in {"loading", "initialising"} => kind[r] = "load" /\ server_state = "loading"

\* Without a context there is a handler that makes one.
MissingMeansInitialising ==
    (phase \in {"running", "stopping"} /\ ctx.model = None) => \E r \in Requests : pc[r] = "initialising"

\* A request that was not accepted has no status, one whose handler returned has one.
StatusWhenAnswered ==
    \A r \in Requests : (pc[r] = "client" => status[r] = 0) /\ (pc[r] = "answered" => status[r] # 0)

IInv ==
    /\ ServerTypeOK
    /\ MutexHeld
    /\ QueuedOnce
    /\ NothingBeforeStart
    /\ LoadHandlers
    /\ MissingMeansInitialising
    /\ StatusWhenAnswered
    /\ ReadyMeansLoaded

\* What ServerAssumption says of None.
NoneFacts == None \notin Requests /\ None \notin Models

\* The null value is none of the requests.
LEMMA Facts == NoneFacts /\ Requests \subseteq Nat
  BY ServerAssumption DEF NoneFacts, Requests

\* IInv implies ContextAlive: a handler that uses the context holds the mutex, so no
\* /load handler is making a new one.
LEMMA Alive == IInv => ContextAlive
  <1> SUFFICES ASSUME IInv, NEW r \in Requests, phase # "exited", pc[r] \in {"inferring", "replying"}
               PROVE  ctx.model # None
    BY DEF ContextAlive
  <1>1. phase \in {"running", "stopping"}
    BY DEF IInv, ServerTypeOK, NothingBeforeStart
  <1>2. SUFFICES ASSUME ctx.model = None PROVE FALSE
    OBVIOUS
  <1>3. PICK q \in Requests : pc[q] = "initialising"
    BY <1>1, <1>2 DEF IInv, MissingMeansInitialising
  <1>4. whisper_mutex = q /\ whisper_mutex = r
    BY <1>3 DEF IInv, MutexHeld, Holding
  <1> QED
    BY <1>3, <1>4

\* The server starts in the invariant.
LEMMA InitIInv == Init => IInv
  BY Facts DEF Init, IInv, ServerTypeOK, MutexHeld, Holding, QueuedOnce, NothingBeforeStart, LoadHandlers,
     MissingMeansInitialising, StatusWhenAnswered, ReadyMeansLoaded, NoResult, NoneFacts, InHandler, Kinds

\* The steps of main.
LEMMA MainSteps ==
    ASSUME IInv, (\E m \in Models : StartUp(m)) \/ StartUpFails \/ Signal \/ SecondSignal \/ CleanUp
    PROVE  IInv'
  <1> USE Facts DEF NoneFacts
  <1> USE DEF IInv, ServerTypeOK, MutexHeld, Holding, QueuedOnce, NothingBeforeStart, LoadHandlers,
      MissingMeansInitialising, StatusWhenAnswered, ReadyMeansLoaded, InHandler
  <1>1. ASSUME NEW m \in Models, StartUp(m) PROVE IInv'
    BY <1>1 DEF StartUp
  <1>2. CASE StartUpFails
    BY <1>2 DEF StartUpFails, Exit
  <1>3. CASE Signal
    BY <1>3 DEF Signal
  <1>4. CASE SecondSignal
    BY <1>4 DEF SecondSignal, Exit
  <1>5. CASE CleanUp
    <2>1. ctx' \in [model : Models \cup {None}, result : Requests \cup {None}]
      BY <1>5 DEF CleanUp
    <2> QED
      BY <1>5, <2>1 DEF CleanUp, Exit
  <1> QED
    BY <1>1, <1>2, <1>3, <1>4, <1>5

\* The steps of the pool.
LEMMA PoolSteps ==
    ASSUME IInv, NEW r \in Requests,
           \/ \E k \in Kinds : Accept(r, k)
           \/ \E to \in {"entered", "dropped"} : Take(r, to)
           \/ Disconnect(r)
           \/ Respond(r)
    PROVE  IInv'
  <1> USE Facts DEF NoneFacts
  <1> USE DEF IInv, ServerTypeOK, MutexHeld, Holding, QueuedOnce, NothingBeforeStart, LoadHandlers,
      MissingMeansInitialising, StatusWhenAnswered, ReadyMeansLoaded, InHandler
  <1>1. ASSUME NEW k \in Kinds, Accept(r, k) PROVE IInv'
    <2>1. QueuedOnce'
      BY <1>1 DEF Accept, Go
    <2>2. MissingMeansInitialising'
      BY <1>1 DEF Accept, Go
    <2> QED
      BY <1>1, <2>1, <2>2 DEF Accept, Go
  <1>2. ASSUME NEW to \in {"entered", "dropped"}, Take(r, to) PROVE IInv'
    <2>1. pc[r] = "queued" /\ jobs # <<>> /\ r = jobs[1]
      BY <1>2 DEF Take
    <2>2. jobs' \in Seq(Requests) /\ Len(jobs') = Len(jobs) - 1
          /\ \A i \in 1..Len(jobs') : jobs'[i] = jobs[i + 1] /\ jobs'[i] # r
      BY <1>2, <2>1 DEF Take
    <2>3. QueuedOnce'
      BY <1>2, <2>1, <2>2 DEF Take, Go
    <2>4. MissingMeansInitialising'
      BY <1>2, <2>1 DEF Take, Go, Running
    <2> QED
      BY <1>2, <2>1, <2>2, <2>3, <2>4 DEF Take, Go, Running
  <1>3. CASE Disconnect(r)
    BY <1>3 DEF Disconnect
  <1>4. CASE Respond(r)
    <2>a. status[r] \in {200, 400, 499, 500, 503, 404}
      BY <1>4 DEF Respond
    <2>1. error_handler(status[r]) \in {200, 400, 404, 500}
      BY <2>a DEF error_handler
    <2>2. MissingMeansInitialising'
      BY <1>4 DEF Respond, Go
    <2> QED
      BY <1>4, <2>1, <2>2 DEF Respond, Go, Running
  <1> QED
    BY <1>1, <1>2, <1>3, <1>4

\* The steps of the handlers.  Each is a step of one request in a handler; what they have in
\* common is that nothing is queued or accepted by it.
LEMMA HandlerSteps ==
    ASSUME IInv, NEW r \in Requests, Inference(r) \/ Load(r) \/ Health(r)
    PROVE  IInv'
  <1> USE Facts DEF NoneFacts
  <1> USE DEF IInv, ServerTypeOK, MutexHeld, Holding, QueuedOnce, NothingBeforeStart, LoadHandlers,
      MissingMeansInitialising, StatusWhenAnswered, ReadyMeansLoaded, InHandler, Running, Go, Return
  <1>1. CASE InferenceEnter(r)
    BY <1>1 DEF InferenceEnter, Acquire
  <1>2. ASSUME NEW code \in {400, 500}, BadRequest(r, code) PROVE IInv'
    BY <1>2 DEF BadRequest
  <1>3. CASE WriteTempFile(r)
    BY <1>3 DEF WriteTempFile
  <1>4. CASE Convert(r)
    BY <1>4 DEF Convert
  <1>5. ASSUME NEW left \in LeftBehind, ConvertFails(r, left) PROVE IInv'
    BY <1>5 DEF ConvertFails, LeftBehind
  <1>6. CASE ReadAudio(r)
    BY <1>6 DEF ReadAudio
  <1>7. CASE ReadFails(r)
    BY <1>7 DEF ReadFails
  <1>8. CASE Infer(r)
    <2>1. ctx' \in [model : Models \cup {None}, result : Requests \cup {None}] /\ ctx'.model = ctx.model
      BY <1>8 DEF Infer
    <2>2. MissingMeansInitialising'
      BY <1>8, <2>1 DEF Infer
    <2> QED
      BY <1>8, <2>1, <2>2 DEF Infer
  <1>9. CASE NoSpeech(r)
    <2>1. ctx' \in [model : Models \cup {None}, result : Requests \cup {None}] /\ ctx'.model = ctx.model
      BY <1>9 DEF NoSpeech
    <2>2. MissingMeansInitialising'
      BY <1>9, <2>1 DEF NoSpeech
    <2> QED
      BY <1>9, <2>1, <2>2 DEF NoSpeech
  <1>10. CASE InferFails(r)
    <2>1. ctx' \in [model : Models \cup {None}, result : Requests \cup {None}] /\ ctx'.model = ctx.model
      BY <1>10 DEF InferFails
    <2>2. MissingMeansInitialising'
      BY <1>10, <2>1 DEF InferFails
    <2> QED
      BY <1>10, <2>1, <2>2 DEF InferFails
  <1>11. CASE Reply(r)
    BY <1>11 DEF Reply
  <1>12. CASE LoadEnter(r)
    BY <1>12 DEF LoadEnter, Acquire
  <1>13. CASE LoadRejected(r)
    BY <1>13 DEF LoadRejected
  <1>14. CASE LoadFree(r)
    BY <1>14 DEF LoadFree
  <1>15. ASSUME NEW m \in Models, LoadInit(r, m) PROVE IInv'
    BY <1>15 DEF LoadInit
  <1>16. CASE LoadFails(r)
    BY <1>16 DEF LoadFails, Exit
  <1>17. CASE Health(r)
    BY <1>17 DEF Health
  <1> QED
    BY <1>1, <1>2, <1>3, <1>4, <1>5, <1>6, <1>7, <1>8, <1>9, <1>10, <1>11, <1>12, <1>13, <1>14, <1>15,
       <1>16, <1>17 DEF Inference, Load

\* IInv is inductive.
THEOREM ServerInvariance == Spec => []IInv
  <1>1. ASSUME IInv, [Next]_vars PROVE IInv'
    <2>1. CASE UNCHANGED vars
      BY <1>1, <2>1 DEF vars, IInv, ServerTypeOK, MutexHeld, QueuedOnce, NothingBeforeStart, LoadHandlers,
         MissingMeansInitialising, StatusWhenAnswered, ReadyMeansLoaded
    <2>2. CASE Next
      BY <1>1, <2>2, MainSteps, PoolSteps, HandlerSteps, Zenon DEF Next, Serve
    <2> QED
      BY <1>1, <2>1, <2>2
  <1> QED
    BY <1>1, InitIInv, PTL DEF Spec

\* Type correctness of the server, and that a status which was sent is 200, 400, 404 or 500.
THEOREM ServerTypeCorrect == Spec => []ServerTypeOK
  BY ServerInvariance, PTL DEF IInv

\* /health says "ok" only while there is a context, whatever /load, the signals and the
\* end of main do.
THEOREM HealthTruthful == Spec => []ReadyMeansLoaded
  BY ServerInvariance, PTL DEF IInv

\* No handler uses a context that /load or the end of main has freed.
THEOREM ContextOutlivesUsers == Spec => []ContextAlive
  BY ServerInvariance, Alive, PTL

-----------------------------------------------------------------------------
(* On one processor replies are not mixed up.                              *)

\* Between the inference and the reply the context holds the results of the request.
ResultsKept == \A r \in Requests : pc[r] = "replying" => ctx.result = r

\* The results are written and read under the mutex: no step of another request comes
\* between, and on one processor a call that succeeds has written them.
LEMMA OwnStep ==
    ASSUME NProcessors = 1, IInv, ResultsKept, OwnResults, [Next]_vars
    PROVE  ResultsKept' /\ OwnResults'
  <1> USE Facts DEF NoneFacts, ResultsKept, OwnResults
  <1>t. ServerTypeOK /\ MutexHeld /\ NothingBeforeStart /\ LoadHandlers /\ StatusWhenAnswered /\ ContextAlive
    BY Alive DEF IInv
  <1>m. \A q, r \in Requests : pc[r] \in Holding /\ pc[q] = "replying" => q = r
    BY <1>t DEF MutexHeld, Holding
  <1>1. CASE UNCHANGED vars
    BY <1>1 DEF vars
  <1>2. ASSUME NEW m \in Models, StartUp(m) PROVE ResultsKept' /\ OwnResults'
    BY <1>2, <1>t DEF StartUp, NothingBeforeStart
  <1>3. CASE StartUpFails \/ Signal \/ SecondSignal \/ CleanUp
    BY <1>3 DEF StartUpFails, Signal, SecondSignal, CleanUp
  <1> USE DEF Go, Return, Running
  <1>4. ASSUME NEW r \in Requests, NEW k \in Kinds, Accept(r, k) PROVE ResultsKept' /\ OwnResults'
    BY <1>4, <1>t DEF Accept, ServerTypeOK, StatusWhenAnswered
  <1>5. ASSUME NEW r \in Requests, NEW to \in {"entered", "dropped"}, Take(r, to) PROVE ResultsKept' /\ OwnResults'
    BY <1>5, <1>t DEF Take, ServerTypeOK
  <1>6. ASSUME NEW r \in Requests, Disconnect(r) PROVE ResultsKept' /\ OwnResults'
    BY <1>6 DEF Disconnect
  <1>7. ASSUME NEW r \in Requests, Respond(r) PROVE ResultsKept' /\ OwnResults'
    <2>1. status[r] \in Int /\ status[r] # 200 => error_handler(status[r]) # 200
      BY DEF error_handler
    <2>2. status[r] \in Int
      BY <1>t DEF ServerTypeOK
    <2> QED
      BY <1>7, <1>t, <2>1, <2>2 DEF Respond, ServerTypeOK
  <1>8. ASSUME NEW r \in Requests, Inference(r) PROVE ResultsKept' /\ OwnResults'
    <2>1. CASE InferenceEnter(r) \/ WriteTempFile(r) \/ Convert(r) \/ ReadAudio(r)
      BY <2>1, <1>t DEF InferenceEnter, Acquire, WriteTempFile, Convert, ReadAudio, ServerTypeOK
    <2>2. CASE (\E code \in {400, 500} : BadRequest(r, code)) \/ (\E left \in LeftBehind : ConvertFails(r, left)) \/ ReadFails(r)
      BY <2>2, <1>t DEF BadRequest, ConvertFails, ReadFails, ServerTypeOK
    <2>3. CASE Infer(r) \/ NoSpeech(r)
      BY <2>3, <1>t, <1>m DEF Infer, NoSpeech, ServerTypeOK, Holding
    <2>4. CASE InferFails(r)
      <3>1. pc[r] = "inferring" /\ pc' = [pc EXCEPT ![r] = "answered"]
        BY <2>4 DEF InferFails
      <3>2. \A q \in Requests : q # r => status'[q] = status[q]
        BY <2>4, <1>t DEF InferFails, ServerTypeOK
      <3>3. status'[r] # 200 /\ UNCHANGED <<kind, body>>
        BY <2>4, <1>t DEF InferFails, ServerTypeOK
      <3>4. OwnResults'
        BY <3>2, <3>3
      <3>5. \A q \in Requests : pc'[q] # "replying"
        BY <3>1, <1>m, <1>t DEF ServerTypeOK, Holding
      <3> QED
        BY <3>4, <3>5
    <2>5. CASE Reply(r)
      <3>1. ctx.model # None
        BY <2>5, <1>t DEF Reply, ContextAlive
      <3> QED
        BY <2>5, <3>1, <1>t DEF Reply, ServerTypeOK
    <2> QED
      BY <1>8, <2>1, <2>2, <2>3, <2>4, <2>5 DEF Inference
  <1>9. ASSUME NEW r \in Requests, Load(r) PROVE ResultsKept' /\ OwnResults'
    <2>1. CASE LoadEnter(r) \/ LoadFails(r) \/ LoadRejected(r)
      BY <2>1, <1>t DEF LoadEnter, Acquire, LoadFails, LoadRejected, ServerTypeOK
    <2>2. CASE LoadFree(r)
      BY <2>2, <1>t, <1>m DEF LoadFree, ServerTypeOK, Holding
    <2>3. ASSUME NEW m \in Models, LoadInit(r, m) PROVE ResultsKept' /\ OwnResults'
      BY <2>3, <1>t, <1>m DEF LoadInit, ServerTypeOK, Holding, LoadHandlers
    <2> QED
      BY <1>9, <2>1, <2>2, <2>3 DEF Load
  <1>10. ASSUME NEW r \in Requests, Health(r) PROVE ResultsKept' /\ OwnResults'
    BY <1>10, <1>t DEF Health, ServerTypeOK
  <1> HIDE DEF ResultsKept, OwnResults, Go, Return, Running
  <1> QED
    BY <1>1, <1>2, <1>3, <1>4, <1>5, <1>6, <1>7, <1>8, <1>9, <1>10 DEF Next, Serve

\* With one processor a client never gets the transcription of another request, nor one
\* made without a model.
THEOREM RepliesNotMixed == ASSUME NProcessors = 1 PROVE Spec => []OwnResults
  <1>1. Init => ResultsKept /\ OwnResults
    BY DEF Init, ResultsKept, OwnResults
  <1>2. ASSUME IInv, ResultsKept /\ OwnResults, [Next]_vars PROVE (ResultsKept /\ OwnResults)'
    BY <1>2, OwnStep
  <1> QED
    BY <1>1, <1>2, ServerInvariance, PTL DEF Spec
-----------------------------------------------------------------------------
(* Temporary files.                                                        *)

\* A file belongs to a request that is being converted or read, or to one whose
\* conversion failed and that was answered with 500.
FilesAccounted ==
    \A f \in files :
        \/ pc[f[1]] \in {"converting", "reading"} /\ f[2] = "wav"
        \/ pc[f[1]] \in {"answered", "done"} /\ status[f[1]] = 500

\* A step that creates no file and ends no request with one keeps the account.
LEMMA FilesKept ==
    ASSUME ServerTypeOK, FilesAccounted, NEW r \in Requests, NEW to,
           files' \subseteq files, pc' = [pc EXCEPT ![r] = to],
           \A q \in Requests : q # r => status'[q] = status[q],
           \/ pc[r] \in {"converting", "reading"} /\ to \in {"converting", "reading"}
           \/ \A f \in files' : f[1] # r
    PROVE  FilesAccounted'
  <1> SUFFICES ASSUME NEW f \in files'
               PROVE  \/ pc'[f[1]] \in {"converting", "reading"} /\ f[2] = "wav"
                      \/ pc'[f[1]] \in {"answered", "done"} /\ status'[f[1]] = 500
    BY DEF FilesAccounted
  <1>1. f \in files /\ f[1] \in Requests
    BY DEF ServerTypeOK
  <1>2. CASE f[1] # r
    BY <1>1, <1>2 DEF FilesAccounted, ServerTypeOK
  <1>3. CASE f[1] = r
    BY <1>1, <1>3 DEF FilesAccounted, ServerTypeOK
  <1> QED
    BY <1>2, <1>3

\* What a handler that returns does to the status and to pc.
LEMMA ReturnFacts ==
    ASSUME ServerTypeOK, NEW r \in Requests, NEW code, Return(r, code)
    PROVE  /\ pc' = [pc EXCEPT ![r] = "answered"] /\ pc'[r] = "answered" /\ status'[r] = code
           /\ \A q \in Requests : q # r => status'[q] = status[q] /\ pc'[q] = pc[q]
  <1>1. DOMAIN status = Requests /\ DOMAIN pc = Requests
    BY DEF ServerTypeOK
  <1> QED
    BY <1>1, Zenon DEF Return

\* Every step keeps the account of the files.
LEMMA FilesStep == ASSUME IInv, FilesAccounted, [Next]_vars PROVE FilesAccounted'
  <1>t. ServerTypeOK
    BY DEF IInv
  <1>n. \A q \in Requests : pc[q] \notin {"converting", "reading", "answered", "done"} => \A f \in files : f[1] # q
    BY DEF FilesAccounted
  <1>1. CASE UNCHANGED vars
    BY <1>1 DEF vars, FilesAccounted
  <1>2. CASE (\E m \in Models : StartUp(m)) \/ StartUpFails \/ Signal \/ SecondSignal \/ CleanUp
    BY <1>2 DEF StartUp, StartUpFails, Signal, SecondSignal, CleanUp, FilesAccounted
  <1>3. ASSUME NEW r \in Requests, NEW k \in Kinds, Accept(r, k) PROVE FilesAccounted'
    BY <1>3, <1>t, <1>n, FilesKept DEF Accept, Go
  <1>4. ASSUME NEW r \in Requests, NEW to \in {"entered", "dropped"}, Take(r, to) PROVE FilesAccounted'
    <2>1. pc[r] = "queued"
      BY <1>4 DEF Take, IInv, QueuedOnce, ServerTypeOK
    <2> QED
      BY <1>4, <2>1, <1>t, <1>n, FilesKept DEF Take, Go
  <1>5. ASSUME NEW r \in Requests, Disconnect(r) PROVE FilesAccounted'
    BY <1>5 DEF Disconnect, FilesAccounted
  <1>6. ASSUME NEW r \in Requests, Respond(r) PROVE FilesAccounted'
    <2>1. error_handler(500) = 500
      BY DEF error_handler
    <2> QED
      BY <1>6, <2>1, <1>t DEF Respond, Go, FilesAccounted, ServerTypeOK
  <1>7. ASSUME NEW r \in Requests, Inference(r) PROVE FilesAccounted'
    <2>1. CASE InferenceEnter(r)
      BY <2>1, <1>t, <1>n, FilesKept DEF InferenceEnter, Acquire, Go
    <2>2. ASSUME NEW code \in {400, 500}, BadRequest(r, code) PROVE FilesAccounted'
      BY <2>2, <1>t, <1>n, FilesKept, ReturnFacts DEF BadRequest
    <2>3. CASE WriteTempFile(r)
      BY <2>3, <1>t, <1>n DEF WriteTempFile, Go, FilesAccounted, ServerTypeOK
    <2>4. CASE Convert(r)
      BY <2>4, <1>t, FilesKept DEF Convert, Go
    <2>5. ASSUME NEW left \in LeftBehind, ConvertFails(r, left) PROVE FilesAccounted'
      <3>1. \A f \in files' : f \in files \/ f[1] = r
        BY <2>5 DEF ConvertFails
      <3>2. /\ pc'[r] = "answered" /\ status'[r] = 500
            /\ \A q \in Requests : q # r => status'[q] = status[q] /\ pc'[q] = pc[q]
        BY <2>5, <1>t, ReturnFacts DEF ConvertFails
      <3>3. \A f \in files : f[1] \in Requests
        BY <1>t DEF ServerTypeOK
      <3> QED
        BY <3>1, <3>2, <3>3 DEF FilesAccounted
    <2>6. ASSUME ReadAudio(r) \/ ReadFails(r) PROVE FilesAccounted'
      <3>1. \A f \in files' : f[1] # r
        BY <2>6, <1>t, <1>n DEF ReadAudio, ReadFails, FilesAccounted, ServerTypeOK
      <3> QED
        BY <2>6, <3>1, <1>t, FilesKept, ReturnFacts DEF ReadAudio, ReadFails, Go
    <2>7. CASE Infer(r) \/ NoSpeech(r)
      BY <2>7, <1>t, <1>n, FilesKept DEF Infer, NoSpeech, Go
    <2>8. CASE InferFails(r)
      BY <2>8, <1>t, <1>n, FilesKept, ReturnFacts DEF InferFails
    <2>9. CASE Reply(r)
      BY <2>9, <1>t, <1>n, FilesKept, ReturnFacts DEF Reply
    <2> QED
      BY <1>7, <2>1, <2>2, <2>3, <2>4, <2>5, <2>6, <2>7, <2>8, <2>9 DEF Inference
  <1>8. ASSUME NEW r \in Requests, Load(r) PROVE FilesAccounted'
    <2>1. CASE LoadEnter(r) \/ LoadFree(r)
      BY <2>1, <1>t, <1>n, FilesKept DEF LoadEnter, Acquire, LoadFree, Go
    <2>2. CASE LoadRejected(r)
      BY <2>2, <1>t, <1>n, FilesKept, ReturnFacts DEF LoadRejected
    <2>3. ASSUME NEW m \in Models, LoadInit(r, m) PROVE FilesAccounted'
      BY <2>3, <1>t, <1>n, FilesKept, ReturnFacts DEF LoadInit
    <2>4. CASE LoadFails(r)
      BY <2>4 DEF LoadFails, FilesAccounted
    <2> QED
      BY <1>8, <2>1, <2>2, <2>3, <2>4 DEF Load
  <1>9. ASSUME NEW r \in Requests, Health(r) PROVE FilesAccounted'
    <2>1. \A q \in Requests : q # r => status'[q] = status[q]
      <3>1. PICK code : status' = [status EXCEPT ![r] = code]
        BY <1>9 DEF Health
      <3> QED
        BY <3>1, <1>t DEF ServerTypeOK
    <2> QED
      BY <1>9, <2>1, <1>t, <1>n, FilesKept DEF Health, Go
  <1> QED
    BY <1>1, <1>2, <1>3, <1>4, <1>5, <1>6, <1>7, <1>8, <1>9, Zenon DEF Next, Serve

\* However requests interleave, fail or are aborted, a request that was answered left a
\* temporary file behind only if the answer is a 500, as that to a failed conversion is.
THEOREM FilesCleanedUp == Spec => []TempFilesRemoved
  <1>1. Init => FilesAccounted
    BY DEF Init, FilesAccounted
  <1>2. FilesAccounted => TempFilesRemoved
    BY DEF FilesAccounted, TempFilesRemoved
  <1> QED
    BY <1>1, <1>2, FilesStep, ServerInvariance, PTL DEF Spec
=============================================================================
