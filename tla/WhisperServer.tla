--------------------------- MODULE WhisperServer ---------------------------
(***************************************************************************)
(* The HTTP server of examples/server: worker threads of httplib serve     *)
(* POST /inference, POST /load and GET /health over one whisper context.   *)
(* The two POST handlers hold whisper_mutex from their first statement to  *)
(* their end; /health reads an atomic and does not.                        *)
(*                                                                         *)
(* A handler is a chain of actions, one for each stretch of it that other  *)
(* threads can tell apart; pc[r] is how far the handler of request r is.   *)
(* What is in a request, and which step of a handler fails, is open.  Of   *)
(* the context only the model, whether it is alive, and whose results it   *)
(* holds are kept.  A connection carries one request.                      *)
(***************************************************************************)
EXTENDS Integers, FiniteSets, Sequences

CONSTANTS
    NRequests,  \* bound on the requests that are accepted
    Models,     \* models /load may name
    Workers,    \* threads of the pool
    NProcessors,   \* params.n_processors
    None        \* not a request and not a model

ASSUME ServerAssumption == NRequests \in Nat /\ Workers \in Nat \ {0} /\ NProcessors \in Nat \ {0} /\ None \notin 1..NRequests /\ None \notin Models

\* Requests are numbered in the order in which they are accepted.
Requests == 1..NRequests

VARIABLES
    phase,       \* "starting", "running", "stopping" (is_terminating), "exited"
    server_state,   \* state
    ctx,         \* [model, result]; model is None when it is freed
    ffmpeg_converter,
    whisper_mutex,  \* the request whose handler holds it, or None
    jobs,        \* the queue of the pool
    kind,        \* which handler a request is for
    pc,          \* how far the handler of a request is
    closed,      \* has the client closed the connection?
    files,       \* temporary files: <<request, "wav">> and <<request, "converted">>
    status,      \* res.status, 0 before it is set
    body         \* for 200: whose results were written, and of which model

vars == <<phase, server_state, ctx, ffmpeg_converter, whisper_mutex, jobs, kind, pc, closed,
          files, status, body>>

Kinds == {"inference", "load", "health"}

InHandler == {"entered", "checked", "converting", "reading", "inferring", "replying", "loading", "initialising", "answered"}

\* The requests a worker is busy with.
Busy == {r \in Requests : pc[r] \in InHandler}

NoResult == [of |-> None, model |-> None]

Init ==
    /\ phase = "starting" /\ server_state = "loading" /\ ctx = [model |-> None, result |-> None]
    /\ ffmpeg_converter \in BOOLEAN
    /\ whisper_mutex = None /\ jobs = <<>> /\ files = {}
    /\ kind = [r \in Requests |-> "health"]
    /\ pc = [r \in Requests |-> "client"] /\ closed = [r \in Requests |-> FALSE]
    /\ status = [r \in Requests |-> 0] /\ body = [r \in Requests |-> NoResult]

Running == phase \in {"running", "stopping"}

\* The process ends, whatever its threads are doing.
Exit == phase' = "exited"

\* The handler of r sets a status and returns; lock_guard releases the mutex.
Return(r, code) ==
    /\ status' = [status EXCEPT ![r] = code]
    /\ pc' = [pc EXCEPT ![r] = "answered"]
    /\ whisper_mutex' = None

Go(r, to) == pc' = [pc EXCEPT ![r] = to]
-----------------------------------------------------------------------------
(* main: the model is loaded before the port is bound; the first signal    *)
(* stops the server, the second ends the process.                          *)

StartUp(m) ==
    /\ phase = "starting"
    /\ ctx' = [model |-> m, result |-> None] /\ server_state' = "ready" /\ phase' = "running"
    /\ UNCHANGED <<ffmpeg_converter, whisper_mutex, jobs, kind, pc, closed, files, status, body>>

\* The context cannot be initialised, or the port cannot be bound.
StartUpFails ==
    /\ phase = "starting" /\ Exit
    /\ UNCHANGED <<server_state, ctx, ffmpeg_converter, whisper_mutex, jobs, kind, pc, closed, files, status, body>>

Signal ==
    /\ phase = "running" /\ phase' = "stopping"
    /\ UNCHANGED <<server_state, ctx, ffmpeg_converter, whisper_mutex, jobs, kind, pc, closed, files, status, body>>

SecondSignal ==
    /\ phase = "stopping" /\ Exit
    /\ UNCHANGED <<server_state, ctx, ffmpeg_converter, whisper_mutex, jobs, kind, pc, closed, files, status, body>>

\* The listener returns when the pool has no jobs and no busy worker; then clean_up.
CleanUp ==
    /\ phase = "stopping" /\ jobs = <<>> /\ Busy = {}
    /\ ctx' = [model |-> None, result |-> ctx.result] /\ Exit
    /\ UNCHANGED <<server_state, ffmpeg_converter, whisper_mutex, jobs, kind, pc, closed, files, status, body>>
-----------------------------------------------------------------------------
(* The pool of httplib.                                                    *)

Accept(r, k) ==
    /\ phase = "running" /\ pc[r] = "client" /\ \A q \in 1..(r - 1) : pc[q] # "client"
    /\ kind' = [kind EXCEPT ![r] = k]
    /\ jobs' = Append(jobs, r) /\ Go(r, "queued")
    /\ UNCHANGED <<phase, server_state, ctx, ffmpeg_converter, whisper_mutex, closed, files, status, body>>

\* A worker takes the first job; its request is read and routed, or does not arrive in
\* time (after stop(), in the first moments) and the connection is closed.
Take(r, to) ==
    /\ Running /\ jobs # <<>> /\ r = Head(jobs) /\ Cardinality(Busy) < Workers
    /\ jobs' = Tail(jobs)
    /\ Go(r, to)
    /\ UNCHANGED <<phase, server_state, ctx, ffmpeg_converter, whisper_mutex, kind, closed, files, status, body>>

\* The client gives up.  Only abort_callback looks, during the inference: a connection
\* closed before is closed then, one closed later makes no difference.
Disconnect(r) ==
    /\ Running /\ pc[r] = "inferring" /\ ~closed[r]
    /\ closed' = [closed EXCEPT ![r] = TRUE]
    /\ UNCHANGED <<phase, server_state, ctx, ffmpeg_converter, whisper_mutex, jobs, kind, pc, files, status, body>>

\* Mutant: a status is passed on as it is.
MUT_PassedOn(code) == code

\* What the error handler makes of a status: 400 and 500 stay, any other error is a 404.
error_handler(code) == IF code < 400 \/ code \in {400, 500} THEN code ELSE 404

\* The response is written and the worker is free.
Respond(r) ==
    /\ Running /\ pc[r] = "answered"
    /\ status' = [status EXCEPT ![r] = error_handler(@)]
    /\ Go(r, "done")
    /\ UNCHANGED <<phase, server_state, ctx, ffmpeg_converter, whisper_mutex, jobs, kind, closed, files, body>>
-----------------------------------------------------------------------------
(* POST /inference                                                         *)

\* Mutant: requests are not serialised.
MUT_NoMutex(r, k) ==
    /\ Running /\ kind[r] = k /\ pc[r] = "entered"
    /\ whisper_mutex' = r

Acquire(r, k) ==
    /\ Running /\ kind[r] = k /\ pc[r] = "entered" /\ whisper_mutex = None
    /\ whisper_mutex' = r

\* Mutant: inferences exclude /load but not each other.
MUT_SharedMutex(r) ==
    /\ Running /\ kind[r] = "inference" /\ pc[r] = "entered"
    /\ whisper_mutex # None => kind[whisper_mutex] = "inference"
    /\ whisper_mutex' = r
    /\ Go(r, "checked")
    /\ UNCHANGED <<phase, server_state, ctx, ffmpeg_converter, jobs, kind, closed, files, status, body>>

InferenceEnter(r) ==
    /\ Acquire(r, "inference")
    /\ Go(r, "checked")
    /\ UNCHANGED <<phase, server_state, ctx, ffmpeg_converter, jobs, kind, closed, files, status, body>>

\* Mutant: an exception leaves the mutex locked.
MUT_KeepsMutex(r, code) ==
    /\ Running /\ pc[r] = "checked"
    /\ status' = [status EXCEPT ![r] = code] /\ Go(r, "answered") /\ UNCHANGED whisper_mutex
    /\ UNCHANGED <<phase, server_state, ctx, ffmpeg_converter, jobs, kind, closed, files, body>>

\* No file (400), or a field std::stoi or std::stof cannot parse: its exception unlocks
\* the mutex and becomes a 500.
BadRequest(r, code) ==
    /\ Running /\ pc[r] = "checked"
    /\ Return(r, code)
    /\ UNCHANGED <<phase, server_state, ctx, ffmpeg_converter, jobs, kind, closed, files, body>>

\* With --convert the upload is written to a file for ffmpeg.
WriteTempFile(r) ==
    /\ Running /\ pc[r] = "checked" /\ ffmpeg_converter
    /\ files' = files \cup {<<r, "wav">>}
    /\ Go(r, "converting")
    /\ UNCHANGED <<phase, server_state, ctx, ffmpeg_converter, whisper_mutex, jobs, kind, closed, status, body>>

\* ffmpeg writes the converted file, which replaces the upload.
Convert(r) ==
    /\ Running /\ pc[r] = "converting"
    /\ Go(r, "reading")
    /\ UNCHANGED <<phase, server_state, ctx, ffmpeg_converter, whisper_mutex, jobs, kind, closed, files, status, body>>

\* ffmpeg, the removal of the upload or the renaming fails; what there is stays.
ConvertFails(r, left) ==
    /\ Running /\ pc[r] = "converting"
    /\ files' = (files \ {<<r, "wav">>}) \cup {<<r, f>> : f \in left}
    /\ Return(r, 500)
    /\ UNCHANGED <<phase, server_state, ctx, ffmpeg_converter, jobs, kind, closed, body>>

\* Mutant: the file is removed only after it was read.
MUT_ReadFailsKeepsFile(r) ==
    /\ Running /\ pc[r] \in {"reading", "checked"} /\ (pc[r] = "checked" => ~ffmpeg_converter)
    /\ Return(r, 400)
    /\ UNCHANGED <<phase, server_state, ctx, ffmpeg_converter, jobs, kind, closed, files, body>>

\* The audio is read, from the file or from the request, and the file is removed.
ReadAudio(r) ==
    /\ Running /\ pc[r] \in {"reading", "checked"} /\ (pc[r] = "checked" => ~ffmpeg_converter)
    /\ files' = files \ {<<r, "wav">>}
    /\ Go(r, "inferring")
    /\ UNCHANGED <<phase, server_state, ctx, ffmpeg_converter, whisper_mutex, jobs, kind, closed, status, body>>

ReadFails(r) ==
    /\ Running /\ pc[r] \in {"reading", "checked"} /\ (pc[r] = "checked" => ~ffmpeg_converter)
    /\ files' = files \ {<<r, "wav">>}
    /\ Return(r, 400)
    /\ UNCHANGED <<phase, server_state, ctx, ffmpeg_converter, jobs, kind, closed, body>>

\* whisper_full_parallel returns 0: the context holds the results.
Infer(r) ==
    /\ Running /\ pc[r] = "inferring"
    /\ ctx' = [model |-> ctx.model, result |-> r]
    /\ Go(r, "replying")
    /\ UNCHANGED <<phase, server_state, ffmpeg_converter, whisper_mutex, jobs, kind, closed, files, status, body>>

\* With VAD and no speech, whisper_full_parallel also returns 0.  On one processor it
\* calls whisper_full, which clears the results; on more it leaves them as they are.
NoSpeech(r) ==
    /\ Running /\ pc[r] = "inferring"
    /\ ctx' = IF NProcessors = 1 THEN [model |-> ctx.model, result |-> r] ELSE ctx
    /\ Go(r, "replying")
    /\ UNCHANGED <<phase, server_state, ffmpeg_converter, whisper_mutex, jobs, kind, closed, files, status, body>>

\* whisper_full_parallel fails, by itself or because abort_callback saw the connection closed.
\* Some of its results may be there.
InferFails(r) ==
    /\ Running /\ pc[r] = "inferring"
    /\ \E partly \in BOOLEAN : ctx' = IF partly THEN [model |-> ctx.model, result |-> r] ELSE ctx
    /\ Return(r, IF closed[r] THEN 499 ELSE 500)
    /\ UNCHANGED <<phase, server_state, ffmpeg_converter, jobs, kind, closed, files, body>>

\* The results are read from the context into the response.
Reply(r) ==
    /\ Running /\ pc[r] = "replying"
    /\ body' = [body EXCEPT ![r] = [of |-> ctx.result, model |-> ctx.model]]
    /\ Return(r, 200)
    /\ UNCHANGED <<phase, server_state, ctx, ffmpeg_converter, jobs, kind, closed, files>>
-----------------------------------------------------------------------------
(* POST /load and GET /health                                              *)

\* Mutant: the server looks ready while it loads.
MUT_StaysReady(r) ==
    /\ Acquire(r, "load")
    /\ Go(r, "loading")
    /\ UNCHANGED <<phase, server_state, ctx, ffmpeg_converter, jobs, kind, closed, files, status, body>>

LoadEnter(r) ==
    /\ Acquire(r, "load")
    /\ server_state' = "loading"
    /\ Go(r, "loading")
    /\ UNCHANGED <<phase, ctx, ffmpeg_converter, jobs, kind, closed, files, status, body>>

\* The request names no model, or one that is not a file.  The state stays "loading".
LoadRejected(r) ==
    /\ Running /\ pc[r] = "loading"
    /\ Return(r, 400)
    /\ UNCHANGED <<phase, server_state, ctx, ffmpeg_converter, jobs, kind, closed, files, body>>

LoadFree(r) ==
    /\ Running /\ pc[r] = "loading"
    /\ ctx' = [model |-> None, result |-> None]
    /\ Go(r, "initialising")
    /\ UNCHANGED <<phase, server_state, ffmpeg_converter, whisper_mutex, jobs, kind, closed, files, status, body>>

LoadInit(r, m) ==
    /\ Running /\ pc[r] = "initialising"
    /\ ctx' = [model |-> m, result |-> None] /\ server_state' = "ready"
    /\ Return(r, 200)
    /\ UNCHANGED <<phase, ffmpeg_converter, jobs, kind, closed, files, body>>

\* "no model loaded must exit"
LoadFails(r) ==
    /\ Running /\ pc[r] = "initialising" /\ Exit
    /\ UNCHANGED <<server_state, ctx, ffmpeg_converter, whisper_mutex, jobs, kind, pc, closed, files, status, body>>

Health(r) ==
    /\ Running /\ kind[r] = "health" /\ pc[r] = "entered"
    /\ status' = [status EXCEPT ![r] = IF server_state = "ready" THEN 200 ELSE 503]
    /\ Go(r, "answered")
    /\ UNCHANGED <<phase, server_state, ctx, ffmpeg_converter, whisper_mutex, jobs, kind, closed, files, body>>
-----------------------------------------------------------------------------
\* What is left behind by a conversion that fails: the upload and perhaps a partial
\* converted file; or, when the renaming fails, only the converted file.
LeftBehind == {{"wav"}, {"wav", "converted"}, {"converted"}}

Inference(r) ==
    \/ InferenceEnter(r)
    \/ \E code \in {400, 500} : BadRequest(r, code)
    \/ WriteTempFile(r)
    \/ Convert(r)
    \/ \E left \in LeftBehind : ConvertFails(r, left)
    \/ ReadAudio(r)
    \/ ReadFails(r)
    \/ Infer(r)
    \/ NoSpeech(r)
    \/ InferFails(r)
    \/ Reply(r)

Load(r) ==
    \/ LoadEnter(r)
    \/ LoadRejected(r)
    \/ LoadFree(r)
    \/ \E m \in Models : LoadInit(r, m)
    \/ LoadFails(r)

\* A step of the worker that serves r.
Serve(r) == Inference(r) \/ Load(r) \/ Health(r) \/ Respond(r)

Next ==
    \/ \E m \in Models : StartUp(m)
    \/ StartUpFails
    \/ Signal
    \/ SecondSignal
    \/ CleanUp
    \/ \E r \in Requests :
         \/ \E k \in Kinds : Accept(r, k)
         \/ \E to \in {"entered", "dropped"} : Take(r, to)
         \/ Disconnect(r)
         \/ Serve(r)

Spec == Init /\ [][Next]_vars

\* Threads that can go on do: the workers, and main once it is stopping.
FairSpec ==
    /\ Spec
    /\ \A r \in Requests : WF_vars(Serve(r)) /\ WF_vars(\E to \in {"entered", "dropped"} : Take(r, to))
    /\ WF_vars(CleanUp)
-----------------------------------------------------------------------------
(* Properties.                                                             *)

\* The type invariant; a status that was sent is one of four.
ServerTypeOK ==
    /\ phase \in {"starting", "running", "stopping", "exited"}
    /\ server_state \in {"loading", "ready"} /\ ffmpeg_converter \in BOOLEAN
    /\ ctx \in [model : Models \cup {None}, result : Requests \cup {None}]
    /\ whisper_mutex \in Requests \cup {None}
    /\ jobs \in Seq(Requests)
    /\ kind \in [Requests -> Kinds]
    /\ pc \in [Requests -> InHandler \cup {"client", "queued", "dropped", "done"}]
    /\ closed \in [Requests -> BOOLEAN]
    /\ files \subseteq Requests \X {"wav", "converted"}
    /\ status \in [Requests -> {0, 200, 400, 499, 500, 503, 404}]
    /\ \A r \in Requests : pc[r] = "done" => status[r] \in {200, 400, 404, 500}
    /\ body \in [Requests -> [of : Requests \cup {None}, model : Models \cup {None}]]

\* "Result is stored in the default state of the context" (whisper_full_parallel): what a
\* client gets from the shared context is never the transcription of another request, and
\* was made with a model that is loaded.
OwnResults ==
    \A r \in Requests :
        (kind[r] = "inference" /\ status[r] = 200) => body[r].of \in {r, None} /\ body[r].model # None

\* The context is not freed, by /load or at the end of main, under a handler that uses it.
ContextAlive ==
    \A r \in Requests :
        (phase # "exited" /\ pc[r] \in {"inferring", "replying"}) => ctx.model # None

\* /health says "ok" only when there is a context.
ReadyMeansLoaded == (server_state = "ready" /\ phase # "exited") => ctx.model # None

\* A request leaves a temporary file behind only if its answer is a 500, as that to a
\* failed conversion is.
TempFilesRemoved ==
    \A f \in files : pc[f[1]] \in {"answered", "done"} => status[f[1]] = 500

\* Every request that was accepted is answered or its connection is closed, unless the
\* process ends: no path through a handler leaves the mutex locked.  (The inference is
\* taken to return, which CallReturns of WhisperFull shows of calls with a temperature.)
RequestsAnswered ==
    \A r \in Requests : pc[r] = "queued" ~> (pc[r] \in {"done", "dropped"} \/ phase = "exited")
=============================================================================
