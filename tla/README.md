# EchoVox: TLA+ models, checks and proofs

EchoVox is an offline speech-to-text engine: whisper.cpp with five production
patches (short-audio padding, a relaxed end of stream, a reused spectrogram
buffer, a repetition kill switch, reserved state buffers), an HTTP server, and deployment scripts. This directory
models the engine's control logic in TLA+, checks it with TLC on small
instances, and proves the main invariants with TLAPS for all instances.

Paths below are relative to the repository; "the library" is
`whisper.cpp/src/whisper.cpp`.

## 1. Inventory

| Part | State it keeps | Operations | Hard behaviour |
|---|---|---|---|
| Transcription loop, `whisper_full_with_state` | audio position, decoders (tokens, result length, window shift, failed / completed), prompt history, result segments | one call: prompt, windows, temperatures, tokens, ranking, output | fallback leaves decoders of earlier temperatures behind; history survives calls; error returns in the middle |
| Logit filters and sampling, `whisper_process_logits`, `whisper_sample_token*` | none of their own (per decoder) | filter, sample | rules on timestamps depend on the tokens before |
| Unified KV cache, `whisper_kv_cache_*`, `whisper_decode_internal` | cells with a position and a set of sequence ids, search head | find a slot, copy, remove, clear | beams exchange sequences through temporary ids while sharing cells |
| VAD, `whisper_vad*`, segment and token times | speech segments, time mapping kept in the state | detect, segment, splice, map times back | the mapping outlives the call that made it |
| Parallel transcription, `whisper_full_parallel` | one state per chunk, threads | split, run, merge | workers fail, chunks overlap, counts overflow |
| Spectrogram, `log_mel_spectrogram` | padded sample buffer kept in the state | pad, transform in threads | buffer reused between calls of different length |
| Language detection, encoder, decoder graphs | encoder output, KV caches | encode, decode | abort callbacks, failures |
| Grammar-constrained sampling | stacks per decoder | accept, reject, advance | a sampled token outside the grammar |
| ggml thread pool, `ggml-cpu.c` | graph, dispatch counter, barrier, chunk counter, flags | compute a graph, pause, resume, free | workers poll, sleep and meet at barriers; parameters reset without the mutex |
| ggml graph allocator, `ggml-alloc.c` | free blocks of the plan, planned addresses, the buffer | plan, reserve, allocate | memory of a tensor is given away while views and children count down; plans are reused |
| HTTP server, `examples/server/server.cpp` | the model context, server state, default parameters, temporary files | `/inference`, `/load`, `/health`, shutdown | handlers run on many threads around one mutex |
| Install and deployment scripts | files on disk | clone, build, download, start | interrupted downloads, re-runs |

The parts call one another in one process: the server's handlers call
`whisper_full_parallel`, which calls `whisper_full_with_state` (after
`whisper_vad` if VAD is on) on one `whisper_state` per worker; that computes the
spectrogram, encodes windows and decodes tokens into the KV cache. Every encoder
and decoder graph is placed in memory by the graph allocator and computed by the
thread pool. State shared
between calls is the `whisper_state` (prompt history, decoders, caches, VAD
mapping) and, between requests, the server's context behind its mutex.

What makes each part correct: the loop ends, moves forward, keeps its output in
time order and never reads beyond what it decoded; positions stay in the text
context and the history stays bounded; the cache shows each decoder exactly its
own tokens; times mapped back are ordered and within the audio; every request
is answered and no two use the context at once; the chunks of a parallel call
cover the audio once and their results are merged once; a reused spectrogram
buffer is invisible; a graph is computed node by node by threads that all come
and all leave; no tensor is overwritten before its last reader.

## 2. Plan

| Step | Module | Status |
|---|---|---|
| 1 | `DecoderStep`, `WhisperFull`: the transcription loop | modelled, checked, safety proved |
| 2 | `KvSequences` (abstract) and `KvCache` (cells) | modelled, checked, safety and refinement proved |
| 3 | `VadDetector`, `Vad`: detection, splicing, time mapping over several calls | modelled, checked, safety proved |
| 4 | `WhisperServer`: requests, model swap, health, shutdown | modelled, checked, safety proved |
| 5 | `WhisperParallel`: chunks, worker failures, merging of segments | modelled, checked, safety proved |
| 6 | `MelSpectrogram`: the reused buffer and its threads | modelled, checked, safety proved |
| 7 | `GraphExec` (abstract) and `Threadpool`: the threads under every graph | modelled, checked, safety and refinement proved |
| 8 | `TensorAlloc`, `GraphAlloc`: the memory under every graph | modelled, checked, safety proved |
| 9 | the grammar stacks, `whisper_wrap_segment`, the streaming example | planned |

The order follows what a wrong answer costs: the loop that produces the text
first, then the cache and the time mapping it rests on, then the server that
shares all of it between clients, then what runs beneath them.

## 3. Modules and code

Definitions keep the names of the source where TLA+ allows it. Definitions that
begin with `MUT_` are deliberately wrong variants of the definition after them;
no specification uses them. Each shows that some property would notice that bug.

`SortedSets` numbers the elements of a finite set of naturals in increasing
order (`Nth`); `DecoderStep`, `KvCache` and `VadDetector` build their sequences
with it where the code's loops collect what they pass: ends of segments, live
decoders, heads of merged speeches.

### `DecoderStep` and `WhisperFull`: the transcription loop

`DecoderStep` has the operators on one decoder: the filters of
`whisper_process_logits` as the set of tokens they leave (`AllowedTokens`), the
update after a token (`UpdateDecoder`, with the repetition kill switch), the
ranking of one decoder, and the cutting of a sequence into segments
(`WindowSegments`). `WhisperFull` is the call, one action per stage:

| `pc` | Actions | Code |
|---|---|---|
| `idle` | `Call` | the host calls; short audio is padded to 1.5 s |
| `begin` | `DetectFails`, `ReturnEarly`, `PreparePrompt` | language, ranges, number of decoders, prompt of the call |
| `window` | `Finish`, `StopBeforeWindow`, `BeginWindow` | main loop: end of range, callbacks, encoder, short tail |
| `temperature` | `PromptThrows`, `KvInitFails`, `DecodePrompt` | decoders are reset, the prompt is built and decoded |
| `sample`, `check` | `Sample`, `EndSampling`, `DecodeBatch` | one token for every live decoder; abort; next batch |
| `rank` | `Rank` | ranking, fallback to the next temperature |
| `output` | `Output` | history, segments, notifications, shift of the window |

Scores are abstract: any token the filters leave can be sampled, any comparison
of scores can come out either way, any beam can be continued by any other. A
field that the code reads before it wrote it takes a value of `UninitInts`; the
instances have no negative value, with which the encoder would read before the
spectrogram. A call reads such a field when its list of temperatures is empty
(`temperature` above 1 and a `temperature_inc`, which the server takes from a
request): no decoder is
reset, and the output block moves the window by whatever the shift of decoder 0
is. Properties about the progress and the result of a call are therefore about
calls with a temperature; what happens without one is in section 4. What
survives a call (prompt history, spectrogram, number of decoders the cache is
made for, the decoders themselves) stays in the variables.

### `KvSequences` and `KvCache`: the unified cache

`KvSequences` is what the loop needs: each decoder has a sequence of tokens of
its own, which is restarted, extended by one, or replaced by that of another.
`KvCache` is what the code does: cells with a position and a set of sequence
ids, a head, `find_slot`, `cell_max`, `seq_rm`, `seq_cp` and the exchange of
beams in two passes through temporary ids; several decoders share cells. A cell
holds the token it was computed for, which is what an attention reads. The
mapping from cells to sequences is read off between batches (`View`).

### `VadDetector` and `Vad`: detection and times

`VadDetector` is `whisper_vad_segments_from_probs`: the detector over windows,
merging, dropping, padding. `Vad` is a sequence of calls of `whisper_full` with
and without VAD: detection one window at a time, sizing and filling of the
joined audio, the mapping table, and the getters that map times back. Rounding
between samples and centiseconds, clamping, and integer division are those of
the code. The probability of a window is any of a few values around the two
thresholds.

### `WhisperServer`

One variable per object the threads share: the context, `state`,
`whisper_mutex`, the queue of the pool, the temporary files. `pc[r]` is how far
the handler of request `r` is, so that any interleaving of handlers, of signals
and of disconnections happens. Which step of a handler fails is open: a bad
field (an exception out of the handler), ffmpeg, the audio, the inference, the
new model.

### `WhisperParallel`

`whisper_full_parallel` for more than one processor: `Call`, `Vad`, `Spawn` (one
per chunk), `First` (the chunk of the calling thread), `Finish(c)` (a thread
ends, in any order), `Join`, `Merge`. What a transcription yields is what
`WhisperFull` allows: segments in order, possibly reaching past the end of the
chunk, none, or a failure; a chunk that failed with -7 has freed its state, and
the merge then does something undefined. Products of ints wrap (`AsInt`), scaled
to the instance. `Fits` is the premise under which they do not.

### `MelSpectrogram`

A sample is named by its call and index, a frame is the function of samples it
is computed from, and a normalised frame carries the set of all frames, as the
loudest one decides the normalisation. `Begin` is the function up to its
threads, `WriteFrame(t)` one frame of one thread, `Finish` the join and the
normalisation. `Fresh` is the same audio in a state never used before.

### `GraphExec` and `Threadpool`

`GraphExec` is what the rest of the program relies on: a graph is computed by n
threads in lock step, up to its end or up to one common node where it was
aborted. `Threadpool` has one action per access to shared memory: the worker's
loop (`Top` to `LockedCheck`), the caller's `GraphCompute`, `Kick`, `KickWake`,
the node loop, the chunk counter of matrix products, and the four steps of the
spinning barrier. `Kick` and `KickWake` are one critical section, split because
polling threads see the new graph before the sleeping ones are woken. The
mapping is the graph from kickoff to return, the shares finished, and the node
where all stop. Accesses the code orders by fences are sequentially consistent;
relaxed loads in between that could see older values are not modelled. The
dispatch counter (16 bits in the code) does not wrap in the model.

### `TensorAlloc` and `GraphAlloc`

`TensorAlloc` has the operators of `ggml_dyn_tallocr`: the choice of a block,
splitting, freeing and merging, new chunks. `GraphAlloc` is `ggml_gallocr` with
one buffer, one action per step of its loops:

| `phase` | Actions | Code |
|---|---|---|
| `idle`, `ready` | `AllocGraph` | the plan is kept if `PlanFits`, or children and views are counted and a new one begun (`StartPlan`) |
| `plan` | `PlaceLeaf`, `PlaceParent`, `PlaceNode` | leafs first; for each node its sources, then the node: in the memory of a source (`Reusable`), or in new memory |
| `release` | `ReleaseParent`, `NextNode` | each source loses a reader; the last reader, or the last view, gives its memory back |
| `plan`, all placed | `Reserve`, `ReserveFails` | the buffer is kept or replaced; the scheduler's retry when it cannot be |

`IsGraph` says what a graph is: at most `MaxSrc` sources per node, leafs before
nodes, sources and viewed tensors before their readers, every leaf read by a node
(`ggml_visit_parents_graph` finds it through one), views of a tensor that is not
itself a view, however many lie between. `GraphSet` are the graphs a program may
begin with, `Variants(x)` those it may allocate after `x`. The last chunk has
`HugeSize` units, half of SIZE_MAX in the code, where "should never happen" stands
in place of an allocation that finds no room; that a graph fits it even without
any sharing is part of `IsGraph`. Sizes are in units of the alignment. The
code's branch that takes over the memory of a parent that is a view is not in the
model: a view never owns memory, so the branch is not reached; nor is the merge
of a block that grew at its start with the one before it, which would have been
found first. Not modelled either: the limit of 256 free blocks per chunk
(`ggml-alloc.c:135` aborts beyond it), and nodes marked as inputs, which the code
places with the leafs.

An output keeps its memory because `FreeNode` looks at its flag, which is the
flag of the tensor that has the memory. A view that is an output has none of its
own: it stays if the viewed tensor is an output too, or if no node reads the
view, as `n_views` then never becomes 0. `OutputsKept` and its theorem say this
much; the view that is read is in section 4 (`EveryOutputStays`).

## 4. Runs

| Run | Instance | What it shows |
|---|---|---|
| `transcribe` | one text token, 5 timestamps; 1 or 2 greedy decoders with 2 temperatures over 2 windows and every early return, abort and failure; 2 beams, then a fallback to one sampled decoder; 2 calls with prompts of 0, 2, 3 and 9 tokens, carried or not, two budgets, an empty list of temperatures with an uninitialised shift of 0 or 4 | types; segments are in time order; no decoder claims more result than it has tokens; timestamps of a sequence do not go back; text positions fit the context; the history stays bounded; every window of a call with a temperature moves on, and such a call returns |
| `kv` | 3 decoders, prompt of 1 token, beams and greedy, language detection, a failing decode | each decoder attends to exactly its tokens; a slot is always found; `KvCache` implements `KvSequences` |
| `vad` | 17 windows of three loudnesses (every sequence of them), four parameter sets | segments are in order and keep the speech; the joined audio is filled exactly; table monotone; times map back in order and into speech |
| `server` | 3 requests, 2 workers, 1 model | replies are not mixed up; the context outlives its users; `/health` is truthful; files are removed; everyone is answered |
| `parallel` | 2 calls, 2 and 3 processors, three lengths and offsets, VAD or not | chunks tile the audio; every segment is merged and announced once; merged segments are in order |
| `mel` | 3 calls, audio shorter and longer than the padding, 1 and 3 threads, the host's own spectrogram in between | the encoder sees what a fresh state would give; every window lies inside the spectrogram |
| `threadpool` | 3 threads, 2 graphs of 2 and 3 nodes, 1 to 4 threads asked for, one pause | no worker uses what the caller resets; chunks are done once; the pool implements `GraphExec`; every graph returns; the pool is freed |
| `galloc` | 12120 graphs, with outputs and views that are outputs: all of 3 nodes over a leaf and an external tensor, those of 4 nodes over a leaf; each small one again with other sizes; failing allocations | no source is overwritten before it is read; outputs stay, except views that a node reads; tensors lie inside the buffer; the free list is exact |

The bounds are the smallest at which the cases meet: a sequence needs two
timestamps to cut a segment and a third token to go back; two windows to carry
history and two calls to carry it between budgets; three decoders for an
exchange that is not a swap; three segments for one with two neighbours; two
busy workers and one queued request for the server; three threads for one that
takes no part and two that do, and two graphs for one that is late; four nodes
for a block freed between two others. The constants that are
frame or token counts in the code (3000 frames, 448 positions, a pattern of
3 repeated 3 times) are scaled down together, except in `killed`, which uses
the pattern of the code, and in the VAD runs, which use the code's own rates.

In `vad` the padding is at least 30 ms, the code's default, and in the proofs
at least 15 ms (`PaddedCalls`). With no padding and no minimal speech the start
of a segment in the last, partial window can be rounded up to behind the end of
the audio, and the two loops that size and fill the buffer then disagree about
it: the first clamps only the end, the second both. `SpliceFillsBuffer` is a
statement about padded segments. The run has also an audio of one sample; the
proofs are about audio that is empty or longer than 160 samples, one
centisecond.

In `galloc` the second graph has the shape of the first: the same nodes, other
sizes, and tensors that were of one size still are (`ResizedKeepsShape`, which
TLC evaluates on the graphs of the instance). That is the hypothesis
`ShapesKept` of the theorems.

Four runs check what a comment or a document says, and find that the code does
something else:

| Run | Statement | What the code does |
|---|---|---|
| `killed` | the kill switch forces an end of text | it leaves the result empty, the text of the window is lost |
| `tail` | final words are never dropped | the relaxed minimum is used only when the whole audio is short |
| `vad_stale` | without VAD times are the original ones | the mapping of an earlier call with VAD is still applied |
| `server_parallel` | the results of a call are in the context | with more than one processor a call without speech leaves the results of the call before, which the server sends |

Other statements that do not hold have a definition but no run of their own:

| Definition | Statement | What the code does | To see it |
|---|---|---|---|
| `WhisperFull!HistoryWithinBudget` | "max tokens to use from past text as prompt" (`include/whisper.h:491`) | a carried prompt of an earlier call is not checked against the budget, the rest of the budget becomes negative | `ParamSet <- BudgetParams`, two calls |
| `WhisperFull!EverySegmentNotified` | "called for every newly generated text segment" (`include/whisper.h:561`) | with DTW the loop starts at the wrong index and passes the wrong count | `ParamSet <- DtwParams` |
| `WhisperFull!EveryCallReturns` | a call ends, for any list of temperatures | without a temperature the shift of a decoder that was never reset is added (lines 7086, 7818); `seek_delta` has no initialiser (lines 805, 3390), and with 0 the same window is output for ever | as `transcribe`, whose `UninitInts` contain 0 |
| `WhisperParallel!TimesCorrected` | "correct the segment timestamp taking into account the offset" (the library, line 7927) | the product of ints overflows for a chunk that starts after about 22 minutes | as `parallel` |
| `GraphAlloc!EveryOutputStays` | "output tensors are never freed and never overwritten" (`ggml-alloc.h:44`) | the memory of an output view is freed with its last reader (`ggml-alloc.c:812`): only the flag of the viewed tensor is looked at (line 692), and a later node is placed there | as `galloc` |
| `GraphAlloc!ReadyHasBuffer` | "returns false if the buffer allocation failed" (`ggml-alloc.h:55`) | the scheduler's second attempt finds the plan of the failed one and goes on without a buffer | as `galloc` |
| `Vad!SpliceFillsBuffer` without padding | "Adds this amount of padding before and after each detected speech segment" (whisper.cpp `README.md:851`), with no minimum | the size of the joined audio becomes -1, the vector's `length_error` is not caught by the handler of `bad_alloc` (line 6744) | `VadParams <- UnpaddedParams`, `AudioLens = {1600}`, `Probs = {0, 60}` |
| `GraphAlloc!SourcesIntact` | "automatic reallocation if the topology changes" (`ggml-alloc.h:70`) | only the numbers of nodes and leafs and the sizes are compared | `Variants <- Others` |

## 5. Fairness

`WhisperFull`: weak fairness of the call's own steps (`Work`); they run on the
caller's thread, which has nothing to wait for. When the host calls again is
not assumed. `WhisperServer`: weak fairness for each handler (`Serve`), for the
pool's taking of a job (`Take`), and for the end of `main`; a thread that can
run does. Nothing is assumed of clients and signals. `std::mutex` promises no
fairness, and the model needs none: with finitely many requests a waiting
handler gets the mutex at the latest when all others have had it. A call of the
inference or of ffmpeg that never returns is excluded by this fairness: of the
inference `CallReturns` shows that it returns if it has a temperature, so
`RequestsAnswered` is about requests whose `temperature` is at most 1. One
without a temperature can hold the mutex for ever (`EveryCallReturns`). `Threadpool`: weak fairness for
every thread and for the caller once it is inside a function of the pool: the
operating system schedules threads that can run, and spinning threads do not
keep others from it. When the caller comes back, and spurious wakeups, are not
assumed. The
server may stop at any time, so that its runs do not look for deadlock;
`RequestsAnswered` says that it does not stop with a client waiting.

## 6. Proofs

`WhisperFullProofs`: for every vocabulary, text context, window size, parameter
set, audio and number of decoders that satisfies the assumptions named in
`DecoderStep` and `WhisperFull`.

* `Invariance` proves `IInv`: types; no decoder claims more result than tokens;
  the number of decoders is one that exists; every live decoder has as many
  tokens as the loop has turned (`TokenCount`); the history in the prompt is at
  most half the context. `TypeCorrect`, `ResultsExist`, `PositionsFit` follow:
  positions fit because the loop ends before half the context less four, the
  history takes at most the other half, and the rest of the prompt at most four.
* `ProgressInvariance` proves that a decoder reset in this window has a positive
  shift, that the best decoder is one of those if there was a temperature, and
  that a window is open only before the end of the range. `WindowsAdvance`
  follows: the main loop cannot decode the same window twice.
* `HistoryStaysBounded`: after a window the rolling history is at most one
  prompt and one window of tokens.
* `TimeInvariance` proves `TimeInv`: the timestamps of a sequence are in order
  and none is after the one the decoder remembers, as the filters let no smaller
  one through and a beam takes both from its source. `TimestampsNeverDecrease`
  follows.
* `OrderInvariance` proves `OrderInv` on top of it: the result is in order and
  ends before the window, and the first token of a sequence has a time. With it
  `SegmentsFollow`: the segments of a window are cut at increasing timestamps,
  and the shift of the window is not before the last of them. The theorem is
  about calls with timestamps and with a list of temperatures that is not empty:
  without a temperature the call outputs what an earlier window left.

`WhisperServerProofs`: for any number of requests, workers, models and
processors. Its `IInv` adds to the types that a handler past its first statement
holds the mutex, that a request is queued at most once and is then in no
handler, that nothing is served before the model is loaded, that the steps of
`/load` happen only while the state is "loading", and that the context is
missing only while a `/load` handler is making one. Without the last one
`ReadyMeansLoaded` and `ContextAlive` are not inductive. `ServerTypeCorrect`,
`HealthTruthful` and `ContextOutlivesUsers` follow. `RepliesNotMixed` is proved
for one processor, from `IInv` and the fact that between inference and reply
the context holds the results of the request; `server_parallel` shows that the
hypothesis cannot be dropped. `FilesCleanedUp` accounts for every file: it
belongs to a handler that is between making and removing it, or to an answer
of 500.

`KvCacheProofs`: for any number of decoders, text context, budget and prompts
with room for both. Its `IInv` says, for each place of the loop, which sequence
id holds which tokens, one cell each (`Holds`), and which temporary ids are in
use; the operations of the cache are described by what they do to the cells of
one id (`Same`, `Absent`), so that the exchange of beams is a chain of such
facts. `KvTypeCorrect` and `EveryDecoderAttendsItsOwn` follow.
`CellsImplementSequences` is the refinement: what the ids hold (`View`) is a
behaviour of `KvSequences`; a copy to a temporary id is a stutter, and the deal
takes place when the last of them is made. `BatchesFindSlots` has an invariant
of its own (`SlotInv`): all cells behind the prompt and one batch of all
decoders per turn are free and the search begins before them. The cells ever
taken in a temperature then fit one after another, whatever is freed in between;
the proof needs `n_text_ctx` cells for each decoder and not the two further
shares the code allocates.

`VadProofs`: for every window of at least one centisecond (512 samples in the
model files), audio, sequence of probabilities, set of parameters and sequence of
calls. `DetectorInvariant` is the invariant of the detector's loop: a silence
that is remembered lies in the open segment, at least a window after its start,
and the speeches found are in order, at least a window long and before it.
`SegmentsAreInOrder` needs besides that merging, dropping and padding keep
speeches apart. A window shorter than a centisecond could round to a segment of
no duration. `SpeechIsKept` follows a stretch of loud windows: it is in the open
segment, or was closed with it, until merging, dropping and padding only widen
the segment that has it. Its hypotheses are that no maximal duration cuts and
that no probability counts as both speech and silence, which happens for a
threshold below 0.01, where the lower threshold is raised above it.

What is made of the segments has an invariant of its own, `JoinInv`, under
`PaddedCalls` (section 4). The first loop of `whisper_vad` has counted the
lengths that the second will copy, which is a statement about a sequence of
partial sums (`IsTally`): one that exists, not one that is computed, since
sums over a sequence are induction over data. While the second loop runs, the
places it has reached in the joined audio and in the audio are behind every
time it has noted, points with the same processed time agree, and segments lie
apart in both times. `VadTypesHold`, `BufferIsFilled` and `TableIsMonotone`
follow. The getters interpolate linearly between two neighbours of the sorted
table; that this keeps the order, with the code's integer division and clamps,
are the lemmas `LineFacts`, `MapMono` and `TokenMono`, from which
`SegmentTimesAreInOrder` and `TokenTimesAreInSpeech` follow. `JoinInvariant` is
proved for any sequence of calls with and without VAD, including calls that
fail halfway and leave the mapping of an earlier one.

`ThreadpoolProofs`: for any number of threads, graphs, nodes and chunks, given
that the nodes a fused operation skips follow it (`FusedPairs`). `IInv` says that
all threads of the team are in the same segment between two barriers, what the
barrier has counted and which shares and chunks are done; a thread that was
released and has not noticed counts as behind the barrier. `PoolTypeCorrect`,
`ParametersArePrivate` and `ChunksComputedOnce` follow, and
`ComputesInLockStep`, the refinement of `GraphExec`: every step of the pool
finishes one share, returns, starts a graph, or is a stutter.

`WhisperParallelProofs`: for any audio, any number of processors and any results
of the chunks that are in order within the chunk. `IInv` says what the results
hold up to the chunk that is merged next (`Filled`) and where a thread may
still run. `ChunksTileTheAudio`, `EverySegmentMerged` and
`MergedWithoutOverlap` follow; the first and, for the order across chunks, the
last are under `Fits`, as the products wrap otherwise.

`MelSpectrogramProofs`: for any frame and hop, audio longer than the reflected
head, number of threads and sequence of calls. What the reused buffer holds in
front of the end of the audio is what a new one would hold; each thread has
written the frames of its residue class up to the one it is at; and a buffer
that is too long only adds silent frames, of which there is one already. The
last point needs `LongPad >= FrameSize \div 2 + 2 * FrameStep` (480000, 400 and
160 in the code): with less padding the longer buffer would add a silent frame
to the ones that the normalisation looks at, and `SameAsFresh` would be false.
`WindowsLieInside` and `ReuseIsInvisible` follow.

`GraphAllocProofs`: for any graphs, numbers and sizes of chunks and sequence of
allocations, failures included. The operators of `TensorAlloc` are described by
the addresses they leave free, so that nothing about the order of the blocks is
needed afterwards (`Taken`, `Freed`, `Grown`). `PlanInv` has six parts: types;
the counters of a tensor are the uses and views that are left (`CountsRight`); a
tensor that is still needed, because a node will read it, it is an output or a
view that nobody reads holds it (`Kept`), owns its memory, and only tensors that were placed
own any (`OwnersRight`); no node was placed over a tensor that is needed after
it, or over its own source except in place (`PlacedWell`); in every chunk each
address up to some end is free or has one owner (`Balanced`); and the last chunk
has room for what is left to place (`LastChunk`). The steps depend on one
another in that order: a release is right because the counters are, a placement
because memory that is owned is not free, and `PlacedWell` outlives the
ownership, which is what a run of the graph relies on. `FreeListIsExact` follows
from `Balanced` for all programs that allocate graphs (`OnlyGraphs`).
`SourcesAreIntact`, `OutputsAreKept` and `PlanIsInBuffer` are about the graph
that runs, not the one that was planned, and need `FitsInv` besides: the plan
has room for each tensor of the graph, a leaf because the node that reads it was
compared. They suppose that graphs keep their shape (`ShapesKept`), without
which the code is wrong (section 4, `Variants <- Others`).

`SortedSets`, `KvSequences` and `GraphExec` have no theorems of their own. The
lemmas that number a finite set (`NthFacts`) stand in each of the three modules
that use them.

Only model-checked: liveness (`CallReturns`, `RequestsAnswered`, `GraphReturns`,
`PoolIsFreed`), which the prover does not do. Every safety property that a
passing run checks is also proved, under the hypotheses named above.

## 7. Not modelled

* Numeric kernels (encoder and decoder graphs, the transform, DTW costs, the VAD
  network): only whether they succeed.
* Loading of model files, tokenizer: formats and strings. A failing load is an
  outcome in `WhisperServer`.
* Token-level timestamps, wrapping of segments and the grammar in
  `WhisperFull`: the first two change texts and times after the fact, the last
  narrows what may be sampled.
* Formats of the server's responses, its pages, connections kept alive.
* With `no_timestamps` the first segment of a window starts before the window
  (tid stays 0); `SegmentsInOrder` is about calls with timestamps.
* The language probabilities of the server's verbose format (a failed detection
  is used as an index there), and a second VAD model in one state, which is
  ignored after the first.
* ggml apart from its thread pool (without OpenMP) and its graph allocator (one
  buffer): kernels, backends, the scheduler's splits.
* `MelSpectrogram` says nothing of audio shorter than the reflected head given to
  `whisper_pcm_to_mel` (the head keeps samples of an earlier call), nor of a
  duration beyond the end of the audio, where the number of frames depends on
  the longest audio the state has seen.
* Examples other than the server, bindings, Parakeet models, httplib and json
  (the pool of httplib is modelled as the server uses it).
* Install and deployment scripts: sequential shell around a build.
