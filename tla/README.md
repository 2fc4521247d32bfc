# Lucebox: formal models

TLA+ models of the control logic of the repository: the native DFlash inference
server (`dflash/src/server`), its model backends, speculative decoding and the
processes around them (`dflash/src/{common,qwen35,gemma4,laguna,qwen3}`), the radix
tree, and the CUDA megakernel decoder (`megakernel`). TLC checks them on small
instances, TLAPS proves the most important invariants for every size.

## 1. Inventory of the system

The repository holds four sub-projects: `dflash` (the C++ inference server with
speculative decoding and prefix caching), `megakernel` (fused CUDA kernels of a hybrid
decoder with their Python drivers), `pflash` (prompt compression experiments) and
`harness` (benchmark drivers).

| component | state it keeps | operations | interacts with | what makes it correct |
|---|---|---|---|---|
| HTTP server (`http_server.*`, `server_main.cpp`) | `stopping_`, the linked job queue, `active_clients_`, three mutexes and condition variables, a `ServerJob` on each client thread's stack | accept, read, parse, enqueue, wait, dequeue, serve, finish, stop, join, save, destroy | one detached thread per client, one worker, the signal handler | no dangling or stranded job, no lost wake-up, jobs answered in order, orderly tear-down |
| Inline prefix cache (`prefix_cache.*`) | LRU list `entries_`, `next_slot_`, the entry reserved for eviction | lookup, prepare, confirm, abort | the worker, the backend's snapshot slots, `slot_tokens_` | a hit restores the KV state of the client's own prompt; the table stays bounded |
| Disk prefix cache (`disk_prefix_cache.*`) | directory of files, layout id, position of the last continued checkpoint | init, learn layout, lookup, save, continued store, budget | the worker, staging slot 63 | a file is loaded only for its own tokens and layout; the budget holds |
| Tool memory (`tool_memory.*`) | entries by tool-call id, LRU list, byte counters | remember, lookup, touch, drop, prune | client threads and the worker | what was remembered is what is replayed; the accounting balances |
| SSE emitter (`sse_emitter.*`) and tool parser (`tool_parser.cpp`) | mode, held-back window, text so far, open content block | start, token, finish; parse | the worker's `on_token`, the client | every byte is emitted once, in the right kind of block; blocks nest |
| Model backends (`qwen35`, `gemma4`, `laguna`, `qwen3`) | KV cache, recurrent state, feature buffers, snapshot slots, parked weights | generate, restore and generate, prefill, decode, snapshot, park, unpark, compress | worker or daemon loop, the target and draft graphs | the output is the target's greedy continuation; snapshots are of the prefix they are filed under; no pass on parked weights |
| Speculative decoding (`dflash_spec_decode.cpp` and the backends' loops), feature ring | committed length, drafted block, ring positions | draft, verify, accept, roll back, replay, commit | target and draft model | whatever the draft proposes, the output is what the target alone would produce |
| Daemon loop (`daemon_loop.cpp`) | the command being served, the stream | command dispatch | the Python server, the backend | one end marker per command |
| Remote draft (`dflash_draft_ipc*.cpp`) | two pipes, a work directory, a child process, the feature ring | start, send features, propose, close | the layer-split driver | answers match requests; nobody is left waiting, no file or process left behind |
| Layer-split target (`layer_split_*.cpp`) | the shards' caches | split layers, forward by chunks, capture features | devices, draft | each layer on exactly one device; same output as one device |
| Radix tree (`rax.c`) | nodes, inline leaves, two counters, iterators | insert, remove, find, free, seek, next, prev, compare, random walk, defragment | its client | an ordered map with a cursor, also when memory runs out, but for four faults (section 4) |
| Megakernel (`megakernel/`) | caches, recurrent states, convolution windows, scratch, a grid barrier | reset, prefill, step, step_many | the GPU's scheduler, the host's calls | the result of every interleaving of the blocks is the sequential program's |
| Tool hints, draft tree | proposals to the draft | pick | the speculative loop | must not change the output (covered by letting the draft propose anything) |
| Loaders, tokenizer, chat templates, Python server, pflash, harness | none that outlives a call, or duplicates of the above | | | not modelled (section 7) |

What is hard here: three kinds of threads around one queue and a job that lives on
a stack; notifications sent with and without the mutex; a cache whose bookkeeping is
split between "prepare" and "confirm or abort" with a whole generation in between;
files that outlive the process, the model and a crash; text that is cut into tokens
anywhere while tags and stop sequences must be recognised before anything is sent; a
recurrent state that cannot be truncated when a draft is rejected; a ring that is
written ahead of what is kept; two processes that share a pipe without lengths or tags
and may die at any moment; a tree that changes its node format under an iterator and
may run out of memory half-way; blocks of a GPU grid that share scratch memory between
two barriers, on a device that keeps only some of them resident. `PROJECT.json` lists
the hazards line by line with the properties that cover them.

## 2. Modules

A definition keeps the name of the function it models where it models one. Operators
named `Action_Fault` are faulty variants of an action: each property is known to fail
when a variant takes the action's place.

### HttpServer (models `http_server.cpp/.h`, `server_main.cpp`)

One program counter per thread: `main`, `worker`, `client[c]`. A condition variable
is a program counter value `asleep`, a notification moves it to `woken`, and
`SpuriousWake` may do so at any time. `std::condition_variable::wait(lk, pred)` is
split where it matters: `DequeueCheck` evaluates the predicate with the mutex held,
`ParkWorker` releases the mutex and blocks. A mutex is a variable naming its holder
only while the holder is between two steps. `stopping` is set by the signal handler
at any moment (`RequestStop`) and closes the listening socket, so that a blocked
`accept` returns. Reading and parsing a request is reduced to its outcome: answered
without the worker, or enqueued. `Serve` is the whole body of `worker_loop` from the
point of view of the queue; its cache operations are the modules below.

### JobService (the promise of HttpServer)

What the queue promises: jobs are served one at a time in order of arrival, a job is
refused only after the stop, and one accepted before it is still served. The
refinement mapping in `HttpServer` (`Service`) takes as waiting jobs the one in the
worker's hands followed by the queue.

### PrefixCache (models `prefix_cache.cpp`, the cache side of `worker_loop`, and the
snapshot side of the backends)

The worker serves one request after another. A prompt is a sequence of turns; a
boundary is the end of a turn; a hash is the prefix itself. `slots` is what the
backend has in each snapshot slot, `kv` what the request's KV cache was computed
from. `Prefill` fills the rest of the prompt *by position* behind what was restored,
as the code does, without comparing the tokens: this is what makes a wrong restore
visible. `ReachesSnap` states the difference between the backends: qwen35 saves when
prefill passes the position, gemma4 after the whole prompt, laguna only if it did not
restore. `FailSnap` is a save that fails after the old snapshot was freed. The
history variable `faults` records an abort, a slot handed out while in use, and a
confirmation without a save. The full-compress half of the prefix cache is left out,
because `init_full_cache` is never called and the half stays disabled. The disk cache
is off in this model.

### ToolMemory (models `tool_memory.cpp`, `remember` as the emitter calls it, and the
replay in `normalize_chat_messages`)

`mem` is the tool memory: `blocks_` with their reference counts, `by_id_`, `lru_` and
`total_bytes_`. The loops of `remember`, `lookup` and `prune` take one step per round
(`Associate`, `ReplayChat`, `Prune`), because the structures must agree between rounds
too; `op` is the call in progress. A text is a value with a size, of which the code
counts one copy per id and one for the block. `ReplayChat` asks for all ids of a
message at once, `ReplayItem` is a `function_call` item of the responses format, which
asks for its own. The history variable `said` is the text each id was last remembered
with. Calls follow one another: the code has no lock here, and client threads and the
worker do race (a hazard in `PROJECT.json`), with undefined behaviour that no model of
the code would show.

### DiskPrefixCache (models `disk_prefix_cache.cpp`, the disk side of `worker_loop` and
the shutdown save, on qwen35)

`files` is the directory with the files of every layout, each with the key it lies
under, the state it holds (`kv`), the model that wrote it and whether it is whole,
torn or without a header. `cache` is the `DiskPrefixCache` object, `mem` an in-memory
cache with one slot and its `slot_tokens_`, `staging` slot 63. A request runs through
`Begin`, `lookup`, `Cold`, `Generate`, `Finish` and `Checkpoint`, which are the
stretches of `worker_loop` between two uses of the caches; `Shutdown`, `Crash` and
`Restart` end and begin a process, perhaps with another model; `Age` lets a minute
pass. `Saves` and `maybe_store_continued` are sets of outcomes: a write may fail, or
go wrong unnoticed. A turn is a token and the size of a file the length of its state.
As in PrefixCache, the rest of a prompt is filled in by position.

### ToolParser and SseEmitter (model `tool_parser.cpp`, `sse_emitter.cpp`, `utf8_utils.h`
and the token callback of the worker)

A text is a sequence of lexical units: half a tag, a name, a brace, an argument, a
word, a space, half of a two-byte character. Tags are two units long, so that they can
be cut, and the holdback covers exactly one tag. `ToolParser` tries the patterns in the
order of the code, keeps their spans and returns the calls and the text that is left.
`SseEmitter` keeps the emitter's fields in one record `e`, in which `e.out` collects every
event; `OnToken` is a call of the token callback with its UTF-8 cut, `Finish` the end of the
generation, `Disconnect` a client that goes away. `SplitIsRight` compares what was sent
with a reference: the split of the whole text, made without any streaming.

### RaxTree, RaxIterator, Rax and RaxMap (model `rax.c`)

`RaxTree` has the tree operations as pure operators on node values; a pointer is the
path of child numbers from the head and a stack of parents the path's prefixes.
Inline leaves, compressed nodes with their maximal size, the splits of a compressed node,
the spill of inline leaves when the children no longer fit the
bitmap, removal with recompression and the way back after a failed allocation are all
kept; the bytes of a node are not. `RaxIterator` has seek, next, previous, compare,
random walk and the defragmentation iterator. `Rax` is a client that changes the tree and
moves a cursor. `RaxMap` is the promise: a map from keys to values and a cursor that
steps in lexicographic order; `IsOrderedMap` is the refinement. The code does not keep the
promise everywhere, and the model does what the code does. The step that takes a key from
the map when an insertion below it fails is named (`TakesKey`) and the history variable
`lost` counts those keys, so that `CountsExact` says by how much `numele` is wrong. The steps
after which the tree refers to freed or overwritten memory, or fails an assert, set
`tree.broken`, after which nothing is promised; `Breaks` says when they may happen.

### TargetCache, Speculation, ModelBackend, the four backends and DaemonLoop

`TargetCache` names every row of a KV cache, of a sliding window, of a recurrent state and
of the feature buffers by the context it was computed from, or `Bad`; a pass is what it
reads and writes. `Speculation` has a deterministic greedy target (`Predict`), a draft
that proposes *any* block, and the acceptance rule. `ModelBackend` has the state the four
backends share, with the snapshot slots, parked weights and the request in progress;
`Qwen35Backend` (hybrid: copy of the recurrent state, verify, roll back, replay),
`Gemma4Backend` (sliding window, speculation without a roll-back), `LagunaBackend` and
`Qwen3Backend` (plain decoding) have the steps of generate and restore_and_generate, each a
pass that may fail. `DaemonLoop` is the process around a backend: the commands of
`run_daemon` and the calls of the HTTP worker, the stream with its end markers, parking
and compression. Requests that outgrow the cache (`Fits`) are let through, as in the code,
but no output is promised for them.

### DraftIpc and LayerSplit (model `dflash_draft_ipc*.cpp`, `layer_split_*.cpp` and the
driver of `test/test_dflash.cpp`)

`DraftIpc` has the client's calls and the child's loop around two pipes and the files of the
work directory. The child may die between any two steps of either process
(`Crash`), and a parent that writes to it afterwards is killed by SIGPIPE. `LayerSplit` is the target spread over several
devices, its passes chunk by chunk, with the features of each captured layer sent to the
draft's ring, and the speculative loop, with the draft in the same process, in another one,
or absent. `compute_layer_ranges` is a pure operator, compared with what a split has to be.

### GridSync, KernelShapes, DecodeKernel, PrefillKernels and Megakernel (model `megakernel/`)

`GridSync` is the counter-and-generation barrier and the scheduling of blocks on a device
that keeps `Slots` of them resident until they exit. In `KernelShapes` a kernel is what it
loads from and stores to global memory: *steps* of accesses to an address (a buffer and an
index) that the program means as an item (row 2 of the MLP of layer 1). `DecodeKernel` and
`PrefillKernels` give these steps for each block and phase of the decode kernels (bf16 and
NVFP4), the three prefill paths and the LM heads. `Megakernel` puts the calls of
`model.py` and `model_nvfp4.py` on a stream and interleaves the blocks; a word holds the
tag of the phase that wrote it, and `LoadsSequential` says that each load finds the tag of
the sequential program. Memory is sequentially consistent: the fences of the code are
taken to give that.

### Proof modules

`SynchronisationProofs` (the server's threads and the grid barrier), `PrefixCacheProofs`,
`ToolMemoryProofs`, `DiskPrefixCacheProofs`, `DaemonLoopProofs` and `LayerSplitProofs`, see
section 5. `SpeculationLemmas` is about the
operators every backend is made of: rings of rows, a pass over a cache and what it leaves
in it, the acceptance rule, streams of tokens and their end markers, the greedy
continuation, and the slots of the feature buffer and of the draft's mirror. `ListLemmas` has what the others need to know of prefixes of,
removing from and appending to a list, of least and greatest numbers, and of `Tally`, the
bytes of a set of things counted one by one, with which both caches state what their byte
counters mean. The `MC` modules supply the values of the runs.

## 3. Runs

| run | instance | what it shows |
|---|---|---|
| `server` | 2 clients, fair | no dangling or stranded job and no lost wake-up (`JobInv`), tear-down in order and alone (`TeardownInv`), the server implements `JobService` (`ServiceSpec`), every job is answered and a stop sees the clients off (`EveryoneGetsOut`) |
| `prefix_cache` | 2 slots, 5 prompts, qwen35 | the table and its reservation (`TableInv`), sound restores unless a named fault happened, the first of which needs an abort (`SoundUnlessAborted`), the snapshot of every entry is its own (`EntriesTracked`), hits outlive their request |
| `prefix_cache_alias` | 2 slots, qwen35 | violated: a wrong-KV restore after an abort |
| `tool_memory` | 3 ids, 4 texts of 0 to 3 bytes, 2 entries, 5 bytes, 2 calls a turn, fair | list, map and reference counts agree (`ListInv`), the byte counter is exact and both limits hold (`LimitsHold`), replays are exact, a new turn is pruned last, calls return |
| `disk_cache` | 3 prompts, 1 model, budget 4, continued checkpoints every 3 tokens, cold prefixes of 2 tokens, failures | sound restores, free staging slot, budget after a save |
| `disk_cache_restarts` | 2 prompts, 2 models, budget 3, 1 crash or bad write | index equals directory (`IndexInv`), no file of another model and no torn file is restored (`LayoutTrue`) |
| `emitter` | texts of up to 4 tokens of a vocabulary of 14, 3 formats, streamed or not, 2 stop lists | the split into reasoning, content and calls does not depend on the cuts and stop sequences cut exactly (`SplitIsRight`), deltas add up to the final text and cut no character (`StreamInv`), content blocks nest |
| `backends` | the 4 architectures with and without a draft, up to 3 commands, `QLen` 3, `MaxCtx` 9, window 6, features 5, ring 4, failing passes, drafts, loads and allocations | answers are the target's, complete and within their budget (`AnswerIsRight`); cache, recurrent state and features agree with the context (`StateInv`); snapshots keep their prefix; end markers; no pass on parked weights and compression restores what it parked (`ParkingKept`); commands end |
| `layer_split` | draft local, remote or absent, up to 2 of 5 requests, `QLen` 3, `MaxCtx` 11, ring 5, draft context 4, 2 captured layers, failing directory, fork, file, load, draft and pass, and a crash at any moment | answers are the target's and complete; requests and answers stay in step (`ProtocolInv`); no file and no child left (`NothingLeft`); the draft reads the features of its context; the split of layers covers them for any weights; everything ends |
| `megakernel` | 1 DeltaNet and 1 attention layer, 2 heads, up to 4 blocks on a device of 3, prompts of 1 and 2, `max_seq_len` 3 | barriers separate phases (`OrderInv`), every load is the sequential program's and every store inside its buffer (`MemoryInv`), the carried state is right after each call, calls return |
| `megakernel_race` | the same | violated: two blocks share the attention scratch |
| `rax` | 5 keys, 13 probes, 2 inline slots, nodes of 3 characters, all 9 kinds of failing allocation | until a fault breaks the tree it finds exactly its keys and counts them, lost ones included (`TreeInv`); cursors and the defragmentation walk (`IteratorInv`); an ordered map but for the steps `TakesKey` and `Breaks` (`IsOrderedMap`, refinement of `RaxMap`) |

Many properties are conjunctions of named parts, defined next to them (`JobInv` is
`TypeOK /\ JobAlive /\ NoStrandedJob /\ NoLostJobWakeup`, and so on); the parts have
comments of their own and at least one faulty variant each that violates them.

Bounds. Two clients let one job be served while another waits or arrives; the
invariants are proved for every number. Five prompts ask for snapshots of three different
prefixes over two slots, so that evictions, hits at two lengths and aborts at and
below capacity all occur. In the tool memory two entries for three ids make the entry
limit bite, five bytes are too few for two copies of the longest text, and texts are
shared and ids re-used. On disk, two prompts share a turn and one does not; the budget
holds two or three files, so that evictions happen with and without protected entries;
one crash is enough to tear any set of files at any point, and the number of restarts is
unbounded. In the emitter a tag is two units and four tokens make an opening and a closing
tag with text around or between them, a tool call with or without its wrapper, a stop
sequence across tokens, and a character cut in two; `MaxTokens` bounds the generation.
In the backends three commands are a prompt that leaves a snapshot, something that
disturbs it, and a restore; the ring and the feature buffer are shorter than a context,
the sliding window wraps, and one prompt with its answer fills the cache; the greedy
continuations reach the end token after a few steps, inside a drafted block too. In the
layer split two requests are one after another over the same state, the ring is shorter
than a context, and `MaxLayers` 5 bounds the layers and devices `LayersCovered` looks
at, with weights of 0 to 3. In the megakernel two heads against two to four blocks give
blocks with one head, with none and with several rows; the device keeps three blocks, so
that some grids are larger than it; the driver repeats calls until the three positions
are full; the LM head has four blocks, one of which waits for a place. In the radix tree
two inline slots instead of thirteen and nodes of three characters instead of
`RAX_NODE_MAX_SIZE`, with one key of four characters, bring both limits within reach: a
third child makes a leaf spill, and the long key takes two nodes, which a removal further up may
try to merge. `MaxLost` 1 bounds the keys lost in the life of one tree.

Deadlock checking is off for three runs: the server stops when it is told to, the
emitter at the end of its generation, the decoder when its positions are used up.

Fairness. Each thread of the server that can take a step eventually takes one (weak
fairness per thread): the operating system schedules runnable threads, a mutex is free
again after finitely many steps of its holder, a generation ends at `max_output`, a write
has a deadline. In the tool memory, a call in progress goes on (weak fairness of
`CallStep`): nothing in it waits. A peer is assumed to send its request or to hang up,
because `recv` has no timeout. Nothing is assumed of connections, signals or spurious
wake-ups: in particular a lost notification is not repaired by a spurious wake-up.
In `DaemonLoop` and `LayerSplit` a command, or a process with work to do, goes on: the
formulas spell out weak fairness of the working steps (`Runs`, with the variable `tick`
that makes each of them a change of state; `[]<>ParentWaits \/ []<><<ParentWork>>_vars`),
because TLC evaluates `ENABLED` of these large actions too slowly. Neither clients that send
commands nor a child that crashes is fair. In `Megakernel` every resident block makes
progress, a launch that is on the stream starts and a finished one is collected; a block
that is not resident gets no fairness of its own.

## 4. What the violated runs show, and what else was met

* `prefix_cache_alias`: an aborted snapshot below capacity leaves `next_slot_` one
  ahead, or one at capacity leaves it at a slot in use. A later snapshot goes into a
  slot whose entry is still in the table; that entry's next hit restores the other
  conversation ("never returning a wrong-KV restore").
* `megakernel_race`: blocks that own attention heads put the partial sums of their warps
  at the same words of `g_activations`, ordered only by `__syncthreads`; one of them may
  add up sums of the other.

Met while modelling, without a run of their own:

HTTP server and prefix cache
* The stop notification is sent without `queue_mu_` (`http_server.cpp:292`): between the
  worker's look at `stopping_` and its sleep it is lost, and `join()` hangs, although the
  comment there says "Wake the worker thread so it can observe stopping_ and exit.".
* `active_clients_` reaches zero before the last client thread locks `clients_mu_`
  (`http_server.cpp:285`): the server can be destroyed under it.
* The server confirms an inline snapshot on the number of tokens generated, not on
  whether the backend saved it ("Confirm after daemon successfully saved the
  snapshot.", `prefix_cache.h:80`). It was not saved on laguna after a restore, on
  qwen35 when a hit or a cold prefix lies beyond its position, and after a failed
  allocation. `RestoreSound` of both cache modules excludes behaviours in which this
  happened (`faults`), as a wrong restore follows from it.
* An abort that comes after the save leaves `slot_tokens_` with the former snapshot's
  tokens (`http_server.cpp:937`); `EntriesTracked` speaks of entries of the table only.
* `read_http_request` blocks in `recv` without a timeout (`http_server.cpp:1175`). The
  staging slot is slot 63 whatever the capacity of the prefix cache (`:787`).
* The worker ignores a failed unpark inside a compression (`http_server.cpp:725`).

Disk cache and tool memory
* `lookup` hashes the whole prompt only (`disk_prefix_cache.cpp:310`), so no longer prompt
  finds the file of a cold prefix.
* A continued checkpoint is filed under a rounded-down prefix but holds the whole
  generation (`disk_prefix_cache.cpp:431`). Whoever sends that prefix as a prompt gets an
  error (`qwen35_backend.cpp:556`), each time, since the file stays.
* A layout learnt from disk is not trusted before the first snapshot, which comes after
  the first lookup, so that there are no "first-request disk hits"
  (`disk_prefix_cache.cpp:132`). `reset_continued` ("call at start of each request",
  `disk_prefix_cache.h:98`) has no caller. A crash during a write leaves a `.tmp` file
  that nothing removes (`:379`).
* Entries younger than a minute are not evicted and a save is turned down only when the
  file alone exceeds the budget, although the comment at `disk_prefix_cache.cpp:356`
  says "even after evicting all evictable entries"; `BudgetAfterSave` states what holds.
* In the responses format each `function_call` item is replaced by the whole raw text of
  the turn it came from (`http_server.cpp:79`), so that a turn of two calls is replayed
  twice.

Emitter and parser
* The callback drops tokens spelled `<...>`, `</think>` included
  (`http_server.cpp:884`): when it is one token, reasoning never ends
  (`sse_emitter.cpp:319`, `docs/API.md:100`).
* Reasoning flushed by a stop sequence or the end comes out as a `thinking_delta` inside a
  text block in the Anthropic format (`sse_emitter.cpp:198`, `:421`).
* Overlapping spans leave markup in the text (`tool_parser.cpp:438`); calls come out in
  the order of the patterns, not of the text; per-token `utf8_sanitize` turns a split
  character into U+FFFD.

Backends, daemon and speculation
* Near the end of the cache a speculative block or the last step is written past
  `max_ctx` (`http_server.cpp:616`; `server.py:1346` keeps a margin of 20 tokens); the
  answer is promised within `Fits` only.
* gemma4 batches longer than what is left of the sliding window overwrite rows still in
  the window (`gemma4_graph.cpp:548`), and the inline snapshot of a prefix is copied after
  the whole prompt was evaluated (`gemma4_backend.cpp:514`), from a ring that has moved on.
  For a prompt longer than the window neither the answer (`Fits`) nor the snapshot
  (`InWindow`) is vouched for; the `backends` run has such a prompt. Park and compress free
  all its snapshots while `PrefixCache` still lists them; unpark leaves the feature buffer
  null.
* The plain loop of qwen35 evaluates the first token at a position one too far
  (`qwen35_backend.cpp:747`), as does qwen3's: `Claimed` says how many tokens of their
  answers the models vouch for. qwen3 has no check for a prompt shorter than its snapshot.
* qwen35 ignores the result of `restore_target_cache`; a failing RESTORE writes two end
  markers, for which `server.py:1356` has a special case; errors on laguna and oversize
  requests of the sharded daemon (`layer_split_daemon.cpp:33`) write none;
  `scripts/prefix_cache.py:1155` waits for a line the daemon spells differently.
* After the end token of an accepted batch the layer-split driver emits the rest of the
  batch (`dflash_spec_decode.cpp:202`).
* A command written to a draft process that has died raises SIGPIPE and ends the parent;
  a failed write leaves its file and so the work directory.

Radix tree
* After a key is removed from a compressed node of two or more characters nothing is
  recompressed (`rax.c:1311`), although `rax.h:93` says it must be.
* Four faults, each named in the properties of the run. Out of memory at the first turn of
  the insertion loop, at an existing childless key, removes that key and leaves `numele` one
  too high (`rax.c:1064`, `TakesKey`). In a tree whose last key was lost so, a seek to the
  end fails its assert (`:1945`). The second scan of the recompression has no size limit
  (`:1428`), so that a chain longer than a node, 65535 characters, is copied past the new
  block. A failure inside `raxAddChildNoAlloc` after the parent was moved leaves the link
  to it dangling. The last three are `Breaks`.
* `raxPrev` after a random walk that stood on an inline leaf starts at the wrong child; the
  model does not call it there.
* No file of the repository includes `rax.h` yet.

Megakernel
* DeltaNet head h is computed by block h: a grid of fewer than 16 blocks, which the
  override allows, leaves heads out (`kernel.cu:316`); the instance keeps enough blocks.
* The result of `cudaLaunchCooperativeKernel` is not looked at
  (`kernel_gb10_nvfp4.cu:2053`); the NVFP4 driver has no bound on positions; the fused
  prefill kernels have their own stride `MAX_SEQ`; scratch of `prefill.cu` is too small for
  prompts beyond 3584 rows (`:1749`). The model stays within these limits.

## 5. Proofs

Every statement below holds for all values of the constants.

Server, any finite set of clients: `TypeCorrectness`, `JobLifetime`, `NobodyStranded`,
`WakeupsDelivered` and together `JobsAreSafe` (`JobInv`); `TeardownIsAlone`,
`ClientsAreGone`, together `TeardownIsOrdered` (`TeardownInv`);
`ServerImplementsService`: every step of the server is a step of `JobService` or a
stutter (the liveness half is left to TLC). The inductive invariant `IInv` of
`SynchronisationProofs` adds who holds which mutex at which program counter, that a queued job
is undone, queued once and not the current one, that a waiting client's job is done,
queued or current, what the worker knew when it last looked at the queue, and that
`active_clients_` is the number of threads it counts. Without them neither the queue nor
the counter could be shown to be right after a single step. Assumptions: the set of
clients is finite and `NoJob` is none of them.

Prefix cache, every set of prompts, every capacity and each of three backends (TLC runs
qwen35): `TypeCorrectness`, `TableStaysBounded`, `ReservationKept`, together `TableIsKept`
(`TableInv`); `RestoresAreSound`, `AliasOnlyAfterAbort`, together `SoundUntilAborted`
(`SoundUnlessAborted`). The invariant adds that a reserved slot is for a prefix not in
the table, that until the first abort the slots in use are exactly the first ones
(`Rotation`), and that as long as neither named fault has happened no two entries
share a slot and every entry but the one reserved for eviction has its own prefix in
its slot (`Coherent`). On top of it, `EntriesAreTracked` (`EntriesTracked`) follows
`slot_tokens_` through every confirmation and abort (`Tracked`), and
`HitsOutliveRequests` (`HitOutlivesRequest`) rests on a hit's entry being the last of the
table until the request ends (`Recent`), so that with two entries it is not the oldest.

Tool memory, every set of ids and texts, every size and both limits: `TypeCorrectness`,
`ListAgrees`, `RefsAreExact`, together `ContainersAgree` (`ListInv`); `ReplaysAreExact`
and `EntriesBounded`. The invariant holds between any two rounds of a loop, so it has to
say which block may be without references (`Filling`: the one `remember` has just made
and not yet given to an id), that an id is either unknown or known for what was said
of it last (`Current`), and what the call in progress still has to do (`OpOK`).
`NewTurnsArePrunedLast` (`NewTurnPrunedLast`) adds the order of the list: the ids that
the turn has stored so far are its end (`NewestLast`), so that `prune`, which takes the
front, reaches them last. `LimitsAreKept` (`LimitsHold`) is about the byte counter, which
the code keeps by additions and by subtractions clamped at zero. `Tally` counts what the
counter stands for byte by byte, as the cardinality of a set of units, so that neither a
fold nor an induction is needed: the lemmas of `ListLemmas` say what entering and dropping
a text do to that cardinality. `BytesInv` says that the counter is exact between any two
rounds of any loop, which makes the clamp idle, and that it is within the limit whenever
no `remember` is at work; that `prune` cannot stop above the limit for want of ids follows
from the reference counts.

Disk cache, every set of prompts and models, every limit and any number of crashes and
restarts: `LayoutsAreTrue` (`LayoutTrue`). The invariant adds that a layout that is
known and was not guessed from a directory is the running model's (`Verified`); the
lemmas follow it through `learn_layout`, which every save goes through first, and
`save`. `SavesMakeRoom` (`BudgetAfterSave`) follows from it for any sizes.

A second invariant, `SInv`, says what every snapshot holds. A file's state was computed from
a prefix of its key, or from more than its key (`Fits`): a continued checkpoint is filed
under a shorter prefix than it holds, and what keeps it from being restored for just that
prompt is that `restore_and_generate` turns down a snapshot longer than the prompt. The
in-memory entry has its own prefix in its slot but between a new snapshot and its
confirmation (`MemSound`), and the staging slot is in use only for a request restored
from it (`StagingOwned`). `StagingIsFree` (`StagingFree`) and `RestoresAreSound`
(`RestoreSound`) follow. The latter is proved under the two conditions it is stated with,
that no unsaved snapshot was confirmed and no slot saved under another prompt's tokens;
section 4 shows the code reaching both. The cold boundary being a boundary needs the maximum
of a finite set of numbers to exist, which `WFMin` of the library gives.

`IndexIsTheDirectory` (`IndexInv`): for every budget the entries are the directory's files
of the running layout with their sizes, `total_bytes_` is their sum (a `Tally` again), and
no variable leaves its type. The invariant `TInv` adds that a directory has one file of a
name (`DirOK`), which is what makes a write that replaces a file take the old size off the
counter exactly once, and the types of the request in progress; the lemmas follow the index through a scan, a
layout learnt late, a write that fails unnoticed, evictions, the removal of a bad file, and
a crash that leaves files torn or without a header.

Grid barrier, any number of blocks, slots and phases: `BarrierSeparatesPhases`. The
invariant relates the counter to the blocks that have arrived at the current
generation, and each block's `local_gen` to its phase: a block that waits has the
generation it saw, and nobody can be two phases ahead.

Layer split and remote draft, any vocabulary, target function, requests, sizes, number of
passes and set of faults, a daemon that may die between any two steps, and any number of
requests: `ProtocolHolds` (`ProtocolInv`), `NothingIsLeft` (`NothingLeft`), `AnswersAreRight`
(`AnswerIsRight`). The invariant has two halves, kept by different steps. `IpcInv` relates
the call in progress, the two pipes, the daemon and the files: at which station a call can
be while which words are in which pipe (`AnswersOK`: nothing but the status, or the status
and the hidden states, of the call being waited for; `LinesOK`; `DaemonOK`: what the daemon
works on is the call being made), and that the only file around is that of the call or one
whose write failed (`FilesOK`). A protocol without tags stays in step only because
of these. `RunInv` is about the request: what each pass of the loop is over (`PassOK`),
that the counters are those of the tokens (`CountsOK`), and, as long as the request fits the
cache, that the cache, the recurrent state included, was computed from the prompt and the tokens
committed so far (`RightOK`) and that the token to come is the target's own. During a
verification the live state has moved on over drafted tokens; what `RightOK` keeps of it is
that the saved copy is that of the context and that the rows below the committed position
are untouched. A request that ends leaves an answer `EndedWith` describes. What is
proved of any backend's step is in `SpeculationLemmas`: `ContextRight`, `AttentionFacts` and
`GraphRight` (a pass that starts from the right context computes the target's own answers
and leaves the right rows behind) and `CommitIsGreedy`, the acceptance rule: whatever the
rest of a drafted block is, the tokens that are kept of it, the bonus token included, are what the target
would have produced one at a time.

`LayersAreCovered` (`LayersCovered`) is about `compute_layer_ranges` alone. `RangesCover` has no bound on
layers, devices or weights: a device's end is past its begin and leaves one layer for each
device after it (`RangeEndFacts`), so that the ends increase from nothing to the last layer.
The sums and the ends are recursive functions; `RecursiveFunction` and `CountUp` of
`ListLemmas` give their equations and the induction over devices.

`DraftsSeeContext` (`DraftSeesContext`) needs two more invariants. `LinkOK`: a slice or proposal under
way is the one the parent's pass or loop stands at, the file it names has its rows,
and what an answer carries was read for it (`ArgsOK`, `SentOK`, `SeenOK`). `RingOK`: for
each captured layer the ring holds the features of as many positions as the copies of the
pass have brought (`CopiedIn`, counted by `DoneOf`), but for slots that positions up to `Top` may have
taken, and a slice the daemon has written counts before its answer has been read (`Served`), since
the daemon can die in between. Copies go layer by layer and chunk by chunk, so at
any time the layers have got to different positions; when the last copy is made all have
got to the end of the pass (`AllCopied`). Two positions share a slot only if they are a ring
apart or more (`SlotsApart`), and of the rows of a slice longer than the ring the last ones
stay (`SliceHits`). Rows of rejected tokens are the reason for `Top`: the slots they took are those the
property leaves out.

Backends and daemon loop, each of the four architectures with or without a draft, any
vocabulary, target function, requests, sizes, set of faults and number of commands:
`AnswersAreRight` (`AnswerIsRight`: what is streamed is the target's own greedy
continuation, within its budget and complete), `SnapshotsAreKept`
(`SnapshotsKeepTheirPrefix`), `CachesAgree` (`CacheAgrees`), `TypesAreKept` (`TypeOK`),
`EndMarkersHold` (`EndMarkers`), `AnswersAreInBudget` (`AnswerInBudget`) and the action
property `ParkingIsKept` (`ParkingKept`); and, where a prefill chunk and a block fit in the
draft's mirror, `StateIsKept` (`StateInv`: with the types and the cache, the features the draft
reads). The proof has three invariants, each on top of the one before. The invariant `Inv` of `DaemonLoopProofs` says what the process keeps across
commands (`ProcessOK`, `CacheOK`, `SnapsOK`), what each station of a request relies on
(`JobOK`), and what the stream is made of (`StreamOK`): while a request goes on, at most
`job.n` tokens without an end token; once it has returned, such tokens with possibly an end
token last, and after them at most one marker from the backend and one from the daemon.
A verification or a batch is emitted until the callback refuses or the end token comes, so
that what `EmitBatch` offers is followed token by token (`EmitBatchFacts`, `TurnEnds`). Two parts are
there for qwen35: `LastKnown`, by which a restored or continued cache has a last token to go
on from, for which every used snapshot must be `Sound` in turn. `ParkingKept` needs
that a request in any working station has its target in memory, and its draft when it
speculates, although park and compress are commands of their own: they are taken only
between requests. There is one lemma for each step of each backend, and one for each
of `generate`, `restore_and_generate` and the commands.

The second invariant, `AnswerInv`, says what rows, states and tokens were computed from. Two
parts hold between requests: a named slot has the state after the prefix it is named for
(`SnapsRight`; on gemma4 the rows of the sliding window of that prefix too) and the ring of
the sliding window has its size. The other, `WorkInv`, has one part for each station of a
request: a prefill that has evaluated so much of the prompt holds the rows of that much
(`PrefillRight`); at the start of a speculative turn cache and pending token are those of the prompt
and the tokens streamed so far (`DraftRight`); between verification and commit the
target's answers are those to the drafted block, and qwen35 can still go back to the copy of its recurrent state, while
gemma4 keeps rows of the whole block in cache and window (`CommitRight`); the plain loops
are right as far as `Claimed` goes (`PlainRight`, `SecondRight`); and what has ended is an
answer with at most two markers, complete if nothing cut it short (`EndRight`). `PlaceOK`
keeps the counter `job.n` equal to the tokens streamed, which is why a callback that
refuses has to be followed: on qwen35's plain path the first token is emitted and refused in
one step and the loop goes on in the next. `Holds` asks that the cache's rows
begin with the context, not that they end with it, since a pass reads no row past its own end;
for qwen35 it adds the recurrent state, for gemma4 the rows in the sliding window's ring.
The parts other than `PrefillRight` are about requests that fit
(`Fits`) and whose restored slot was named for a prefix of the prompt (`exact`); a prefill
has to be right beyond that, since what it saves is restored by requests that do fit. The
first invariant is what the second needs about positions, lengths and the unfitting requests in between.

The third invariant, `FeatInv`, is about the captured features. The target writes those of a
position to a slot of its buffer, `sync_range` copies a range of them to the draft's mirror, and
both are rings of different sizes that are written out of step. What `DraftSeesContext`
says of the draft's reads at one station has to be carried through the others: during a prefill
the mirror has the last positions of what was evaluated, and on gemma4 the buffer has those of
the prompt so far (`PrefillSeen`); when a turn begins the mirror has the last positions of the
tokens streamed (`DraftSeen`); between verification and commit the buffer has the
whole block, the rejected part included, of which the commit copies the accepted part
(`CommitSeen`). Two parts hold between requests: the buffer keeps its size (`FeatSize`; gemma4's
is gone after a park, and then nothing is claimed), and a named slot has the features of its prefix
(`SnapFeats`), since a gemma4 restore writes the whole mirror from it (`TailSynced`). The hypothesis is
`SizesFit`: the mirror is no larger than the buffer (`qwen35_backend.cpp:108`,
`gemma4_backend.cpp:123`), and chunk and block are no larger than the mirror, which holds by
default (512 against 4096 and 2048 positions, or a context in which no chunk is longer than
it) but not for every value of `DFLASH27B_PREFILL_UBATCH` (`qwen35_backend.cpp:592`): a longer range is
refused, no caller looks at that, and the draft goes on with old features. No answer depends on it
(`AnswersAreRight` has no such hypothesis), only how much of a draft is accepted. The run's constants
satisfy it, and TLC evaluates that (`MCSizesFit`).
`PassRight` lemmas of each backend connect the graphs to `GraphRight`, and `KeptRight` the
commit to `CommitIsGreedy`.

Assumptions: the requests are those that clients make (`RequestsAssumption`: a prompt that
is not empty, `daemon_loop.cpp:283`; a prompt and a budget within `max_ctx`, which the HTTP
server enforces, `http_server.cpp:615`, and the daemon leaves to its clients; a snapshot position of at
least one), the architectures are those `create_backend` knows (`KindsAssumption`) and -1 is no slot
(`SlotsAssumption`). Of both components: tokens are numbers different from the mark of a wrong row, the target's choice is a token
(`PredictAssumption`, an argmax over the vocabulary), a block has at least two tokens, and
prompts are not empty (`RequestsAssumption`; the daemon and the driver turn an empty one
down, `layer_split_daemon_loop.cpp`, `test_dflash.cpp:460`) and ask for `n_gen` of zero or
more tokens, which the code does not check but every client of it observes.

Only model-checked: liveness, fairness and `ENABLED`, which the prover does not do; what
folds and recursive operators compute (the trees of
`RaxTree`, the texts of `SseEmitter`), which needs
an induction over data the installed provers cannot do;
and the decoder's memory.

## 6. Plan

Done, in this order: the server's threads and the inline prefix cache; tool memory; disk
prefix cache; emitter and parser; the grid barrier, the kernels' phases and the decoder;
the radix tree; caches, speculation, the four backends and the daemon loop; the remote
draft and the layer split; proofs for each of the first three and the barrier; proofs of
the byte counters and the disk index; proofs of the acceptance rule, the pipe protocol and
the layer split's answers; proofs of the daemon loop's types, end markers, budgets and
parking, and of the answers, snapshots and caches of the four backends; proofs of the
layer ranges and of what the drafts of the layer split and of the backends read. Open: a
proof of the order of the megakernel's launches.

## 7. Not modelled

* Numbers: tensor arithmetic, quantisation, sampling (decoding is greedy in the models), the
  `fa_window`, gemma4's sparse prefill, the copy between prefill and decode cache layouts
  (`migrate_prefill_cache`). Rows are named by what they were computed from.
* Tool hints and the draft tree only change what is drafted, and the models let the
  draft propose anything; the state machine that picks hints and the construction of the
  tree from probabilities are not modelled. Restoring a snapshot from disk into a backend
  is in `DiskPrefixCache`, not in the backends.
* Loaders, tokenizer and chat templates are file formats and text without state that
  outlives a call. The Python server duplicates the native one and sends commands
  `DaemonLoop` takes. `pflash` and `harness` are experiments and drivers.
* The dead half of the prefix cache (`init_full_cache` and `mark_all_cleared` have no
  caller), `touch` of the disk cache, node layout and `raxDefragReplaceNode` of the radix
  tree, the conversion of tool-call arguments by schema.
* Data races that are undefined behaviour: `tool_memory_` is used by several threads
  without a lock (`http_server.cpp:522`).
