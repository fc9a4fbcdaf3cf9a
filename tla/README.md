# TLA+ verification of custorouter

custorouter is a FastAPI router in front of several LLM providers. Clients send
Anthropic (`/v1/messages`) or OpenAI (`/v1/chat/completions`) requests; the
router picks a provider by the model's prefix, takes a credential from that
provider's pool, fails over to the next credential when upstream refuses, and
records every attempt as telemetry. This directory models its control logic in
TLA+, checks it with TLC on small instances, and proves the main safety
properties with TLAPS for every value of the constants. Paths below are relative
to `src/app/`; `PROJECT.json` maps every definition to the lines it stands for.

## 1. The system

All of the router runs in one asyncio event loop per process (`Dockerfile` starts
one uvicorn process; `docs/OPERATIONS.md`, "Scaling notes", discusses several).
Code between two `await`s is atomic, so the interesting interleavings are at the
awaits: calls upstream, to Redis, to Postgres, and background tasks started with
`_bg` (`config.py:211`), which nobody awaits.

| Component | State | Operations | What makes it hard | Correct when | Status |
|---|---|---|---|---|---|
| Request-log pipeline (`config.py` `add_request_log`, `redis_store.py`, `request_log_worker.py`, `database.py`) | Redis stream, consumer group, pending list; `request_logs` | append, fall back to Postgres, claim, read, batch insert, ack | at-least-once delivery, crash between insert and ack, a worker that ends at its start, MAXLEN, two processes, malformed and refused records | an acknowledged entry is stored, none is stored twice, none is lost but by trimming, all are stored in the end while a worker is left | `RequestLogQueue`, `RequestJournal` |
| Built-in key pools (`config.py`, `routers/proxy.py`) | key list, shared index, statuses, disabled providers | get, rotate, failover loops; add, remove, reset, activate, remove provider | one index shared by all requests and changed by the operator between their awaits | the index names a key, a request tries each key once and ends | `KeyPool` |
| Qwen Cloud pool (same files) | cursor per model, exhausted key/model pairs, quarantined keys, and their tables | the same, with marks and quarantine saved in the background; image, speech and video calls | shared cursors, unordered and lost writes, restarts, a provider removed across awaits | no key is skipped, exclusions survive unless their own write fails, rejected keys stay out | `QwenPool`, `KeyLists` |
| Migration drain (`main.py` middleware, `config.py`, `admin.py`) | gate in memory and in `server_config`, active count | admit or refuse, count, `PUT /api/operations/drain` | a request slipping past the gate, a count that leaks, restarts | the count is exact and reaches zero, a restart keeps the gate | `MigrationDrain` |
| Client gateway (`proxy.py:202-470`, `database.py:491-557`, `admin.py`) | router keys, quota, allowlist, renames, routes | authenticate, resolve the name, route over candidates, bill; update, reset, delete a key | check before, bill after; two UPDATEs per reset; key deleted during a call; settings edited apart | overrun bounded by the calls in flight, routes walked in order, no call outside the permitted models and route names | `Gateway`, `KeyAccess` |
| Route circuit breaker (`redis_store.py:271-318`) | one Redis counter with TTL per model | filter, record | INCR and EXPIRE are two calls; states go stale | a breaker closes again | `Gateway` |
| Custom providers (`config.py:667-862`, `proxy.py:603-876`) | registry, pools, index, cooldown, their tables | dispatch over a snapshot of the keys, one-attempt calls, add, remove | state read before an await and used after it, unordered writes, restart | the index follows a walk, memory and tables agree, a registered provider is saved | `CustomPool`, `KeyLists` (partly) |
| Stream translators (`translator.py`, `translator_openai.py`, `generate()` in `proxy.py`) | the open content block, held-back text, tool blocks | convert chunks; attempts and compaction around them | tags cut by chunk boundaries, interleaved calls, failure mid-stream | the events obey the block protocol and say what upstream said | `StreamTranslator`, `ChatConverter`, `MessageStream`, `BlockProtocol` (partly) |
| Context compaction (`translator.py:750-828`) | - | drop old messages | the cut falls between a call and its answer | no answer without its call, the last user message stays | `Compaction` |
| Multimodal endpoints (`proxy.py:2260-3123`) | the pools above | one attempt with the current key | rotation and cooldown shared with everybody | as for the pools | in `CustomPool`, `QwenPool`, admission in `Gateway` (partly) |
| Dashboard events (`sse.py`, `redis_store.py:121-190`) | queue of 100 per browser | fan out, publish, listen | a full queue | the newest event arrives | not modelled |
| Sessions and login limiter, admin pages, playground, schema and rollups, metrics | - | - | see section 8 | - | not modelled |

How they interact: the middleware (drain) wraps every inference request; the
request authenticates and routes (gateway, breaker), loops over a pool (built-in,
Qwen or custom), streams through a translator, and at each attempt calls
`add_request_log`, which feeds the pipeline and the dashboard. The admin API
calls the pool and drain operations in the same event loop.

## 2. Modules

| Module | Contents |
|---|---|
| `RequestJournal` | abstract specification of the pipeline: each event is logged once, waits, and is stored for good or given up for a stated reason |
| `RequestLogQueue` | the pipeline, with the refinement mapping `JournalState` |
| `KeyPool` | a built-in pool, its failover loops and the operator |
| `KeyLists` | a list of keys less one of them, for the two pools that keep tables |
| `QwenPool` | the Qwen pool, its loops, the operator, its tables, background writes, restarts |
| `CustomPool` | one custom provider: walk, one-attempt calls, registration, removal, tables, restart |
| `KeyAccess` | names, renames, allowlist and routes of a router key, and which settings the admin API accepts |
| `Gateway` | EXTENDS `KeyAccess`: admission, routes, breaker, billing, the operator |
| `BlockProtocol` | abstract specification of an Anthropic message stream |
| `StreamTranslator` | `stream_as_anthropic`: tag scanner, blocks, tool calls |
| `ChatConverter` | the Anthropic-to-OpenAI stream converter |
| `Selection` | what a list comprehension keeps of a list, by ranks of positions |
| `Compaction` | EXTENDS `Selection`: `compact_messages` as an operator |
| `MessageStream` | EXTENDS the three before it: one streamed request, with attempts, levels and failures; shown against `BlockProtocol` |
| `MigrationDrain` | the gate, the counter, the PUT |
| `SequenceLemmas` | lemmas on sequences, bags, minima, selections, positions on a ring and searches that go back in a list, used by the proofs |
| `RequestLogQueueProofs`, `KeyPoolProofs`, `QwenPoolProofs`, `CustomPoolProofs`, `GatewayProofs`, `MessageStreamProofs`, `MigrationDrainProofs` | theorems |
| `MCRequestLogQueue`, `MCKeyPool`, `MCQwenPool`, `MCCustomPool`, `MCGateway`, `MCMessageStream`, `MCMigrationDrain` | constants for TLC |

An operator whose comment begins with "Mutant" is not part of the model: it is
the plausible bug that `PROJECT.json` pairs with a property. Replacing the
definition after it by the mutant makes TLC find that property violated.

### RequestLogQueue

A request handler ends in `add_request_log`; its background task
(`_persist_request_log_off_path`) is `task[e]`: `EnqueueRequestLog`, `EnqueueReplyLost`,
`EnqueueFails`, then `PersistRequestLog` or `PersistRequestLogFails`. The stream is the
set of entries it still holds, ordered by `entryId`; the group is `delivered` and
`pending`; `stale` are pending entries idle for `min_idle_ms`. `run_request_log_worker`
is `pc[p]`, one action per awaited call. It begins at `"start"`:
`ensure_request_log_consumer_group` (`request_log_worker.py:70`) is awaited before the
loop and outside its `try`, in a task that `main.py:80` creates and nobody supervises.
`JoinGroup` enters the loop; `JoinGroupFails` ends the worker (`"ended"`) while its
process goes on, until the process stops and is restarted. The lifespan has created the
group before (`main.py:77`), so the call changes nothing in Redis. The loop is
`ClaimStale`/`SkipClaim`, `ReadBatch`, `PersistBatch`, `AckBatch`, `BackoffOver`, and
for each call its failure, which includes the case that the server applied the call and
the answer was lost. `Crash` and `Restart` stop and start a process; Redis and Postgres
keep what they have. MAXLEN is approximate in the code, so `XAdd` trims any number of
the oldest entries that leaves `MaxLen` or more. XAUTOCLAIM of Redis 7
(`docker-compose.yml:22`) drops pending entries whose stream entry is gone. `Refused`
events decode but break a column limit; `executemany` is one transaction, so one of them
fails its batch.

Left out: the heartbeat (its failure is a failure of the first call of the
loop), pruning and rollups, and `persist_request_log_batch`'s early return
without a pool, which the lifespan excludes (the worker starts after `init_db`
and is cancelled before `close_db`).

### KeyPool

`keys`, `idx`, `status`, `disabled` are the globals of `config.py` for one provider.
`Begin` is the gate, the empty-pool check and the first iteration; then a request is
`"upstream"` (awaiting its response) or `"broadcast"` (awaiting the dashboard broadcast
after a rotation). The non-streaming and the streaming loop of `/v1/messages` have the
same control and share the actions; the generator of a streaming response starts one
scheduling step after the gate, which is folded into `Begin`. `get_current_*_key`
outside the `try` raises `IndexError` when the index is out of range: outcome
`"indexError"`. Bounds of the loops are as in the code: the attempt count is fixed when
a loop starts (`budget`), "is this the last attempt" is measured against the list as it
is now. `RemoveProvider` and `RemoveProviderDone` split `remove_provider` at its first
await; `bulk_remove_api_keys` is several `RemoveApiKey` steps without a step of anybody
else between them. The pools of bm, nry, dahl and marketku are the same code; the
environment fallback `BLUESMINDS_API_KEY` of an empty bm pool and the counter
`failover_count` are left out. Which provider rotates on a slow response is a choice
(`SucceedSlowly` or `Succeed`).

`alone[r]` is a history variable: nobody else moved the pool since the request
began its present loop. `ExhaustedMeansAllTried` and `NoKeyTriedTwice` need it: two requests
that fail on the same key both rotate, and a shared index then skips a key. That
is what the code does and the properties do not hide it.

### QwenPool

Adds to the pool the per-model cursor (`get_current_qc_key_for_model` moves it,
`rotate_qc_key_for_model` starts after the key that failed), the exhausted pairs and
quarantined keys. `Verdict` is what `_is_qc_model_quota_error` and
`_is_qc_invalid_key_error` say of a response. Requests are of four kinds, given by
constants: `/v1/messages` with its compaction levels, the loop for image models on the
same endpoint, `/v1/chat/completions`, and the native image, speech and video calls,
which make one attempt. The tables are `rows`, `rowStatus`, `rowFailed`, `rowDisabled`;
each `_bg` write enters the bag `writes` and `PerformWrite` executes any of them, in any
order (tasks take connections of a pool), or `WriteFails` drops it: `_bg` prints the
exception and forgets the write. `dropped` is the history of those, at most
`MaxDropped`. `removing` is the place of `remove_provider` between its awaits, and each
of its statements may fail; one such call runs at a time. `Restart` loses the bag and
the requests and runs `init_state_from_db`. `rejected` is a history variable: keys
upstream rejected since the operator last put them in service; `wiped` that the provider
was removed in this life.

### CustomPool

`registered`, `keys`, `idx`, `cooling` are the entries of one prefix in
`CUSTOM_PROVIDERS`, `CUSTOM_PROVIDER_KEYS`, `custom_key_index` and
`custom_rate_limited_at`; `providerRow` and `keyRows` the tables. `Dispatch`
takes the snapshot of the keys that begins with the current one, `Settle` ends
the walk with an answer or an error no other key would cure, `Retry` rotates the
shared index and moves on.
`ForwardJson` and `ForwardMultipart` are the one-attempt calls of the multimodal
endpoints; only the JSON ones heed the cooldown and start it.
`InsertProvider` and `RegisterProvider` are the two halves of
`add_custom_provider`; `RemoveProvider`, `DeleteKeyRows` and `DeleteProviderRow`
the steps of `remove_provider`, of which several calls may overlap. Key inserts
and deletes are background writes as in `QwenPool`. A statement and the
resumption of its caller are one step; but the reply may be lost, and then
the statement is done and its caller ends with an error: `AddProviderFails`
leaves a row without a provider, `RemovalFails` a provider without its row, or
with neither statement done. History variables say what a property
excepts: requests nothing interfered with (`alone`), removals that overlapped or
whose DELETE of the provider's row lost its reply (`disturbed`), statements that
failed, and keys whose own writes ran side by side (`stray`).

### Gateway

`row` is the router key in Postgres, `used` its `tokens_used`, `fails` and `ttl` the
breaker counters in Redis. `AskRoute` and `AskModel` are admission: the one SELECT of
`verify_router_api_key` and the resolution of the name; the settings read with the row
(`seen`) are kept for the request. `AskMedia` is admission at the JSON endpoints of
images, audio and videos (`_require_multimodal_model`): the same row and the same test
of the name, but no route. `_model_allowed_for_key` lets the name of any route pass
(`proxy.py:339`), so these endpoints call a route's name as if it were a model;
`MediaEnds` is their answer, which is not billed. Their multipart bodies (edits,
transcriptions, videos) are forwarded without reading a key row, hence without settings
to respect, and are outside this module. `Filter` is the MGET, `TryCandidate` the call,
`Answer`, `AnswerStream` and `Refused` its outcomes, `Bill` and `StreamBill` the UPDATE
that adds the tokens, `RecordSuccess`, `RecordFailure` and `Expire` the breaker's calls.
Redis and billing errors are swallowed as in the code. The operator updates, resets and
deletes the key; `reset_usage` is a second UPDATE after others may have run. Several
processes share the row and the counters, and `Die` stops the one a request runs in.
`KeyAccess!Accepted` is the validation of the admin API. The prompt prefix per model and
`last_used_at` are left out.

### StreamTranslator, ChatConverter, Compaction, MessageStream

`StreamTranslator` holds the locals of `stream_as_anthropic`: the current block, the
text buffer and `in_text_thinking`, the blocks of the tool calls. Text is a sequence of
pieces: a word, half of a tag's name (`"open1"`, `"open2"`, `"close1"`, `"close2"`), or
the `>` that ends a tag. As in the regexes (`translator.py:583`, `:623`) anything
without a `>` may stand between the name and the end, so a tag may be of any length;
`HoldBack` is the tail of twenty characters the scanner keeps back, which covers a bare
tag's beginning and not every tag's. `BlockProtocol` states what the comment at the head
of `stream_as_anthropic` promises a strict client; `WellFramed` is the step simulation.
Two exceptions are stated in the property: `returned` (upstream goes back to a tool call
something else interrupted, which the same comment calls not representable) and the step
to a second message, stage `"restart"`, which `generate()` takes when a context-window
error arrives mid-stream.

`ChatConverter` is the converter of `translator_openai.py`; `Compaction` is
`compact_messages` with messages reduced to role, calls made and call answered
(`Message`); a conversation is any sequence of them, well ordered or not.
`MessageStream` composes the three by the route a request takes (`via`):
`"messages"` (built-in provider: attempts over keys inside compaction levels),
`"custom"` (a custom provider of the OpenAI format, relayed) and `"chat"` (an
Anthropic provider behind `/v1/chat/completions`).

`DeliversTheReading` compares what the client got with `Reading`, a reference that
knows nothing of chunks, buffers or hold-back: `ReadingFrom(s)[i][mode]` is what is
to be delivered from position `i` of everything received, when that position is
reached in plain text, just behind an opening tag, or in thinking that has begun.
It makes one exception, `CutsHeldBack`: when a chunk ended inside a tag of which more than
`HoldBack` pieces had come, the scanner has already sent the tag's head as text,
and nothing is promised for that stream. `cuts` is the history of where chunks ended.
`Whole` says what a compaction must keep of a conversation. Positions and
selections in these definitions are functions, not RECURSIVE operators, so that
section 5 can reason about them.

### MigrationDrain

`Enter`, `Raise`, `Respond`, `BodyEnds` are the middleware of `main.py:183-246`;
`SetDrain` is the assignment before the await of the upsert, `SaveDrain` and
`SaveDrainFails` the upsert. `raced` is a history variable: two PUTs overlapped
or one failed in this process's life. A process that starts has `active = 0`.

## 3. Runs

| Run | Question | Bounds | Result |
|---|---|---|---|
| `log_queue` | safety of the pipeline; refinement of `RequestJournal` | 2 events (one malformed), 2 processes, batch 2, stream 1, 2 faults | holds |
| `log_live` | is everything stored, does the pending list empty, as long as a worker is left | 2 events, 2 processes, batch 1, stream 2, 2 faults, lost XADD replies | holds |
| `log_refused` | the same with one row Postgres refuses | 1 process, no faults | violated |
| `key_pool` | index, statuses, complete failover, termination, removal of a key | up to 3 keys, 1 messages and 1 chat request, 2 operator actions | holds |
| `key_pool_readd` | the index after the provider is re-added | the same, 4 operator actions | violated |
| `qwen_failover` | complete failover over a shared cursor; exclusions saved | 3 keys, 1 model, a chat, an image and a native request, 2 of them begun, no operator, 1 dropped write | holds |
| `qwen_operator` | index and quarantine under operator and restart | 2 keys (one also in the environment), 1 request of three kinds, 2 actions of all five, 1 restart | holds |
| `qwen_restart` | does a restart keep the quarantine | 2 keys, 2 requests, 1 restart | violated |
| `custom_pool` | index along a walk, tables against memory | 3 keys, 2 requests, 2 removers, 3 operator actions, 1 failed write, lost reply or restart | holds |
| `gateway` | quota, route order, permitted models, breakers | 2 requests at a time, 3 in all, 3 models, 3 settings (one refused), quota 1 and then 0 or 1, answers of at most 1 token, 1 update, 1 death, counters up to 1 | holds |
| `messages` | well-framed events, nothing lost, tool arguments, compaction | 2 tool calls, 11 kinds of chunk, 3 per request, hold-back 2, 2 attempts, keep 3 then 1 of 4 or 5 messages | holds |
| `drain` | exact count, closed gate, completion, restart | 3 requests, 3 PUTs, 1 restart | holds |

Why these bounds are enough for what they ask. `log_queue`: two entries are what a batch
with a good and a bad record, a trim of one entry and a replay need; two processes are
what a reclaim of a live worker's batch needs; two faults give a crash after a lost
reply. `log_live`: two faults end the workers of both processes at their start, or one
of them while the other crashes with a batch in hand; batches of one, because entries
that fail together are the question of `log_refused` and of the safety run. `key_pool`:
three keys distinguish "next", "previous" and "current", two operator actions give
add-then-remove. `qwen_failover`: with three keys and one other request, the cursor can
be moved to each key between two attempts; it has no compaction level above the first
(`LastLevel = 0`), since a level repeats the loop, and no `/v1/messages` request, whose
loop meets the operator in `qwen_operator`. One dropped write is an exclusion that is
not saved while another one is. `qwen_operator` leaves one request, because the race it
asks about is between a rejection, an operator action, the writes and a restart, and one
level; `qwen_restart` has two. It drops no write (`MaxDropped = 0`): its properties do
not read the tables, and to what a restart loads a dropped write is one still waiting
when the process stopped. `custom_pool`: three operator actions give a removal, a
registration and a key inside one walk, and two removers the removal that deletes the
row of a provider added again in between. `gateway`: one route of two candidates has an
order and a fallback, the second settings let a rename show the name of another model
and name a route like a model outside the allowlist, and with two requests and quota one
the overrun of the property is reached; an update before the first request gives a key
without a quota. `messages`: three chunks are a tag cut twice, or cut once with text
after it, or two interleaved calls with text between them; a hold-back of two covers a
bare tag cut before its `>` and not one with an attribute, so both sides of
`CutsHeldBack` occur; and every conversation of four or five messages, well ordered or
not, puts a call and its answer on either side of the cut. `drain`: three requests and
three PUTs give every overlap of a closing, an opening and a closing call. The proofs of
section 5 remove the bounds for all but the properties they name as only model-checked.

Bounds on counters: `MaxFaults` (errors, lost replies, crashes), `MaxOps` (operator
actions), `MaxRestarts`, `MaxDropped` (writes dropped), `MaxRequests` (requests begun),
`MaxDeaths`, `MaxFails` (a breaker's counter), `MaxTok` (tokens of an answer),
`MaxChunks`. Nothing else is bounded. `CHECK_DEADLOCK FALSE` is set where a finite set
of requests or events comes to an end, and in the runs of the pipeline because no worker
is left when all of them have failed to join their group; `messages` instead stutters
when its request is over, so a translator that got stuck would be reported. Symmetry is
used in safety runs only: the processes of `log_queue`, the requests of `gateway`, the
requests and removers of `custom_pool`.

## 4. Fairness

* `log_live`: a worker's fault-free step, the end of the reclaim interval and
  the restart of a stopped process (`restart: unless-stopped` in
  `docker-compose.yml`) are weakly fair, as are a task's Redis or Postgres call
  and the passing of `min_idle_ms`. Faults are not fair and finite in number:
  with errors for ever nothing can be promised. Nor is a crash fair: a process whose
worker has ended may live for ever, so both properties say `[]<>SomeWorkerLeft =>`.
* `key_pool`: a request's own steps are weakly fair, because upstream calls have
  timeouts (`proxy.py:114`) that raise, and the event loop resumes a ready
  handler. Arrival of a request is not fair, nor is any operator action.
* `drain`: a handler returns or raises, a body ends or its client leaves.
  Neither arrivals nor PUTs are fair.

The other runs ask for safety only, and their specifications state no fairness.

## 5. Proofs

All are for arbitrary constants under the named assumptions (`QueueAssumption`,
`PoolAssumption`, `DrainAssumption`, `QwenAssumption`, `CustomPoolAssumption`,
`GatewayAssumption`, `TranslatorAssumption`, `MessageAssumption`), which TLC
evaluates in the runs. Three theorems have a hypothesis of their own, named below.

* **RequestLogQueueProofs.** `IInv` is the conjunction of `TypeOK`, the three
  safety invariants and two strengthenings: `IdsWellFormed` (a task that has not
  called XADD has no entry, the stream and the group hold only entries that
  exist) and `AckingIsStored` (a worker about to acknowledge has stored its
  batch). `AckedImpliesStored` alone is not inductive: an ack step needs to know
  what the earlier insert step did, with any number of other steps in between.
  `JournalInv` relates tasks to entries and direct rows; with it every step maps
  to a step of `RequestJournal` or a stutter (`JournalImplemented`).
  `EventStoredOnce` (one row per event, keyed or direct) has the hypothesis
  `LoseAddReply = FALSE`: with lost XADD replies the code stores an event twice.
* **KeyPoolProofs.** Types, `StatusMatchesPool` and `IndexStaysInRange` are one
  induction, in which the removal case is the hard one: the index may have been
  rotated first. `NoKeyTwice` and `ExhaustedTriesAll` rest on `LoneInv`: what a request
  left alone has tried is the stretch of the ring of keys behind the index, whose
  length is its attempt number. `RemovalKeeps` is an action property: removing a
  position behind the index leaves the prefix before it alone.
* **QwenPoolProofs.** `TypeCorrect` and `IndexNamesAKey` as above, with tables and
  the bag of writes. `RejectedStaysOut` has the hypothesis `ChatReqs = {}`: the chat
  loop learns nothing from its last attempt. `ExclusionsSaved` has `AdminOps = {}`:
  the operator's own writes are not ordered with the exclusions. Its invariant
  `SavedInv` says an exclusion in memory is in its table or in the bag, and that
  the bag holds nothing but exclusions of keys that have a row; a write that
  failed is in `dropped`, which the property excepts. `ChatTriesAll` follows a walk
  from the key that failed, which is why other requests may move the cursor meanwhile.
* **CustomPoolProofs.** `RegisteredSaved` from where removers stand, unless the reply
  to a removal's DELETE was lost;
  `QuietTableMatches` from an agreement per key: row, bag of writes and list of a
  key that is not stray differ by exactly the write under way.
  `LoneRequestFollowed` is arithmetic on the ring: position in the snapshot and
  shared index advance together modulo the number of keys.
* **GatewayProofs.** `DispatchPermitted`, `RouteInOrder` from an invariant per
  request (what it saw, where it is in its route). `DispatchPermitted` says of the
  endpoints without routes no more than holds: besides the permitted models they may
  call the name of a route. `QuotaBounded` needs a
  stronger bound than the property: the tokens used and one answer for each request that
  is still to bill. `BreakerCloses` from the pair INCR, EXPIRE.
* **MessageStreamProofs.** `FramesWell`: the translator's open block is the wire's
  (`WireInv`), whence every step is one of `BlockProtocol`'s.
  `ArgumentsTogether`: deltas received are deltas sent and deltas still to handle
  in the chunk in hand, counted per call.
  `DeliveryIsTheReading`: `DeliversTheReading` is not inductive, because a tag or
  a call still to arrive changes how the reference reads what is held back.
  `DeliveryInv` therefore speaks of every continuation: whatever stands behind what
  was received, the reading of the whole is what was delivered followed by the
  reading from the place of the buffer, in the mode `in_text_thinking` and the open
  block amount to. A delivered run of pieces (`ReadingRun`), a tag (`ReadingCases`)
  and a tool call (`MarkerConsumed`) each keep it. Tags have any length, so what was
  delivered must not have been the head of one: `TagStopsAtTool`, `TagStopsAtTag` and
  `TagStopsAtCut` say that no tag reaches over a tool call, over a tag found, or, given
  `CutsHeldBack`, from before the tail kept back into the next chunk. The invariant is
  stated for the continuations that `CutsHeldBack` admits; `FewerCuts` lets a step
  that ends a chunk use it for what came before.
  `ChatCallsAssembled` from `ConverterNumbers`: the number a chat chunk carries is the
  rank of its block among the tool blocks begun so far, which a later block never
  changes.
  `CompactionKeepsConversations` is a fact about the operator (`CompactionIsWhole`) and the
  invariant that what was sent is a compaction of what was received. The cut
  moves back to a caller again and again; that it ends, and where, is a descent
  (`DescentDefined`, `DescentEnds`): each move is to an earlier message.
* **MigrationDrainProofs.** The count is related to the cardinality of the set of
  requests in service (three lemmas: one more, one less, the same).
  `GateIsSaved` needs `OneWriter`: while nothing raced at most one PUT is
  under way and the gate has the value it is about to save.
* **SequenceLemmas.** What removing, appending and rotating do to a sequence
  without repetition, what adding and taking do to a bag, what a selection of
  positions contains and in which order, the arithmetic of positions on a ring, and
  functions defined by a search that only goes back. Stated once, cited by name.
  The prover has no induction over data; where a lemma is about a length of any
  size it takes the least (or greatest) length at which the claim fails and
  refutes it.

Two more properties are stated and proved in the proof modules, and no run checks
them:

* `WalksGetShorter` (`WalksEnd` in KeyPoolProofs, QwenPoolProofs, CustomPoolProofs and
  GatewayProofs): a natural number, paired in the first two with the compaction level,
  bounds the steps a request still has to take; each of its own steps lowers it
  (or, there, raises the level, which is at most `LastLevel`) and no step of the
  operator, of other requests or of a restart raises it. This is the
  safety half of "every request ends", for every value of the constants; the other
  half is that a request under way is not left standing, which is fairness: for the
  built-in pools TLC checks both together as `RequestsEnd`. The measure is what
  depends on the code: a failed attempt counts up to the number of keys the loop saw
  when it began, so that keys added meanwhile do not prolong it; a custom
  provider's request counts the keys of its snapshot; a route never returns to
  a candidate, and each costs at most five steps.
* `SentKeysAreUsable` (`OnlyUsableKeysSent` in QwenPoolProofs): at the moment a Qwen
  request is sent, its key is pooled, not Invalid and not excluded for the model asked
  for, whatever happened between the choice of the failing key and this one.

Every safety property of the passing runs is proved. Only model-checked is all
liveness (`EntryEventuallyStored`, `PendingEventuallyCleared`, `RequestsEnd`,
`DrainCompletes`): liveness under fairness and `ENABLED` are beyond the prover
used.

## 6. What the checks found

1. `log_refused`: a telemetry row that Postgres refuses (a model name over
   `VARCHAR(100)`, `database.py:190`) fails its whole batch for ever and
   takes the well-formed entries of the batch with it, although
   `request_log_worker.py:58` promises that "A malformed record must not poison
   the queue forever". Malformed payloads are in fact handled (`log_live`).
2. `key_pool_readd`: removing a built-in provider while a later key is current
   and adding one key leaves the index past the end of the list
   (`config.py:846`); requests end in `IndexError`, although `database.py:420`
   says "Re-adding a key for the provider clears the disable."
3. `qwen_restart`: a start that finds no Active Qwen key makes the first one
   Active even when it is quarantined (`config.py:405`), against
   `config.py:604`.

Seen while modelling, without a run, because no text of the repository says
otherwise:

* `docs/ARCHITECTURE.md:72` describes a reset loop that returns limited credentials
  to service, but no code sets the status `Limited`, so
  `auto_reset_limited_keys` (`config.py:450`) never finds one.
* A chat stream of an Anthropic provider that breaks off drops the error event and
  ends in `[DONE]` (`routers/proxy.py:2053`); the client sees a complete answer.
* A context-window error after the first byte restarts the message: the client gets
  a second `message_start` (`routers/proxy.py:1482`). Any other error after
  the first byte ends the bytes without an error event (`:1498`) and is not billed.
* A Redis error at `request_log_worker.py:70` ends the log worker for as long as its
  process lives (`main.py:80` does not supervise the task), although the comment at
  `main.py:74` means to rule out a worker that fails silently. With one process
  nothing moves the stream on until the next restart.
* A background write that fails is printed and dropped (`config.py:211`), so an
  exhaustion mark or a quarantine can be lost at the next restart without a crash.
* A route may have the name of a model outside the allowlist
  (`routers/admin.py:967`): the endpoints of images, audio and videos then call that
  model (`routers/proxy.py:339`, `:2525`).
* A tag longer than twenty characters that a chunk cuts, such as
  `<think reason="step by step plan"` followed by `>`, leaks: its head leaves as text
  and so does the thinking after it (`translator.py:610`, `:649`).
* A DELETE or INSERT of a custom provider that was applied and lost its reply leaves a
  provider without its row, which a restart forgets, or a row without a provider,
  which a restart brings up (`config.py:804`, `:857`).
* A streaming 200 clears a candidate's breaker before the stream has proved good.
* The chat loop neither marks nor quarantines a Qwen key on its last attempt
  (`routers/proxy.py:2175`).
* The cooldown stamp of a custom provider survives its removal (`config.py:205`).
* A video task is polled with the pool's current key, which may have rotated since
  the task was created (`routers/proxy.py:3049`).
* A compaction level may send more messages than the one before: each starts from
  the original conversation and moves its cut back to keep calls with answers.

## 7. Plan

Done: pools, pipeline, drain, custom providers, gateway, breaker, translators,
compaction. Left, in order:

1. `Dashboard`: bounded queues that drop the oldest event, and the origin filter of
   events from Redis.
2. A composition of the drain, a pool and the pipeline: every request in service
   leaves its log, and a drained process leaves none behind.
3. The model list of a custom provider, which its refresh writes into the record read
   before the HTTP call (`config.py:777`).
4. `RequestsEnd` for `CustomPool` and `Gateway`, under a fairness of their own;
   that the walks get shorter is proved.

## 8. Not modelled, and why

* Sessions and the login limiter: each is one Lua script or transaction in
  Redis, atomic by itself, without state in the process.
* Dashboard events: display data, reloaded by the page when it reconnects; a drop and
  a put are one step without an await. First on the plan.
* Admin pages, playground, templates: validation and formatting around operations
  modelled elsewhere, or a client of the router.
* Multimodal endpoints: polling and download of a video and the request and answer
  formats, which pass bytes through; the admission of multipart bodies, which read
  no router key.
* Conversion of requests and whole responses between the two formats, and the token
  counters of a stream: no control. `stream_anthropic_filter`: nothing calls it.
* Model lists, modalities and their caches: data of `/v1/models`.
* Schema, hourly rollups, retention: SQL text. The constraints other parts rely
  on are modelled where they are relied on.
* Metrics, tracing, deployment files: nothing depends on them.
* Not observable in the models: `failover_count`, the in-memory totals and the
  list of recent requests, which are display data.
