# Verification of votrix-managed-agents

TLA+ models of the backend under `src/app`, TLC configurations that check them on
small instances, and TLAPS proofs, for every instance, of the safety properties that
those runs check.  All source
paths below are relative to the repository; `services/`, `db/`, `utils/`, `routers/` and
`runtime/` are directories of `app/`.

To repeat a run: `tlc -config SessionGate_cloud.cfg MCSessionGate.tla`.
To repeat the proofs: `tlapm` on each of the eight `*Proofs.tla`, which takes some minutes
each the first time.

## 1. The system

A client opens a *session* (a conversation) with a version of an *agent* in an
*environment* (a container image), sends it batches of events, and watches its
event log on a stream.  Every batch starts one *turn*: a worker runs the agent's
graph, which writes events, uses a container, and leaves files in `outputs/`.
PostgreSQL at READ COMMITTED is the only shared state between processes; the
hard behaviour is almost all of the kind "a row is read, an await passes, the row
is written".  The ORM makes that sharper in one way which several modules model: an
UPDATE writes only the columns whose new value differs from the copy that was read.

| Component | State | Operations | Talks to | What is hard |
|---|---|---|---|---|
| Session turn gate (`services/sessions.py`, `db/queries/sessions.py`, `worker.py`) | `status`, `stop_reason`, `lease_expires_at`, `lock_version`, `last_event_seq`; the event log; the graph's checkpoint | `send_events`, `cancel_session`, `process_session` with `_emitter` and `_hold_lease`, `sweep_once`, `delete_session` | task queue, engine, container, accounts | overlapping requests, dying processes, redelivery, lapsing leases, stale copies |
| Event log and stream (`append_event`, `services/event_broker.py`, `stream_events`) | rows numbered per session; waiters, preview queues, the listening connection | append, NOTIFY, publish a preview, wait, drain, read past a cursor | gate (as writer), SSE route | lost notifications, commit order, reconnection, a queue with a limit |
| Accounts (`services/accounts.py`, `utils/openrouter_management.py`) | account and credential rows; the provider's keys | create, ensure default, suspend, resume, resolve a spendable key | key provider | a provider call between two transactions |
| Environments (`services/environments.py`, `Image` in `utils/sandbox.py`) | recipe, image id, build id, build state | create, edit, refresh, archive, delete | build provider, sessions | answers about an old build, columns of two edits |
| Memory stores (`services/memory.py`, `utils/volume.py`) | store row, Volume, mounts | create, archive, delete, mount | Volume provider, sessions | deletion as a saga, mounts not committed yet |
| Files (`services/files.py`, `utils/storage.py`) | file rows, bucket, session bindings | upload, import, delete, attach | bucket, sessions | two stores without a common transaction |
| Output collection (`discover_outputs`, `capture_file`) | `outputs/` in the container, file records, bucket | reconcile after a turn, take one file | gate, files, container | an agent that writes meanwhile, a limit, files that are skipped, unique paths |
| Skills (`services/skills.py`) | skill row, package | create, update, rename, delete | bucket | two stores, column-wise updates |
| Agents (`services/agents.py`) | versions, active version | update, archive, pin | sessions | concurrent edits |
| Sandbox commands (`services/sandboxes.py`) | five files in the container | exec, poll | container | reading files while a shell writes them; a transport that breaks |
| Container ownership (`Sandbox.provision`, `delete_sandbox`) | containers, sandbox rows | provision, delete, use, time out | container provider, sessions | a container before its row, a kill that fails |
| Cursor paging (`db/queries/__init__.py`) | every listed table | `fetch_page` | all list endpoints | writes and deletes between pages, equal timestamps |
| Agent engine (`runtime/engine.py`, `runtime/tools.py`) | the graph's messages, what was announced | run the graph, pause, resume with answers, tell messages as events | gate, stream, tools | answers by position, pauses, turns cut between two nodes |
| Checkpoint store (`runtime/engine.py`) | pools, connections and their search path, tables, rows and blobs | open and close a pool, set up, get, put | engine, PostgreSQL, a transaction pooler | a setting that a pooler forgets, half-written checkpoints, two first turns |
| Container handle (`Sandbox.ensure_connected`, `run`, `LazyE2BBackend`) | the connection, when it was verified | trust, keep alive, reconnect, retry | container provider, tools | calls side by side, a time limit, connections that close |
| Session provisioning (`create_session`, `Sandbox.provision`) | a slot, the container's directories | take a slot, lay out, install skills, mount files | container, bucket, skills, files | downloads in batches that fail in part, changes at the source |
| API keys (`db/queries/vma_api_keys.py`, `scripts/bootstrap_api_key.py`) | key rows, row locks | bootstrap, create, revoke, rotate, stamp | organizations | one admin key, stamps and revocations that cross |

The remaining parts (the secret cipher, model catalogue and analytics, image previews, the
HTTP layer, migrations, most deployment scripts, the web site) are listed with reasons in
`PROJECT.json` and in section 8.

What makes each component correct:

* **Gate**: one turn at a time; a turn's words stand in its own turn; whoever sent a
  batch hears that its turn is over; a session is never locked out for ever; a paused
  session waits for its answer; ended sessions stay ended; `lock_version` tells turns apart.
* **Stream**: the client receives the log, whole and in order, over any reconnection.
* **Accounts**: one key per account; a suspension stops the spending.
* **Environments**: image and build are the recipe's, and "ready" means built.
* **Memory stores, files, outputs, skills**: a row and the thing it stands for agree,
  after any stop; nothing is destroyed under somebody who holds it.
* **Agents**: accepted edits are not lost; an archived agent stays archived; versions are
  never rewritten.
* **Engine**: an answer reaches the call it names; a parked session can be answered; the log
  tells what the graph did.
* **Checkpoints**: each is written whole, and where the next turn looks for it.
* **Handle**: a call survives a bad connection without being repeated when that is harmful.
* **Provisioning**: a container is handed out complete, or not; a slot comes back.
* **API keys**: one admin key and its successors; a revoked key stays revoked.
* **Commands**: run at most once; a report that says finished is complete.
* **Containers**: none runs that no row names; a deleted one is gone.
* **Paging**: a walk misses nothing that was there and repeats nothing.

## 2. How the models are built

One module per component, with `CONSTANTS` for the requests, the bounds and the
switches, `VARIABLES` for the rows and for each request's place and copies, one action
per stretch of code between two awaits (or two row locks, or two transactions) and
one `Spec`.  `MC*` modules declare the model values of the configurations, and the
symmetry sets where the properties treat the values alike.

Five `MC*` modules check components side by side that belong to one part of the system and
share no state: `MCOrganization` (accounts, keys), `MCResources` (files, memory stores,
skills, environments, agents), `MCRecords` (outputs, lists), `MCEngine` (handle, graph,
checkpoints) and `MCSandboxes` (containers with their commands, provisioning).  They extend
one, or two whose names differ, and take the others with `INSTANCE ... WITH`; `part` is chosen
once and says which of them moves, and the others stay in a first state.  So such a run is the
runs of its components, none of which loses a behaviour, and the product of their states is
never formed.  Only `MCSandboxes` states fairness, that of both its components: of the one that
stays, no action that is owed anything is ever enabled, so nothing is asked of it.

What would be a recursion over data is written so that a proof can follow it: a list is filtered
by flattening its singletons (`Only` in `Turns`), the events among the frames are a set that is
counted (`EventsIn` in `EventStream`), a place in an order is the number of those before it
(`Paging`, `Order` in `Provisioning`).  No module declares a `RECURSIVE` operator.

Two modules are abstract specifications, with no code of their own: `Conversation` says what the
gate owes a client (`SessionGate` implements it, `KeepsConversation`), `Delivery` what the stream
does (`EventStream` implements it, `Delivers`).  The mapping is `INSTANCE ... WITH` beside the
property.

* A *request* is an element of a constant set, used once; `pc` is its place in the
  handler.  The number of requests is the bound of a run.  Every request may overlap with
  every other, and every process may stop between any two of its steps.
* A transaction that reads a row, awaits, and writes it later is two actions with a
  copy in between; from its first row lock to its commit it is one.
* The other side of a call outside the database (a provider, a bucket, a queue) is a
  variable of its own, and a call may be carried out and still be answered with a failure.
* *History variables* record that something happened which the code gives up on (`late` in
  `ApiKeys`, `cut` in `Turns` and `strayed` in `Checkpoints` are of this kind too): `met`
  (requests of a kind have overlapped, `Accounts`), `crossed` (a request worked on a row that
  changed under it, `Environments`, `MemoryStores`, `Skills`), `torn` (a file changed while it
  was captured, `Outputs`), `cut` (a listing stopped at its limit with names left, `Outputs`), `storers` (the requests that stored a package, `Skills`), `lost` (a
  container that the provider made, or did not kill, and said otherwise, `Containers`).  No action reads them.  A
  property that has `~crossed` in front of it therefore holds in *every* other behaviour,
  and section 4 says in words what happens in those it excludes.
* Data is abstracted: a message, a package or a file's content is a model value; what a
  key is computed from (`object_key`) is kept, because properties depend on it.
* Definitions named `X_Something` next to a definition `X` are faulty variants of it: the
  bug that the property named in `PROJECT.json` exists to catch.

| Module | Models | State ↔ code |
|---|---|---|
| `SessionGate` | the gate | `status`, `stop`, `lease`, `gen` are the columns (`gen` is `lock_version`; `lease` is none, live or lapsed instead of a time); `log` is `session_events`; `bpc`/`bgen` a `send_events` call and the generation it read; `spc`/`smem` a `cancel_session` call and its ORM copy; `task`/`tries`/`names` Cloud Tasks or the inline task set; `wpc`/`mem`/`checked`/`outcome`/`hb` one `process_session` call with its copy, emitter and heartbeat |
| `Conversation` | what the gate promises | `turn` is the last batch of the log while the row is running, `over` a terminated row, `gen` and `log` as in `SessionGate` |
| `EventStream` | one session's log, one client | `next`/`lock`/`pend` the row lock of `append_event`; `rows` what is committed; `chan` the notifications on their way; `woken`, `queue`, `bell` the broker; `last`, `page`, `ended`, `spc` the generator `stream_events`; `wire` what the client has |
| `Delivery` | what the stream promises | `logged` counts `rows`, `told` the events in `wire`, `closed` is `terminated` |
| `Accounts` | one organization's accounts | `status`/`cred` the two rows, `minted`/`enabled` the provider's side; an ensure may be the backfill script's |
| `ApiKeys` | one organization's keys | `keys` the rows, `orgLock`/`keyLock` the `FOR UPDATE` locks, `copy` the key a request read or means |
| `Environments` | one environment | `row` = recipe, image, build, state, each a column that is written when it differs from the copy; `Recipes` have steps, `Machines` have none and differ in cpu and memory; `builds` the provider's builds |
| `Agents` | one agent | `handle` the `agents` row, `versions` the `agent_versions` rows, `copy` the handle an edit read, `pin` what a session keeps |
| `MemoryStores` | one store | row columns, `volume` and `mounts` at the provider |
| `Files` | an organization's files | `rows`, `objects`, `held` (`session_files`) |
| `Outputs` | one session's outputs | `box` the directory, `files` the records, `limit` the listing's bound, `listed` what `list_files` returned; `Big` contents are over `max_output_bytes`, `Odd` names hold a newline |
| `Skills` | one organization's skills | `rows`, `objects`, per request the row it read |
| `Containers` | containers and rows | `box` the provider's side, `row` the committed row |
| `Execs` | one command in a container that is `up` | `started`, `out`, `ended`, `rc` are the files of the run; `report` what each collector has read |
| `Sandboxes` (its constants in `SandboxCalls`) | the two together | instances of `Containers` and `Execs` over one state; `target` the container of the command, bare or a session's, whose end ends the command in the same step, as does the pause of a session's |
| `Provisioning` | sessions being created | `disk` what each container has, `snap` the skill rows as they were resolved, the batches of downloads and what arrived; `Library` and edits of it the bucket |
| `Handles` | one `Sandbox` and its callers | `native`/`age` the handle, `left` the container's time, `sound` the connections that are open, `pc` each caller in `ensure_connected` or `run` |
| `Turns` | one session's graph | `msgs` and `place` the checkpoint, `seen`/`announced` the locals of `execute_agent`, `log` the events that speak of calls, `parked` the row's stop reason |
| `Checkpoints` | one process's pools, one database | `pool`/`registered`/locks the module's globals, `conn`/`homed` connections and backends, `tables` the schemas set up, `tx`/`blobs`/`row` what is written |
| `Paging` | one table, one client | the rows with their times, `seen` the client's list; memory stores with a window and `include_archived` read the same way |

`SessionGate` also holds the parts of the engine, the queue and the output collection that
it meets, and `Outputs` the part of the gate it meets (a turn's end waits for the
collector); the other modules meet in the sessions that open (`Environments`,
`MemoryStores`, `Containers`) and attach (`Files`).  `PROJECT.json` maps every definition to
the lines it stands for.

## 3. Runs, and what they show

| Run | Question | Bounds, and why they suffice | States |
|---|---|---|---|
| `gate_cloud` | Is the gate right, is it a conversation, and does it go on, when nobody interrupts? | two batches over Cloud Tasks, the second an answer to a pause; two workers; two deliveries of a task: a batch can be claimed, lost, swept and overtaken, and a redelivery meets what its dead worker left | 244 000 |
| `gate_wild` | Is a session freed even when somebody interrupts, without any sweep? | two inline batches, the second an answer to a pause, two workers, one interrupt, whose stale copy can meet either turn or the time between them | 679 000 |
| `stream` | Is the wire the log, told one by one and none before its commit, and does all of it arrive? | four events, two writers, two events per transaction, pages of two, a preview queue of one, one lost connection: a page is full, a number is taken before a later one commits, a notification is lost | 234 000 |
| `organization` | Idempotency, one key per account, a suspension that suspends; one admin key, revocations that stay | two creates with one key, two ensures (one by the script), two suspends, one resume, one of each kind may fail or die; two bootstraps, a console create, two revokes, two rotations, a stamp, one expiry | 1 340 000 |
| `resources` | Do rows agree with bytes, Volumes, packages and builds after any stop; do held things stay; do edits of an agent follow one another? | files: two uploads that may share a content, an import, two deletes, an attachment; stores: a creator, two sessions, two deletes, an archive; skills: two names, two creates, an update, a rename, a delete; environments: two recipes with steps, two without, two edits, three builds (so that one is asked about after the next was started, and both edits may start one), a session, an archive, a delete; agents: two field values, two edits, an archive, a session | 2 240 000 |
| `records` | Do records match the directory; is a walk of a list whole? | three paths, one of them of two lines, three contents, one of them too big, two captures, three writes, a listing limit that cuts and one that does not; four ids at two times (so ties are forced), pages of one and of two, any table to begin with, two windows | 3 130 000 |
| `engine` | Do calls survive a bad connection; does an answer reach its call; are checkpoints whole and in their schema? | two callers, two connections, four ticks to a container's time and three to a command's limit; three calls in replies of up to two, three turns, a tool that asks, one that does not and a custom one; two sessions' turns, two pools of one connection | 1 070 000 |
| `sandboxes` | Is a report whole, a command run once and its end told, a container accounted for and deleted when reported so? Is it complete when it is handed out; is everybody served? | a bare container and a session's, a command in either with its first collector and a poll, two deletes (`Apart`: a command shares nothing with another container); two exit codes; output of one unit. Two sessions and one slot; two skills, one listed twice and one without a digest; batches of two, two attempts, two edits at the source; paths that are the same, or one inside the other | 378 000 |
| `expiry` | Is a container gone only when somebody deleted it? **No**, see section 4 | the same | violated |
| `shared_handle` | Has a call a connection when `ensure_connected` has returned? **Not always**, see section 4 | two callers, two connections | violated |
| `told_twice` | Is the result of a call told once, whatever was cut? **It is not**, see section 4 | a tool that asks, three calls in one reply, three turns | violated |
| `gate_takeover` | Has every batch that was handed over a task? **It has not**, see section 4 | two batches, one worker, Cloud Tasks | violated |

`gate_cloud` is the core.  It says, of a backend in which nobody presses stop, the queue
delivers a task twice only when its worker died, and a lease lapses only when nobody acts
under it: whatever processes die wherever, one turn runs at a time (`OneTurn`), its words
stand in its own turn (`OwnTurn`), the session is not idle until its client has been told
(`ToldIdle`), a parked session has a paused graph (`ParkedMeansPaused`), and every step of it is a
step of a conversation (`KeepsConversation`): a batch opens the next turn, the turn says something,
or it ends, told and in a new generation, and nothing follows the end.  A stale delivery that meets
the next batch, and a stale copy that meets an interrupt, are not in it: that is what the three
assumptions leave out, and section 4 says what happens then.

`Answered` says what the code owes the sender of a batch when no sweeper need run: the end of its
turn is told, or the batch is *stranded*, running under a lease that ran out, and that only for
one of three causes (`Lost`): the request died before the dispatch; the task's name was taken, or
its last delivery died; the delivery was refused the account's key before it began.  `Freed`, in
`gate_wild`, is the other half: a session that is running comes to an end, is deleted, or can be
claimed by the next message, also with an interrupt at any time.  Nothing in either waits for a
sweep; with one, a stranded batch is told of by `sweep_once` (`Sweep` is a step of both runs).

Where a property is a conjunction of named parts (`StreamIsLog`, `OneEach`, `FilesKept`,
`RowTellsVolume`, `Loadable`, `BuildTells`, `EditsFollow`, `RecordsTell`, `CallsSurvive`,
`OneHome`, `FurnishedWhole`, `NoneAstray`, `KeysEnd`), the parts are one promise seen from two
sides, and each has its own comment in the module.  The type invariants of `EventStream`,
`MemoryStores` and `Sandboxes` are parts of these; that of `SessionGate` is checked by itself.

`engine` needs a word on time.  `Handles` counts ticks: `Ttl`, `Fresh` and `RunLimit` stand for
360, 15 and 300 seconds (`config.py:150-151`, `_CONNECTION_FRESH_SECONDS`), and all that matters
of them is `RunLimit + Fresh <= Ttl`, which the configuration meets with the least room
that whole ticks allow.  `BackendLimit` is the timeout that `LazyE2BBackend` hands to
its delegate, `sandbox_timeout_seconds` itself, so that an agent's own command may still be
running when the container's time is out; `AwakeUnderIt` is about the commands of `run`.

## 4. What the code does not promise

Four runs are disagreements of the code with its own words.

* `shared_handle`: `ensure_connected` says "Guarantee a live connection" (`sandbox.py:789`).
  A call that waits for `set_timeout` in it is overtaken by another whose own connection
  fails and who therefore drops the handle (`sandbox.py:894-895`, `901-902`); the first then
  stamps and returns, and goes on to `self._native.commands` when `self._native` is None.
  The comments on skill installation know that concurrent `run` calls race on the handle; the
  tools of one message run concurrently all the same.
* `told_twice`: `execute_agent` says "Only messages past this index are new" (`engine.py:223`) and
  takes what lies past `last_index` for news (`engine.py:266`).  The patch node inserts the
  results of calls that were never answered *behind their reply*, in the middle of the list.  A turn that was cut
  after some of a reply's calls had their results, and is followed by a message, moves those
  results past the index: they are told to the client again, and the results that the patch node
  made are not told at all.
* `gate_takeover`: `claim_session` takes over a session whose lease has lapsed without moving
  `lock_version`, so the new batch's task has the name of the dead turn's, `AlreadyExists` is
  taken for success, and the batch waits for the sweeper (`sessions.py:981-982` says that
  `lock_version` "is what makes the name unique").

* `expiry`: `delete_sandbox` says of itself "The only thing that ever does. A container is never
  collected on a timer" (`services/sandboxes.py:189-190`), `services/sandboxes.py:147` that a container
  past `expires_at` "is not gone — the provider has paused it and the next call wakes it", and
  `test_sandbox_api.py:503-534`, `models/sandbox.py:87-89` and `db/models/sandboxes.py:23-27` say the
  same.  Of a session's container that is so: `Sandbox.provision` asks for a lifecycle that pauses.
  For a bare one `Sandbox.start` asks for a time limit and no lifecycle (`sandbox.py:741-749`), and
  its docstring says that the container dies on its own.  The row goes on saying `running`, so `_live`
  passes, and the next call gets the provider's error in place of `SandboxGone`.  `Settles` therefore
  counts as an answer a refusal of either kind.

The rest of this section lists what the models allow and the properties leave out on purpose,
because the code does.  `docs/votrix-core-architecture.md` knows two of the causes: it says
that a lease takeover and a queue's callback are not fenced by the generation.

* **Interrupts** (`SessionGate`, `Stops`).  `cancel_session` decides on a copy read before
  its lock, so a session terminated in between is revived; a worker that passed its check
  before an interrupt commits may release the next batch's turn, without an idle event for
  it; the generation it writes is one more than a copy's, and can be one the row already had;
  a dispatch failure that comes late fails whichever turn is running.
* **Deliveries** (`Unreliable`).  `process_session` tests the status and not the generation:
  a stale delivery takes the next batch's claim for its own.
* **The end of a turn.**  `session.status_idle` is committed before the row is released, so a
  client that answers at once may be refused as busy.  A turn refused for its account's state
  raises before the block that records failures, and is ended by the sweeper.
* **Streams.**  A stream of a terminated session may end with a page unsent (the client
  gets it when it comes back with its cursor), and a preview may come after its message.
* **Accounts.**  Two ensures that overlap mint two keys (`met`); a suspend and a resume that
  overlap, or a resume that fails after the provider obeyed, leave a suspended account with
  a key that spends.
* **Environments.**  A refresh that asked about an old build may write its answer on the
  new one when an edit came in between.  Two edits that cross write only the columns in which each
  differs from the copy it read: the second may write recipe and build and leave the image, which
  is unchanged against its copy, so the row has the recipe and the build of one edit and the
  image, what sessions start from, of the other; or a recipe without steps beside an image of the
  environment's own (`crossed`).  What holds all the same is that a recipe with steps names a build of
  its own (`BuildOfRecipe`).  An edit between recipes without steps writes a new recipe, the base
  image and an empty build id; cpu and memory of such a recipe go nowhere, for the base image
  has its own.
* **Memory.**  A delete counts committed attachments; a session mounts the Volume before it
  commits its own (`crossed`).
* **Files.**  Two uploads of equal bytes with one name on one day share an object, and deleting
  one file removes the other's bytes (`EveryRowReadable` excludes exactly that pair).
* **Outputs.**  A file is hashed and uploaded in two commands (`torn`); a listing that
  reached `max_output_files` is read as complete (`cut`).  `list_files` skips what is over
  `max_output_bytes`, so such a file is never recorded by a turn, and the record it has, from a
  capture or from when it was smaller, is archived although the file is there, where
  `discover_outputs` speaks of files that are gone; `RecordsTell` and `ArchivedMeansGone` allow exactly
  those (`Big`).  A name with a newline takes two lines of the listing, is not recorded, and may
  spoil the line of the next name (`Muddled`).  A file that cannot be read does the same to the
  name behind it; files here can be read.
* **Skills.**  A rename without a package contradicts the stored one; two updates may leave
  the name of one and the package of the other (`crossed`); a deletion that stops after the
  object went leaves the row (`Readable` names it).
* **Sandboxes.**  Any failure of a kill is taken for a container already gone, and a request
  that stops before its commit leaves a container that no row names (`lost`, `stopped`;
  `list_expired_sandboxes`, the janitor's query, has no caller).  `delete_session` kills the container
  and leaves its sandbox row running, so that `_live` lets a later call pass, which then gets the
  provider's error (`ReadsLive`).  When a session's container pauses, the command in it ends without a word, and a poll
  says for ever that it is running (`Forgotten`, which `Settles` allows).  A child that the command
  leaves behind prints after `rc` was written.
* **Keys.**  A key that expires while it is rotated leaves a successor that no active key stands
  behind (`late`); a bootstrap that is allowed to may add an admin key.
* **Graphs.**  A message to a paused session whose calls were not all answered cancels the rest in
  the middle of the list, and a turn that is cut may have announced what the checkpoint then
  has not (`cut`).  `LogTellsTranscript` promises in every case that no call is announced twice,
  and where neither happened that each result is told once and that the log, without its idle
  events, is what the whole transcript says, in its order (`EventsFrom(msgs, 0)`).  Custom tools
  are taken not to share a native tool's name.
* **Checkpoints.**  Behind a transaction pooler whose role has no default schema the search path is
  gone by the next statement (`OneHome` excludes exactly that, as the docstring of
  `_configure_checkpoint_connection` does); a turn that opens a pool after the lifespan has
  closed the registered ones leaves it open.
* **Provisioning.**  A skill whose row has no digest may arrive changed (`Undigested`).
* **Paging.**  The cursor is compared in a subquery on its row; when that row is deleted
  for good, the walk ends there.

## 5. Fairness

* `SessionGate!FairSpec`: a request in a live process finishes its dispatch; a queued task is
  delivered; a turn goes on, because `TURN_TIMEOUT_SECONDS` bounds it and `wait_for` raises;
  time passes, so an unrenewed lease lapses.
  All of it is weak fairness.  Nothing is assumed of the sweeper: running it is optional
  (`worker.py:7-15`), it is off by default and best effort, and what the repository relies on is
  that the next message may take an expired lease over (`config.py:174-187`).  Nothing is
  assumed of clients, crashes or heartbeats, and
  `RequestDies`, `CrashWorker` and `DropInline` may pre-empt any of it.
* `EventStream!FairSpec`: the generator loops as long as it is open (it wakes at the latest
  after `STREAM_POLL_SECONDS`), and the client comes back when it is closed.  The listener,
  the writers and the doorbell are owed nothing: that is the point of `Complete`.
* `Sandboxes!SandboxFairness`: the launcher's shell goes on and `timeout` bounds the command; a poll
  ends and the client keeps asking.  `timeout` sends only SIGTERM, so a command that traps it
  is outside of this assumption.  No delete and no provider is owed anything.
* `Provisioning!Fairness`: a session being created goes on, because each download has its
  timeouts and its number of attempts and each command its limit; edits of skills are owed
  nothing.

Deadlock checking is off wherever a system may be at rest: requests are finitely many, and a system in which
all of them are done is at rest.

## 6. What is proved

Every invariant and every action property that a passing run checks is a theorem, for any
values of the constants; the runs show them on small instances.  A proof assumes of the
constants only named assumptions: the `ASSUME`s of its component's module, or formulas that this
module defines and the module of its run asserts (`MCEngine`, `MCOrganization`, `MCRecords`,
`MCResources`, `MCSandboxes`).  The `ASSUME`s of `Sandboxes` are those of `SandboxCalls`.  TLC evaluates both on every run.  There is one exception: the theorems
about the gate, all but `TypeCorrect`, are about a *quiet* environment,

    Quiet == Stops = {} /\ Timely /\ ~Unreliable

nobody presses stop, a lease lapses only when nobody acts under it, the queue delivers a
task again only when its worker died.  That is `gate_cloud` with any number of batches, answers,
workers and deliveries, and inline dispatch too.  Section 4 says what happens outside of it.

Each proof has the same shape: an inductive invariant, a conjunction of named parts;
one lemma per action or group of actions; and a theorem that puts them together.  What
follows is which parts there are and why the property is not inductive without them.

**`SessionGateProofs`.**  `TypeCorrect` goes by groups of actions.  `OneTurn` says nothing of
the batches that still wait for a worker, so `QInv` adds that at most one party acts under the
current claim, be it a request between commit and dispatch, a task in the queue or a worker
(`OneHolder`); that while there is one the row is running and leased (`HolderOwnsRow`); that
its copy of the row agrees with the row (`HolderKnowsRow`, which is what fails as soon as
interrupts are allowed); and that a free slot has no heartbeat and no passed check left over
(`FreeIsClean`).  `LogInv` adds what the log says: the last batch in it is the holder's
(`HolderSpokeLast`), the turn that is about to give back the row has said
`session.status_idle` (`EndIsTold`), and from the moment the stop reason is read the graph does
not move (`ReasonHolds`).  It carries `OwnTurn`, `ToldIdle` and `ParkedMeansPaused`.

`QuietKeepsConversation` is the refinement: the gate implements `Conversation`, where there are
only a turn, a number and a log.  `Taking` maps to `turn` the last batch of the log while the
row is running; `terminated` maps to `over`.  `TurnInv` adds to `LogInv` that a running row has a
batch in the log (`Recorded`), that a batch which is not in the log has not been sent
(`Unsent`), and that no turn finds itself overtaken (`Unstopped`).  `StepKinds` sorts every step
of the gate: it leaves row and log alone (`Stays`), or accepts a batch, or says a word of the turn,
or ends it; `AcceptsIs`, `SaysIs` and `EndsIs` show that the last three are `Accept`, `Say` and
`Finish` of the abstract module.  So nothing is said outside its turn, a turn ends only once its
batch is told and with a new `lock_version`, and nothing follows the end.

**`EventStreamProofs`.**  `StreamTellsLog` rests on `Numbering` (whoever has the row lock, and
nobody else, has numbers that are not committed, and those follow the committed ones, which have
no hole), `Following` (the cursor is the number on the last event the client has, and counts
them), `PageFollows` (a page goes on from the cursor) and `OnlyPreviews` (the queue holds no
event).  `StreamDelivers` is the refinement of `Delivery`, where a log grows until it is closed and
the client is told of one event after the other: a commit is `Record`, `Yield` is `Tell`, and
every other step, a lost connection and a return among them, is none of the client's.  It needs that
nobody holds the row lock of a session that is over (`NobodyAppends`).  `Delivery` takes it
for granted that nothing is recorded after the end, and that is what `Conversation` promises.

**`OrganizationProofs`.**  Accounts: an intent has one row (`RowsApart`), a request works on the
row of its own intent (`AccountsMatch`), an account that nobody switched is as it was made
(`Untouched`), and one ensure at a time mints at most one key (`KeysApart`); hence
`OneAccountOneKey`.  `SwitchInv` adds that one switch at a time knows key and row
(`OneSwitch`), for `RowTellsKey`; `SuspensionStops` is an action property of it.  Keys:
`LocksHold` says what each request knows of the rows it has locked or read, and `Lineage` that
a key replaces one that is there and that no set of keys replace each other in a circle; with them
`OneManagementKey`, and the action property `KeysEndOnce`.

**`ResourcesProofs`.**  Five components, five invariants.  `FilesInv`: the bytes outlive the row
(`BytesOutlive`), a binding in flight is of a row that stays (`BindingsHold`).  `StoreInv`: a delete
goes on only from a store that is made (`StoreOrder`), and past its count no session has the store
unless one crossed it (`Unclaimed`).  `SkillsInv`: a key, one that a request
has read included, is of a package that was brought for that skill (`KeysTell`).  `EInv`: an edit to a recipe with steps always writes the recipe and a new
build, whatever its copy, so `BuildOfRecipe` needs no help and no `crossed`; what a request was answered is what a build is (`Answered`), and while
nothing has crossed a request works on what the row says (`Current`), which is where the proof would
break without `crossed`.  `AInv`: a handle that was read names a version (`Copied`), and versions
belong to edits that are over (`Settled`); the lemma all else rests on is `NewVersion`: a number
that is not taken is the number behind the last, so what the edit read is still current in all
that it writes.

**`RecordsProofs`.**  Outputs: one live record per path, in the table and in what the
collector's transaction will make of it (`OneEachPath`); what the collector has listed, taken and
is storing (`ListedInv`, `TakenInv`, `Storing`); what a capture holds (`CapturesInv`); that keys
and records have their bytes (`KeysInv`, `BytesInv`); and what is left when it is done
(`SettledInv`).  Hence `DigestsTell`, `RecordsAreTrue` and the action property `ArchivedAreGone`.
Paging: the order of the rows, by time and then id, is total, and `Ahead` says that what the client set out for
is among what it has or beyond the end it goes on from; hence `WalksAreWhole`.

**`SandboxesProofs`.**  Where the making of a container and its row are (`OwnersInv`), and of which
containers deletes are (`DeletesInv`); the command ends with its container (`TargetInv`), its
script has arrived at most once (`LaunchedInv`), its files are written in order (`DiskInv`), and a
collector that has read an exit code finds the rest as it will stay (`ReportsInv`).  The theorems are about any number of
containers, deletes and polls at once, without the run's `Apart`.

**`ProvisioningProofs`.**  Per request, what is true in each phase: the mount paths attached so
far are apart (`Attaching`), the rows are as they were resolved, with distinct names (`Resolved`),
what the container has by then, which is no skill until they are installed (`Filling`), all skills
staged before any is in place (`Installing`), the uploads so far (`Fetching`).

**`EngineProofs`.**  The handle: `TimeLeft` relates the container's time to what the handle and each
call remember of it, which with `RunLimit + Fresh <= Ttl` keeps the container awake; `Begun`: a call
that waits or sends has not reached the container, unless it may be repeated; `Numbered`:
connections are numbered as they open, so the handle never again holds one on which a call has
failed.  Checkpoints: a connection that passed its check lands in the configured schema
(`WireChecked`), has one user (`WireHeld`), whoever is past the setup finds the tables (`Founded`),
and the pool that is open is the registered one (`Single`).  The graph: `VerdictInv` says that
calls are numbered as they are made (`Numbers`), that each result is of a call and as the client
said of it (`Judged`), and what is pending where (`Waits`); `TalkInv` that what was said is so
(`Truthful`), that a turn which stops has announced its calls (`AllAnnounced`), and which word is
its last (`LastWord`).  `TranscriptInv` is what makes the log a transcript: only the last reply has
calls without results (`Earlier`, `AllOver`, `RepliesApart`), which is why the patch node, which
grows the list in the middle, moves no reply; what was said and is still to be said is said once
(`SaidOnce`); and, where nothing was cut, the two together are what the messages say from the first
on (`TellsAll`).

Induction over data is out of the provers' reach here (the library's induction theorems take an
operator as a parameter).  Where a proof needs one it goes through sets: a set of numbers that
has a member has a least one (`LeastExists`, from the well-foundedness of `<`), so a set that
has 0 and with each number the next has them all (`Climb`); a list of lists is joined by a step
function whose values are compared that way (`StepsConcat`, `FlattenConcat`).

Only model-checked: liveness (`Answered`, `Freed`, `Complete`, `Served`, `Settles`), which needs
fairness and `ENABLED`.  Refuted: `Guaranteed`, `ToldOnce`, `EachTurnQueued`, `OnlyDeleted`.

## 7. What could follow

The order was that of importance: the gate and its proofs, the stream, the components where
two stores must agree, commands, containers and paging; then agents and keys, the engine's
pauses, provisioning, the checkpoint store and the handle; the proofs; the two refinements.  What
is left:

1. *Composition.*  `Turns` inside the gate's turn, so that its parked sessions are the gate's;
   the gate's log read by the stream, so that `Answered` reaches the client.  `Conversation` and
   `Delivery` are what each needs to know of the other.
2. *A deletion as a saga*, as an abstract specification of `MemoryStores` and `Containers`.
3. *A gate that is fenced by its generation*, with interrupts and stale deliveries in it: the
   model would show what has to be compared where for `Conversation` to hold without `Quiet`.

## 8. Not modelled, and known limits of the models

* The secret cipher, the model catalogue, usage reports, image previews, request
  authentication, memberships, routing, settings, migrations, the other scripts, the edge router
  and the web site: pure functions, single statements or other programs.
* `Turns` leaves out prompts, models, subagents and what tools do; `Handles` what a command does;
  `Provisioning` the names of directories, which are model values with a relation of
  containment.
* `SessionGate` lets an agent say a few words instead of running a graph, does not tell
  exceptions apart, and takes a turn's output collection as one outcome; `Outputs` opens it.
  The end of a turn (collect, write, release, commit) is one action: it holds the row
  from its first append.
* `LeaseLapse` replaces the clock.  `Timely` states the intended relation between heartbeat
  and lease; without it a lease lapses under a live turn.
* A bare container dies when its time runs out, as `Sandbox.start` asks of the provider; the
  comments and the test that say of any container that it pauses are the subject of `expiry`.
  A session's may pause whenever nobody reads in it, and wakes at the next call; its own
  commands, those of a turn, are in `Handles`.
* `Accounts` takes the backfill script's look at the default account for a fresh read; a session's
  identity map may hand it the row it has read before, which no property depends on.
* A row whose commit comes long after its `created_at` (a session after its provisioning)
  can appear behind a client that already caught up; `Paging` promises only the rows that a
  client set out for.
* A command that itself exits with 124 is reported as timed out; the report has no
  other source.
