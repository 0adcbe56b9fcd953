# Verification of the edge VLM pipeline

TLA+ models of this repository's program, TLC configurations that check them on
small instances, and theorems that TLAPS proves for every value of the
constants. `PROJECT.json` maps every definition to the source lines it stands
for, and lists the runs, hazards and theorems.

## 1. The system

```
 camera topic ──► ReasonerNode ── IPC socket ──► edge_vlm_server ──► TensorRT
 detections ──► TrackedObservationAdapter ─┘          ▲
                                                      │  edge_vlm_cli
 browser ──► web console (server.py) ── ProcessManager┘
                 └── bags, datasets ──► frames, sequences ──► experiments
 camera topic ──► TemporalNode ── IPC socket ──► FlashRT worker
 frames ──► teacher labels ──► splits ──► export ──► training      (distillation)
 weights ──► prepare ──► build ──► activate ──► what is served      (modelctl)
```

| Component | State it keeps | Operations | What makes it correct |
|---|---|---|---|
| Reasoner node (`src/vlm_reasoner_node.cpp`) | one-slot queue, accepted/active/completed source sequences, counters, worker flags, observation history | image and observation callbacks, worker loop, start and stop | newest input served next, nothing lost uncounted, no source asked twice, shutdown ends |
| IPC client (`src/ipc_inference_backend.cpp`) | one socket, the next request id | connect, infer, close | an answer is taken only for its own request; every call returns |
| Inference service (`src/inference_worker.cpp`, `inference_watchdog.hpp`, launch respawn) | listening and client descriptors, stop flag, the watchdog of the current request | accept, read, infer, respond, end, restart | a wedge costs one request; answers resume; a signal ends it |
| Tracked adapter (`src/tracked_observation_adapter.cpp`, `iou_tracker.hpp`) | one slot per input, tracks | image and detection callbacks, match, update | each observation joins one image with its own detections; ids are never reused |
| Process manager (`web_console/process_manager.py`) | registered processes, the reserved slot, marks of each process | start, stop, wait, cleanup, completion | one child at a time, completion at most once, nothing left running |
| Run store (`web_console/run_store.py`) | run manifests with their status, directories by age | save, conditional updates, evict | a terminal status is final; a removed record stays away |
| Run handlers (`web_console/server.py`) | none of their own: closures over one run | start, stop, on_complete, shutdown | a status says what became of the child |
| Experiment coordination (`web_console/server.py`) | the experiment slot, cancel events | start, cancel, finalize | one experiment at a time, the slot always comes back |
| Experiment engine (`web_console/experiment_engine.py`) | the history window of one run | run a frame, truncate, measure repetition | the window respects its limits |
| Review store (`web_console/review_store.py`) | `reviews.json` per run, a lock per run | upsert, read | no annotation is lost |
| Knowledge graph (`knowledge_graph/`) | entities, facts with validity | five update operations, retrieval | history is kept; at most one valid value per attribute |
| FlashRT temporal node and worker (`flashrt_temporal/`) | the frame window, what is handed over, one kept connection; the worker's client, its stop flag, its deadline | image callback, reset, hand-over, infer; accept, read, infer, answer, end | a window holds consecutive frames of one stream; a result is that of its window; neither side waits for ever |
| Console catalogs (`web_console/frame_extractor.py`, `dataset_catalog.py`, `sequence_catalog.py`) | directories of frames with a manifest, the catalog of sequences the server keeps | extract, list, resolve, materialize | a manifest lists what is there; a record names the frames an experiment had |
| Distillation (`distillation/`) | label files, splits, the export | generate and resume, split, export, check and load, evaluate | a label is of what the sample is now; no group straddles a split; a video keeps its times |
| Model control (`scripts/models/modelctl.py`) | prepared artifacts, engines, their manifests, the active profile | prepare, build, activate, roll back | what is activated was built from what is prepared, to its end |
| Experiment stack (`scripts/experiment_stack.sh`) | a record per component, the owner file of the socket | start, roll back, stop | what it started it finds again and stops, and nothing else |

Interactions: callbacks and the worker share `queue_mutex_`; the worker calls
the service through one connection; the service's main thread, its watchdog
thread and its signal handler share descriptors; the CLI and the node compete
for a server that serves one connection at a time; launch restarts it. In the
console, every request has a thread, every child a waiter and a log thread; they
meet in the manager's lock, in the store's lock and in the callback by which the
manager reports a child to the store. The temporal node keeps one connection to a
worker that serves one client at a time and ends rather than overrun a deadline. Model control,
distillation, extraction and the stack script are processes that meet only in files, which outlive them, whole
or not.

Hard behaviours: the slot replaced while the worker is anywhere; duplicate
suppression spread over three critical sections; rate limiting by a clock that
may jump or stop; connections that outlive the request, the client or the
server; a deadline, a timeout and an answer racing; restarts; several threads
that all mark, reap and report one child; tools that are killed between two files that have
to fit each other, and run again over what is left. `hazards` in
`PROJECT.json` lists each at its line, with the properties that watch it.

## 2. Modules

| Module | Models | Notes |
|---|---|---|
| `ObservationHistory` | the history deque, its limits and reset policies | its variables and operations are part of the node |
| `LatestOnly` | the policy the pipeline promises | abstract: newest input waits, one is served |
| `ReasonerNode` | executor thread, worker thread, owner | extends `ObservationHistory`; refines `LatestOnly` |
| `PerceptionProofs` | theorems about the node, the adapter and `TemporalLabels` | |
| `InferenceService` | clients, connections, server process, watchdog, restarts, time | |
| `InferenceServiceProofs` | theorems about connections that are kept | |
| `IouTracker` | association of detections to tracks | integer boxes; `Update` is part of the adapter's callbacks |
| `TrackedAdapter` | pairing images with detections, publishing, restart | extends `IouTracker` |
| `RunStore` | manifests and eviction | its operations are steps of the console's threads |
| `ProcessManager` | the console's children and the threads that start, stop and await them | independent of the store |
| `ConsoleRuns` | handlers, manager and store together | extends both; refines `RunLifecycle` |
| `RunLifecycle` | the life of a record | abstract: new, starting or at once running, one terminal status, evicted |
| `ConsoleRunsProofs` | theorems about the console's runs | |
| `ExperimentEngine` | the frame loop of an experiment and its history | local to a thread; its operations are steps of it |
| `ExperimentRuns` | requests, slot, cancel events, background threads and records of experiments; reviews | extends `RunStore` and `ExperimentEngine`; refines `RunLifecycle` |
| `RunStoreProofs` | what the store's operations leave in the manifests | lemmas of the two modules of theorems about runs |
| `ExperimentRunsProofs` | theorems about experiments | |
| `WorldModel` | what a reader of the graph may believe | abstract: one value per attribute, any relations |
| `KnowledgeGraph` | entities, facts, the prompts that show them and the updates that come back | refines `WorldModel` |
| `KnowledgeGraphProofs` | theorems about the graph | |
| `TemporalWorker` | the FlashRT worker: connections, accept and request loops, deadline, signal, restart | its variables are part of the node's module |
| `TemporalNode` | the window, the thread that hands it over, its connection, the end of the node | extends `TemporalWorker` |
| `TemporalNodeProofs` | theorems about the window, the kept connection and the results | |
| `ModelControl` | `prepare`, `build` and `activate` of modelctl and the files they decide by | |
| `Distillation` | labelling with its cache, split, export, what a training reads | |
| `TemporalLabels` | one sample: the rules of a label, the controls of an evaluation, the times of its frames | a state is a stage of the sample |
| `FrameExtraction` | the extraction script and the store of its directories | |
| `SequenceCatalog` | the catalog and the frames one request takes by it | extends `FrameExtraction` |
| `ExperimentStack` | the script that starts and stops server and console, their records, the socket | |
| `OfflineToolsProofs` | theorems about what is activated, labels and exports, extractions, and the stack's processes | one part per tool; the tools share nothing |
| `MC*` | the instances TLC checks | `MCOfflineTools` holds one tool per behaviour, so that states add up |

### ReasonerNode

A frame is a number, a source sequence (0: none) and whether its image can be
converted. Each action is one critical section of `queue_mutex_`, or a stretch
of code that touches what its thread owns; `wpc` and `mpc` are the places where
the worker and the owning thread can be between two of them:

| `wpc` | in `worker_loop` |
|---|---|
| `init`, `failed_init` | `backend_->initialize()`, and after it failed |
| `wait` | holding the mutex at the top of the loop, or asleep on `queue_cv_` |
| `throttled` | in the timed wait of `min_vlm_interval_seconds` |
| `convert`, `unconverted` | converting the frame, and in the catch block |
| `infer` | inside `backend_->infer` |
| `release`, `abandon` | before the critical section that ends an iteration |

`elapsed` is `now() - last_vlm_time_` of the ROS clock, capped at the interval,
the only thing the worker asks of the clock. `ClockSetBack` makes it smaller,
negative included. Under `UseSimTime` the clock stands still once the context
is shut down. `published` is the history of what subscribers received.

### InferenceService

A connection is a record of what is in it in either direction and who still has
his end open. The server's places are those between two blocking calls: waiting
for a connection, for a header, for the rest, inside the engine, about to
answer. A client's are: connecting, checking the request, writing, reading.
`ProcessEnds` is every way the process ends: the kernel closes its descriptors,
and what was sent before stays readable. Time is counted in ticks; a timer at
its limit goes off before the next one.

### TrackedAdapter

A callback is a step: it stores its message, counts what it replaced, and calls
`TryPublishLatestMatch`, which updates the tracker and publishes when both
slots hold one stamp. The topics are best effort and lose messages; `MaxLag` is
how many images may be taken while the detector works on an earlier one. A detector
that lags makes the adapter drop pairs, and one that always lags can keep it
from ever publishing: each image replaces the one its detections were for.
`LossCostsOneFrame` is therefore about a detector that keeps up (`~lagged`).

### ConsoleRuns

`start`, `waiter` and `stopper` are the places of the thread of a start request,
of `_wait_proc`, and of a stop request or of `cleanup`; each action is a critical
section, a system call or a wait. A child is none, alive, exited or reaped;
`signal` is the strongest it was sent while alive. What `_fire_completion` captures
under the lock is kept in `report` until the callback has written it.

| place of `stopper` | in `_stop_process` |
|---|---|
| `flag`, `terminate` | before `_explicitly_stopped` is set, before SIGTERM |
| `await`, `reap` | polling until the deadline, waiting after SIGKILL |
| `mark`, `fire`, `callback` | before either critical section, in `on_complete` |

Merged into one step: the directory of a run and its manifest (no other thread
knows the id between them), and the registration of a child with the start of its
threads. Time is not counted: a deadline may pass whenever the child has not been
reaped. With `SlowToDie` a killed child may outlive `_KILL_WAIT_SECONDS`, and then
a second one may run beside it; `OneChild` and `StopEndsChild` say so. A manifest
is its status and a directory its place in the order of modification times.
Two children of one console are never of different kinds for the manager, so
that ROS experiments, downloads and extractions are all `Runs`.

### ExperimentRuns

`handler` and `worker` are the places of the thread of the request that starts an
experiment and of its background thread; both kinds of experiment share the
actions, with `r \in OfSequence` where the two handlers differ:

| place of `handler` | in `_api_experiment_run`, `_api_sequences_experiment` |
|---|---|
| `checked`, `rejected` | past the early gate; answered 400, 404 or 409 |
| `claimed`, `made`, `registered`, `recorded`, `saved` | after the claim, the artifact directory, the cancel event, `save_run` as starting, the status running |
| `unrecorded`, `abandoned` | ended by an exception before or after `save_run` |

| place of `worker` | in `_run_in_background`, `_run_bg` |
|---|---|
| `begin`, `loop`, `infer`, `report` | in `run_experiment`: before the frames, before one, in its inference, before `on_frame` |
| `raised`, `decide`, `finalize` | in the except block; before the status is chosen, and written |
| `free`, `forget` | in the finally block: before the slot and the event are given back |

The handler of the first kind finalizes and then frees, that of the second frees and
then finalizes, where an exception is not caught any more. The second one also
passes neither the configured `cli_path` and `socket_path` nor an artifact
directory, so that only the first one touches files while frames run. A file operation may fail
`MaxFaults` times, at any of the places where one is made; those of a record that
was evicted do nothing and cannot fail. A frame is one inference whose answer is a length:
the two cuts of the history look at nothing else. `said` keeps all answers, for
`PromptTellsTheLatest`. Runs of other kinds matter for their records only,
which evict; a review is a late write into a directory, which makes it again without a
manifest when it has gone (`MaxReviews`).

### KnowledgeGraph

One thread prompts and applies the answer, so that each update is a step. A fact is
what it says and whether it is valid; its id is its place in `facts`. `Retrieve` is the
start of a frame: the entities that rank best are any set within the limits, and `shown` is the
facts the prompt tells the ids of, the only ones that an answer can invalidate,
perhaps after another update of the same answer has. `left` counts the updates of
the answer that are still to come; `Reject` is every reason for which one changes nothing.
A cancelled experiment stops asking, which is a shorter behaviour of the same kind.
`AddEntity`, `SetAttribute`, `AddRelation`, `RemoveRelation` and `InvalidateFact` are the
five `_op_` methods of `GraphUpdater`, with what they call in `GraphStore`.

### TemporalWorker and TemporalNode

A frame is its stamp and its number among those sampled. `ImageCallback` is the callback from
the look at the stamp to the notification: the reset, the buffer, `last_sampled` and `pending`
change in one hold of `cv`. `npc` is where `_worker_loop` is, `worker` where the worker process is:

| `npc` | in `_worker_loop` and `IpcClient.infer` |
|---|---|
| `wait` | in `cv.wait`, or at the top of the loop |
| `connect` | with a window, before the connection or with the one that was kept |
| `send`, `await` | in `sendall`, in the read of the answer |
| `publish` | the answer or the exception is there, nothing is published |

| `worker` | in `flashrt_ipc_worker.py` |
|---|---|
| `loading`, `accepting` | before `listen`, in `accept` |
| `serving` | at the condition of the inner loop |
| `reading`, `inferring`, `answering` | in `read_request`, under the deadline, in `send_response` |
| `down` | the process has ended |

A request gets whole only while the worker reads it (`FinishSend`): 16 frames are larger than
any socket buffer. `Ends` closes every descriptor, `StopHandler` only the listening one. A
deadline and a socket timeout may pass whenever what they guard has not ended, so every order of
the two is there. `ProcessExits` is the daemon thread dying with its process.

### ModelControl

Content is a number no other content has, as the inventory digests make it: `artifacts` is what
is prepared, and an engine remembers of what and for which revision of its profile it was built,
which no command can see: `Valid` looks at files being there, at their limits and at the manifest.
A command is a record with its place; `Killed` ends it at any. The two writes of `activate`
are atomic replacements, that fail or not, and the roll back is two more.

### Distillation and TemporalLabels

`labels` is the output directory of the teacher, file by file: absent, cut off or whole. A hash is
what it is the hash of, so that a fingerprint compares what it covers. `Generate` opens the file of
a label, `WriteLabel` fills it; `OpenFile` and `WriteFile` do so for the four files of an export. The
random split is any split with the counts the percentages give. `CheckManifest` and
`LoadDataset` are the two moments when a training reads.

`TemporalLabels` is the arithmetic on one sample: `Accepted` is the conjunction of `VALIDATORS`,
`Control` and `Transformed` are what an evaluation derives, `Tokenised` and `ServedIndices` the
times frames get in training and from the worker. Each is an action on a sample, any sample of the
instance, rather than a function checked alone, because rejected samples never get to the later ones.

### FrameExtraction and SequenceCatalog

A message is its time and whether it decodes, an image the place of its message. `OpenImage`
and `WriteImage` are the two moments of `cv2.imwrite`; `PutManifest` is the write beside and
the `replace`; `ExtractionEnds` is a kill or an error. `FrameOf` is what `get_frame_path` finds.

`Resolve`, `Select` and `TakeFrame` are the stages of `_api_sequences_experiment` up to the start of
the experiment (from there on it is `ExperimentRuns`). The handler holds the entries it resolved
in `request`, while `ListSequences` replaces the server's. A clip has the length its file tells or,
if it cannot be opened, the one of its annotations; no length means no references.

### ExperimentStack

`procs` is the process table: who has a number, since when, whether the script started it and what signal
it was sent. A record is a number and a start time; `LivePid` compares both. `script` is the
command that runs with its place in `cmd_start`, `cmd_stop` or `_stop_component`, which both use; what follows a
component is `AfterComponent`. `Bind` and `ProcessEnds` are what the server does to the socket file: it
takes the path from whoever has it, and removes it when it ends unless it is killed. A script that is
killed before it has written a record has lost its process, which then counts as the user's.

## 3. Runs

| Run | Question | Bounds |
|---|---|---|
| `node_image` | policy, counters, shutdown, progress under a clock set back; do both limits of the history keep the longest suffix that fits, and do errors isolate? | 4 messages fill, replace and drain the slot with the worker at any place; one jump back; answers of sizes that fit, do not fit together and do not fit alone, limits that bite after two entries |
| `node_tracked` | duplicate suppression; the age of what a prompt repeats | 4 observations of 2 sources, repeated, some unconvertible; a history of 2 entries reset every 2 requests |
| `service_one` | two faults of any kind against one client | timeout 3 > deadline 1 + load 1; three connections cover the one in use and the abandoned ones |
| `service_two` | what survives on a reused connection | two clients that may exit anywhere, ids that wrap after 2, a server of any speed (`Urgent = FALSE`) |
| `adapter` | does a lost message cost more than its frame, are messages paired or counted as dropped, who claims a detection, how long does a track live? | inputs up to 3 images apart, 3 images, a restart; up to 2 detections of 3 boxes of two classes that overlap |
| `console_runs` | one child, one report, a true and final status, stops and reports that end | two runs, a stop request and the clean-up, any three of them; one record kept, so that each new one evicts |
| `experiments` | one experiment at a time, the slot given back, true and forward statuses, the prompt's history | one experiment of each kind, 3 frames and 1, and another run; one record kept; answers of lengths 0, 1 and 3, two entries or 4 characters with separators remembered, so that either limit may be the one that bites; one failing file operation; one review |
| `graph` | is there one value per attribute, is a relation of the same name left alone, is anything forgotten? | 3 entities, 2 values, an attribute `near` beside a relation `near`; two prompts that show up to 2 entities, each answered by up to 2 updates: enough to set, replace, set back and take back what an earlier prompt showed |
| `temporal` | is a window one stream across gaps and jumps? is a kept connection ever dirty, a result ever another window's? does every window, and every stop, end? | windows of 2 frames, 4 images at stamps 0, 1 and 3, where 3 is a gap and 0 a jump back and equal stamps are refused by the worker; a sample period of 0, without which there are no equal stamps, so that the least distance between frames is left to `WindowsAreStreams`; one death of the worker of any kind; three connections: the kept one, one abandoned in the queue, a new one |
| `offline` | six tools, each on its own: is what gets active what was built? are labels those of this run and exports whole? are evaluations fair and times kept? do manifests and records tell the frames? does the stack know its own processes? | *control*: a model, a managed and an adopted profile, two contexts, 3 writes (all that is prepared, or one part of it again), 2 revisions; *pipeline*: 4 samples in 3 groups, one change, 2 runs, so that a run meets what any killed run left; *labels*: every sample of up to 3 frames at times 0, 4, 10, 11 and 21; *frames*: every recording of up to 3 messages and every option; *sequences*: 3 samples in a cycle, a clip of 2 frames annotated with 3, a fixture extracted twice, at most 2 frames selected, one image that comes or goes; *stack*: 2 process numbers, 3 processes, so that a number is given again, 2 engines, one path |
| `service_client_kills`, `distillation_representation` | findings, below | |

Bounds on counters (`MaxReceived`, `MaxClockJumps`, `MaxRequests`, `Faults`,
`Conns`, `MaxId`, `MaxActors`, `MaxFaults`, `MaxReviews`, `MaxDeaths`, `MaxImages`, `MaxWrites`,
`MaxRevisions`, `MaxChanges`, `MaxRuns`, `MaxImageChanges`, `MaxBirths`) are constants with their meaning beside them. The races need
at most: a frame in service, one waiting, and one that replaces it, plus one
after; a stale connection in the accept queue, one being served and a new one. In
the console two runs compete for the slot, and a child has three reporters: its
waiter, a stop request and the clean-up.

`Urgent` says that whoever can act does so before a tick: timeouts are 60 to 120
seconds and the steps between them milliseconds. It is used where a property is
about which timer is first, and dropped where it would hide a race.

A property that has several parts is one conjunction, named for what they say together:

| Property | Parts |
|---|---|
| `HistoryIsExact` | `HistoryIsLongestSuffix`, `ErrorsIsolate` |
| `NothingHangs` | `ShutdownCompletes`, `PendingIsResolved` |
| `FaultsCostOneCall` | `OneErrorPerFault`, `WedgeSeenAsEof` |
| `ServiceRecovers` | `AnsweredAgain`, `CallsReturn`, `StopEnds` |
| `DetectionsAreFollowed` | `MessagesAreCounted`, `LossCostsOneFrame`, `EachDetectionOnce` |
| `RunsAndStopsEnd` | `EveryRunConcludes`, `StopsEnd` |
| `ExperimentsMakeWay` | `SlotComesBack`, `EveryExperimentEnds` |
| `WindowsAndStopsEnd` | `WindowConcludes`, `WorkerStops` |
| `ManifestTellsFrames` | `ManifestTellsFiles`, `FramesAreSampled` |
| `StackKnowsItsOwn` | `OwnedAreRecorded`, `SignalledAreOwned`, `FailedStartLeavesNone` |

### Fairness

`ReasonerNode!Fairness`: the worker thread is scheduled and `infer` returns
(every read and write has a socket timeout), time passes, joins return when the
thread has exited. Messages and the stop are not fair.
`InferenceService!FairSpec`: processes that can run do, time passes, a client
always has another frame and its own checks do not refuse every one of them
(strong fairness on going past the checks). Faults, signals and exits are not
fair. `wedged` inferences overrun their deadline, others end before it.
`ConsoleRuns!FairConsoleSpec`: threads are scheduled and a child that was sent
SIGKILL dies. Requests, SIGTERM and a child that ends by itself are not fair. No
step can be taken for ever without the others, since every thread goes forward, so
that one weak fairness condition on all of them is one on each.
`ExperimentRuns!FairExperimentSpec`: the threads of each experiment are scheduled, and
an inference returns, because its client process is killed after `timeout_seconds`.
Requests, cancellations, reviews, other runs and failures are not fair; a request
that has arrived goes on.
`TemporalNode!FairTemporalSpec`: both processes are scheduled, an inference ends, if only by its
deadline or by a kill, and the join of `destroy_node` gives up after five seconds. Images, signals,
deaths and the restart of a dead worker are not fair: no supervisor is in the repository.
The offline tools have no liveness: a command that is killed need not be run again.

### Findings

- **`service_client_kills`** — a client that goes away inside a request ends the
  server; only the read of a header is guarded.
- **`distillation_representation`** — a teacher that was shown native video leaves labels that are
  exported as independent images: `_generate_one` does not keep `sequence_type`, by which the
  export decides, although ADR 003 requires that the semantics stay equivalent.

More that no run is kept for:

*Reasoner node, service and adapter*

- With `use_sim_time`, a frame held back by the rate limit when the context shuts down keeps the
  worker looping on a clock that stands still (`vlm_reasoner_node.cpp:901`); the destructor's
  join never returns. `NothingHangs` under `UseSimTime = TRUE` shows it.
- Engines that load for longer than the request timeout (`LoadTime` above `RequestTimeout` in
  `InferenceService`) may never answer: the connection the client abandoned is served first,
  its answer cannot be written, the exception ends the process, and the next one has
  to load again.
- `connect` has no timeout when the accept queue is full, so `CallsReturn` fails for a
  second client while the first keeps its connection. `service_one` has one client and does not meet
  this: `ServiceRecovers` says nothing of it.
- With `drop_old_frames: false` a waiting frame is replaced all the same, only uncounted
  and with its source sequence left in the accepted set.

*Console*

- `cleanup` stops the processes registered when it begins (`process_manager.py:169`), while requests
  are still served: a child started meanwhile outlives the console, although line 11 says
  that all owned children are cleaned up on shutdown. `CleanupLeavesNone` states it.
- A cancelled experiment over a sequence ends as "cancelled" (`server.py:1515`), which the store does
  not count as terminal (`run_store.py:28`), although `finalize_run` (line 94) promises one that is: it can never
  be reviewed and the browser polls it for ever. `EndedRunIsTerminal` states it.
- Recording a run, be it one that is then rejected with 409, may evict the record of the
  run in progress, whose result is lost, although `server.py:786` says that the
  callback always finds a record.
- An exception between the claim of the experiment slot and the start of the thread
  keeps the slot until the console is restarted; `SlotComesBack` says so.
- `observation_history_max_entries = 0` is documented as equivalent to `single_frame`
  (`experiment_engine.py:126`): the prompts are, but the history grows without a limit and each result
  reports it as used.
- `_api_extract_cancel` (`server.py:2124`) calls a method the process manager does not have, and an
  extraction without ROS ends as "ros_unavailable", which is no terminal status either.
- An extraction whose end is not after its start is not refused. Its offsets count from the first
  message of the topic, its target interval divides the duration of the bag.
- The frames of a fixture may come from different extractions: one that lacks a frame is passed over
  for that frame only.
- Experiments over a sequence record `frame_results`; comparing runs and checking a review
  (`server.py:2162`, `:2213`) read `result_frames`.
- After `invalidate_fact` the entity still carries the value in the `attributes` it is shown with,
  although `prompt_serializer.py:8` calls them current: `MirrorTellsLastSet` says what they are.
- `remove_relation` is accepted for unknown entities under `require_known_entities`, although
  `graph_updater.py:175` says that it is rejected. It changes nothing either way.

*FlashRT*

- `sample_period_seconds` may be 0 (`temporal_ros_node.py:221`); images with equal stamps then make a
  window the worker refuses (`flashrt_ipc_worker.py:194`) by closing the connection.
- SIGTERM does not end the worker while a client keeps an idle connection: the read that waits for the
  next request goes on. `WorkerStops` is therefore about a client that has gone.
- A client that leaves during an inference ends the worker: neither the answer nor the error
  can be sent. `flashrt_temporal/README.md:25` calls it persistent and line 88 leaves its restart to an
  external supervisor, while `run_worker_docker.sh` runs it with `--rm` and no restart.

*Experiment stack*

- `RemovedSocketsAreStale` does not hold, though line 18 of the script promises it: `stop` takes the socket for stale
  once its server has stopped (`experiment_stack.sh:803`). A server that somebody else started on the path
  meanwhile loses its file, to `stop` or to the server that ends.
- With `QuickReuse` a number that is given again between a look and the signal, or during the wait of
  ten seconds after SIGTERM, gets the signal of the process that had it: SIGKILL is sent to whoever has the number
  (`experiment_stack.sh:195`), although line 168 says that signals are sent only when the start time matches.
  `StackKnowsItsOwn` is therefore about numbers that are not given again under a command.
- With `SlowToEnd` a process that outlives SIGKILL by five seconds loses its record.
- A server listens before it loads its engine, so that `start` reports success when a load is still to
  fail.
- Two starts at once both find nothing running; there is no lock. The model runs commands one at a time.

*Model control*

- One file of any kind in each directory makes a model count as prepared, so that a preparation that
  was killed inside a stage is never done again. A kill inside a stage and one right after it are
  one state for every command, and in the model.
- The digests of a manifest are taken when the build has ended. Artifacts prepared again beside a build
  would be recorded as what it was built from; `ModelControl` runs its commands one at a time.
- A rebuild does not remove the manifest it will replace. Over the files of an engine that
  was removed and whose profile is what it was, a build that is killed would leave half an
  engine that validates; nobody removes engines in the model.

*Distillation*

- `TrainsOnItsManifest` does not hold: a training compares the hash of the manifest only
  (`training.py:676`), and an export that was killed, or goes on, leaves a mix of files.
- Answers that cannot be parsed are kept and not asked for again. A fingerprint covers the paths and
  times of frames, not their content.
- With the default percentages fewer than six groups leave no test split, and one leaves no val split.
- The second video of a sample gets the rate of the first.
- `ReversedHasFullMarks` does not hold: a prediction on frames in reverse is always in the "early"
  bucket, and so is one on a single frame, whatever the student says.


## 4. Proofs

`PerceptionProofs` has one part for the node, one for the adapter and one for `TemporalLabels`. Of the node it proves, for all
configurations, stamps, sources and numbers of messages:

- `NodeTypeCorrect` — the type invariant, itself inductive: frame numbers stay
  natural, and a place inside an iteration always has a frame.
- `CountersBalanceHolds` — inductive strengthening: at any time the frames sampled
  are those dropped, answered, failed, waiting and in flight; a worker that
  exits has drained the slot; the owner is gone only after the worker or when
  it never began.
- `AcceptedIsLiveHolds` — the accepted set equals the sources of the waiting frame
  and of the frame in flight, and the flags agree with the frame. Distinctness
  of the two sources is part of the invariant: without it releasing one would
  give the other back.
- `SourcesInferredOnceHolds` — on an ordered topic, with or without `drop_old_frames`, no source is
  answered twice. `SourcesIncrease` says that the last completed source, that of the frame in flight and
  that of the waiting frame increase and stay within what was delivered; `AnswersSettled`, that every answer
  so far is at or before the last completed source, or is the one whose source is about to be
  given back. Between the two critical sections of an iteration the active flag keeps the
  callback from taking the source in flight again; the accepted set does too, and the proof uses the flag.
- `NodeImplementsLatestOnly` — with `drop_old_frames`, initial states and steps of
  the node map to those of `LatestOnly`; the number of the frame in service and
  the one waiting come from the invariant that numbers follow `sampled`.

- `HistoryIsExactHolds` — `window` is all that was retained since the last reset, and `LongestKept` says that the
  history is `window` without its first n entries, that it fits both limits, and that without fewer it would not.
  An answer more keeps this because a suffix that does not fit does not fit with an entry more either. Sizes add up by
  a recursive function, so that this is proved by the least counter-example.
- `ContextIsFreshHolds` — `YoungIn` says of every entry of the history that it was retained less than
  `sinceReset` requests ago, the open one counted. The deque is emptied when that reaches N unless it is
  empty already, and the prompt is rendered after the look.

Assumed: `NodeAssumption` and `HistoryAssumption`, which say what
`validate_parameters` accepts.

Of the adapter it proves, for any boxes, lists of detections, thresholds, losses and restarts:

- `DetectionsAreFollowedHolds` — an update is a function of the rounds done, one per track and then one per detection,
  and `RoundOK` says what is so after n of them: the detections that are not free are, one to one, those of the tracks
  updated so far (`Claimed`); ids increase along the kept tracks and stay below the next one; and what became of each
  track done (`Fate`). After the last round nothing is free. `LastIsUnderWay` says of the inputs that, while the detector
  keeps up, all frames but the last are published or lost, and where the messages of the last one are.
- `TracksPersistHold` — an action property, from `RoundOK` and the increasing ids, by which a track is found again
  as one track at most. That some candidate is the best (`BestIsCandidate`) is shown by the least number of detections
  among which none would be.

Assumed: `TrackerAssumption`.

Of `TemporalLabels` it proves `VideosKeepTheirTimeHolds`, for every sample, period and tick. The indices that are served
are a recursive function, so that it is shown to exist and the bound is proved of the least index that would be off. The one
that matters is pushed past the one before: it is too large for its time, by no more than half a tick since its
frame comes a tick after the other (`PushedIsNear`). Rounding half to even does push: times of 1.5 and 2.5 ticks
are both rounded to 2.

`ControlsAreFairHolds` is about the controls of an evaluation. Accepted frames are in order, and an order that sorts them
changes nothing (`SortedIsItself`): a time that went down at some place would have come from fewer places than it has
before it, and one that went up from fewer than after it. Mirroring swaps the ends of the evidence within the same first and
last frame, and `_REVERSE_DIRECTION_MAP` is its own inverse, so that mirroring twice gives the label (`MirroredTwice`).

Assumed: `LabelAssumption`, which says that of the map, and that `NoTarget`, a refused target, is none.

`InferenceServiceProofs` proves, for any number of clients, connections, ticks and faults,
`KeptConnectionIsCleanHolds`. `ConnectionsInv` is the protocol as the two ends see it: a connection that a client
holds is open on its side and is nobody else's; the server serves one that was accepted; and `CallsProgress` says where
the one request of a call is, from the client's place: not sent, half of it in the connection, in the server's
hands (`Taken`), or answered with the id that the client sent last. Between calls nothing is on its way in either
direction, which is why a kept connection may be used again: a client gives a connection up whenever a call ends
otherwise than with its answer, whichever end broke it.

`FaultsCostOneCallHolds` is about one client of a server that launch starts again (`OneClientInTime`), for every number of
faults and all timers with `LoadTime + Deadline < RequestTimeout` and both below `ConnectTimeout`: with the defaults of
`main.cpp:18-20`, engines that load in less than 30 seconds. That the deadline is below the request timeout, which
`main.cpp:40` insists on, is not enough, because the socket listens before the engines are loaded, and a request sent then
waits for both. The invariant, on top of `ConnectionsInv`, has two halves. The account (`FaultIsPaid`): a fault that the
client has yet to find out about, a connection lost or an inference wedged, has been taken from `faults` and is not yet among
`failures`. The clocks (`AnswerIsInTime`): the client has waited no longer than the server has loaded and inferred,
because whoever else is to act does so before a tick (`OnlyLoadingTakesTime`). So no timeout of a request is ever reached, and
a call fails only on a connection that the server has closed; one that times out while it connects has met another fault
(`ConnectIsInTime`).

Assumed: `ServiceAssumption`, and for the second theorem what `OneClientInTime` says; the constants of `service_one` meet it.

`ConsoleRunsProofs` proves, for any number of runs and of requests, for every
`MaxRuns` and both values of `SlowToDie`:

- `OneChildHolds` — a child that runs holds the slot: from the reservation to the
  registration as `_reserved_ros_run_id`, then as the only active process. The
  invariant says that a reservation excludes active processes and that at most
  one is active, and that a child is marked stopped only when reaped.
- `ReportedOnceHolds` — whoever is in the callback is alone in it, nobody called it
  before, and nobody is in it as long as `_callback_fired` is not set.
- `StopEndsChildHolds` — an action property: a stop lets go of its run only past the
  mark, so with a reaped child.
- `StatusTellsOutcomeHolds` — a second invariant, `TellInv`, relative to the first:
  whatever was signalled was flagged before; an exit code is that of the child or
  none, and none only for one explicitly stopped; what is captured for the
  callback therefore stays true until it is written.
- `ConsoleImplementsRunLifecycle` — every step maps to a step of `RunLifecycle` or to a stutter.
  `RecordInv` says that only runs that began have a record, so that what begins is new, and that none of the
  manager's is cancelled. Recording evicts others and never the run itself, whose directory is the last
  (`KeptIsShort`, `SavedAmongFew` of `RunStoreProofs`).

Assumed: `ManagerAssumption`, `ConsoleAssumption` and `StoreAssumption`, which name
threads and runs and say that a record is kept.

`ExperimentRunsProofs` proves, for any number of experiments of either kind, of frames
and of failing file operations:

- `OneExperimentHolds` — from the claim to the finally block, wherever the slot has not been
  given back, the handler or the thread of a run is named by `_active_experiment_id`;
  a thread exists only once the handler is past its last step. Only the second look
  at the slot, under its lock, is used: the early gate alone would not do.
- `StatusTellsExperimentHolds` — relative to that invariant, a loop that ended without an exception
  did so because all frames were done or the event was set; what is decided then stays true, because
  an event is never cleared and no frame follows.
- `ExperimentsImplementRunLifecycle` — as for the console, with rejected requests, other runs, operations that fail and
  reviews that bring a directory back without its manifest. A record is cancelled only when the thread of its
  experiment is done, so that none is finalized after that.
- `PromptTellsTheLatestHolds` — the memory of a run is `Latest` of all its answers: appending to the last `MaxEntries` and
  cutting again is cutting what was said (`LatestOfLatest`). `TruncatedFits` says that the loop from the newest
  back stops at the longest suffix that fits, since `BlockLength` never shrinks with an entry more. Both functions are
  recursive, so that what they compute is proved of the least number for which it would fail.

Assumed: `ExperimentAssumption`, `EngineAssumption` and `StoreAssumption`. The lemmas of
`RunStoreProofs` say what recording, updating and finalizing do to all manifests, whichever
directories are evicted.

`KnowledgeGraphProofs` proves, for any entities, names and values, either value of
`require_known_entities` and any number of prompts and updates:

- `GraphTypeCorrect` and `OneBeliefHolds` — every step of the facts invalidates some ids and may record one
  fact (`Step`), and what it records has no valid rival that it leaves (`Clears`). The two lemmas
  `SetClears` and `AddClears` say so of the two operations that record; all else follows from `Step`.
- `HistoryIsKeptHolds` — an action property, from `Step` alone.
- `GraphImplementsWorldModel` — each operation maps to an action of `WorldModel` or to a stutter;
  `OneBelief` is needed for `InvalidateFact`, which takes back one fact and must give up what it says.
- `MirrorTellsLastSetHolds` — an attribute is mirrored with the fact that is recorded for it, whether or not a
  valid one has to make way, and nothing else touches the mirror; ids only grow, so that the last set has the largest.

Assumed: `GraphAssumption`.

`TemporalNodeProofs` proves, for every window length, period, gap, set of stamps and number of connections and deaths:

- `WindowsAreStreams` — `WindowIsOneStream` always holds: the last of the buffer is what
  `last_sampled` names and carries the number `sequence`, a frame that is appended follows it by
  a period or more and by the gap or less, and cutting the oldest keeps a stream one.
- `IdleConnectionIsCleanHolds` — `TalkInv` is the protocol: a socket the node keeps is open on its side; while it is
  not in a call the connection is `Clean` and the worker, if it serves it, is between two requests; in a
  call the request is being sent, or was read whole and is the worker's, or its answer is there. Every
  exception closes the socket before the next window, and this is the only place where it is used.
- `ResultsFollowWindowsHold` — an action property, from the same invariant: an answer is to the window that
  was sent, which is the one in hand, and windows are taken with growing numbers.

Assumed: `WorkerAssumption` and `TemporalAssumption`.

`OfflineToolsProofs` has one part for each tool. Of model control it proves, for any models, profiles and revisions:

- `ControlTypeCorrect`, `ActivatedIsBuiltHolds`, an action property, and `ActivationIsWholeHolds`, from
  one inductive invariant. `NumbersAreOld` says that no file names a content that has not been
  written yet, so that what is written next is new to all manifests; `ManifestTells`, that a manifest
  that fits what is prepared and the profile as they are now belongs to engines that were built to
  their end from just that; `BuildGoesOn`, what the parts already built are during a build;
  `ActivationGoesOn`, that until its last write an activation has left the state file alone and its engines
  are as they were validated.

Assumed: `ControlAssumption`.

Of distillation it proves, for any samples, groups, representations and percentages, `LabelsAreCurrentHolds`
and `ExportIsWholeHolds`. `InvLabels` says that a whole file under the name of a sample is a label of it, given for the
fingerprint it carries; `InvExport`, that at each file of the export those before it are what the
splits say, and that the splits divide the groups. Assumed: `PipelineAssumption`.

Of an extraction it proves `ManifestTellsFramesHolds`, for any recording in the order of time, any options and any
kills: while messages are read the files are the frames in their order, the one being written excepted (`FilesFollow`),
and the frames are what should be taken of the messages so far (`Sampled`). When the loop ends before the recording does,
either there are as many frames as there may be, or the message at hand is past the end, and so are all that
follow. Assumed: `ExtractionAssumption`; that a bag is read in the order of time is what the reader of rosbag2
does, and the script relies on it when it stops at the first message past the end.

Of the catalog it proves `RecordsTellFramesHolds`, for any links between the samples of a scene, cycles included, any
selections, and any order of listings, extractions and changes on disk. The walk and the selection are loops, described
by functions on an initial interval: `LoopExists` says that there is such a function and `LoopStays` that it stays in a
set its rounds stay in, which is the set of walks whose references are among the samples seen, each once (`Walks`), and
the set of selections without repetitions (`Chosen`). `SequenceInv` then holds a request to the entries it resolved
(`Told`), and takes the frame of a fixture from `ExtractionInv`: the recording has one message, so that whichever
directory is the newest with the frame, its frame is that message. Assumed: `CatalogAssumption` and `ExtractionAssumption`.

Of the stack it proves `StackKnowsItsOwnHolds`, for any processes, kills of the script and ends of processes, if SIGKILL
works in time (`~SlowToEnd`) and no number is given again under a command (`~QuickReuse`). `StackInv`: births are counted, so
that a number and a start time name one process; a record that fits a living process names one of the script's own; and
until a component is recorded `script` holds its number and its start. A start that fails stops what this start has
recorded, so that the part of the invariant for the places before (`BeforeLaunch`) has to say which components those are.
Without either hypothesis it fails, as section 3 says. Assumed: `StackAssumption`.

Only model-checked is liveness (`NothingHangs`, `ServiceRecovers`, `RunsAndStopsEnd`, `ExperimentsMakeWay`,
`WindowsAndStopsEnd`), which is out of the prover's reach.

## 5. Not modelled

Left out on purpose:

- the TensorRT and FlashRT engines and the training itself: calls into external libraries, whose outcomes
  are choices here;
- RViz, the front end, status pages and read-only listings: presentation;
- `latest_value_stage.hpp`: only its own test includes it;
- benchmarks, evaluation reports, teacher comparisons: reports over recorded files, in one pass;
- installation scripts: package and file installation on one kind of device;
- of the console, the validation of requests (one choice between accepted and rejected), the collection of
  logs, the members of a child's process group and the annotations of a review, which a lock per run
  and an atomic replacement guard;
- of model control, dry runs, the commands that only print and two commands at once;
- what OpenCV returns for an index outside a clip of unknown length: taken as nothing;
- the 2 seconds launch waits before it starts the service again (`edge_vlm.launch.py:251`): `Start` may come at
  any time, under `Urgent` at once. A client that connects meanwhile tries again for 120 seconds, which has to
  cover the delay as well;
- of the stack script, how it finds a listener (a substring of what `ss` prints, or the file alone without `ss`,
  `experiment_stack.sh:215`): `Listener` is the process that really holds the file. `StackKnowsItsOwn` does
  not depend on it;
- of the temporal node, a publisher that raises while the context is up (`temporal_ros_node.py:347`): the
  exception ends its thread.

What remains to be done, the most useful first:

1. `TrackedAdapter` composed with the node: a restarted adapter numbers its observations from
   1 again, and the node takes them for repetitions.
2. Commands of model control, or of the stack script, beside each other.
