# Corrode in TLA+

Corrode is a daemon that runs a swarm of coding agents over a git repository.
A client sends a prompt; the daemon plans it into tasks, runs each task as a
conversation with a served model that may call tools (read and write files, run
commands), lets tasks emit follow-up tasks, has the result reviewed, records
what was done and re-ingests what was written into a code graph. This directory
models the daemon in TLA+, checks the models with TLC on small instances, and
proves the main theorems with TLAPS for every instance.

All paths below are under `src/crates/corrode-daemon/src/` unless they begin
with `src/`.

## Inventory

| part | source | state | operations | what is hard | what makes it right |
|---|---|---|---|---|---|
| Plan graph and turn | `plan_graph.rs`, `daemon.rs` (Prompt, CancelTurn) | nodes with a status, tasks in flight, the drive's summary, the turn's bounds and cancel switch | launch, complete, time out, cut off, fold emissions, review drive, report | completions, emissions, the deadline and a cancel race in one select; the same graph is driven twice | dependencies respected, nothing re-run, bounded growth, the report true, the turn ends |
| Turn memory and file tools | `daemon.rs` (SeenCalls, gate_and_execute), `tools.rs` | calls already made with their observations, a generation, originals of written files; per task the version of each file it saw | lookup, approve, read, check, compare, write, run, settle | every operation spans awaits between which siblings write the same files; tasks are dropped at any await | no stale answer from memory, no lost update, a true diff for the reviewer |
| Session and turn feed | `session.rs`, `daemon.rs` (run, attach_feed) | running turns, ring of recent events, live channel, relays | publish, attach, re-attach, select repository, re-authenticate | a connection re-attaches while the old relay still forwards; slow and late connections | each event once and in order, or the loss is reported |
| Turn registry and journal | `session.rs`, `daemon.rs` (ListTurns) | running turns, one journal file for all users | register, append, unregister, list | a turn leaves one for the other during a listing; records interleave; a death mid-record | a listing misses no turn |
| Approval gate | `approval.rs` | pending requests | request, resolve, time out | an answer races the timeout and the drop of the asking task | nothing runs unapproved; one answer, one effect |
| FUSE adapter | `fuse.rs` | per-handle write buffers and read copies | open, write, truncate, flush, release, rename, unlink | the VFS is asynchronous: two flushes, or a flush and a rename, overlap | what a handle wrote reaches its file, last writer last |
| Terminals | `terminal.rs` | shells by id, their owner connection | ensure, input, resize, the reader thread | a lock held across a blocking pty write; eviction on exit | output reaches the owner, no deadlock |
| Per-turn views | `view.rs` | changes over a base tree, mounts, records | read, write, rename, remove, commit, take down, sweep | layered deletes and renames; a daemon that dies with a view mounted | a view reads as one tree; a commit is that tree; no live view swept |
| Graph store: code | `graph.rs`, `graphvfs.rs`, `daemon.rs` (ingest_written) | nodes of each file, the content id they came from | ingest, initial ingest, turn-end ingest, read | two writes per file; two ingests of one file overlap | a read from the graph equals the file |
| Graph store: documents | `ingest.rs`, `graph.rs`, `daemon.rs` (ingest_doc, doc_query) | documents, their chunks, vectors, the model that made them | ingest, ask | ingests overlap; batches fail to embed; the model changes with a restart | every vector is of a stored chunk, a question ranked by one model |
| Graph store: traces | `trace.rs`, `graph.rs`, `daemon.rs` (record_trace, persist_provenance) | notes, each file's head, the plan's provenance | extract, chain, write | heads are read before the batch is written; a task runs again under its id | from a head all its file's notes, from a plan all its turn's |
| Projection | `projection/` | none (pure) | split, reconcile, assign keys, project | keys reused, gaps exhausted | reconciled nodes project to the new file, unchanged nodes keep their keys |
| VFS and sandbox | `vfs.rs`, `sandbox.rs` | none | read, write, stat, confinement | symlinks; a write on the blocking pool outlives its task | paths stay in the repository |
| Model client | `hipfire.rs`, `remote.rs`, `swarm.rs` | in-flight permits | post, retry, stream, escalate | retries against a window, a shared cap | bounded waits, permits returned |
| Task execution | `daemon.rs` (tool loops, fan-out) | the conversation, step budgets | step, call, nudge, stop | budgets, repeated calls, fan-out attempts that must not write | ends, writes only where allowed |
| Planner, roles, skills, projects | `planner.rs`, `roles.rs`, `skills.rs`, `project.rs`, `knobs.rs` | configuration | parse_plan, role lookup | index remapping | dependencies point to earlier subtasks |
| Digests, traces, telemetry | `digest.rs`, `normalize.rs`, `trace.rs`, `telemetry.rs` | append-only records | format, append | none | text |
| Server, start-up, wire types | `server.rs`, `main.rs`, `doctor.rs`, `src/crates/corrode-core` | sockets | accept, dispatch | none of its own | commands map to the actions of other parts |
| Web front end | `src/webui`, `src/crates/corrode-web` | commands to resend, the list of approvals, what it shows | sign in, select, prompt, reconnect, answer | sockets cut between any two commands | a prompt runs where its user had placed it |
| Needle shim | `src/crates/needle-toolcall-shim` | a decoder's state | mask, fast-forward, decode | tokens that were not cut where the JSON is | what was written is a call of a tool that was offered |

How they interact: a connection's command loop (`Daemon::run`) binds a session
and dispatches commands; a Prompt runs in a task of its own. That one async task
polls the plan graph's drive and, inside it, every running task's future. Tasks
share the turn's SeenCalls behind a mutex that is never held across an await,
reach files through the VFS on the blocking pool, ask the session's approval
gate before a mutating call, and publish events to the session's feed, which any
number of connections of the same user follow. At its end the turn writes its
provenance and re-ingests what its tasks say they wrote.

## Modules

### PlanGraph

`run_reactive_until` and the two drives a Prompt turn makes of it. `pc` follows
the code: `launch` is the head of the loop, `select` the await, `fold` the
emission loop, `tally` and `close` the lines after the loop, `review` and
`report` the daemon's lines between and after the drives. The steps between two
awaits are split where the code reads the clock or the cancel switch again
(`expired()` is a function, not a value): an emission may be shed although its
predecessor was folded, and `expired` may be set on a summary whose `unlaunched`
was not counted. `Tick` moves the clock past the deadline and past its grace,
`CancelTurn` flips the switch, both at any moment.

`Complete` takes any running task, any verdict and any emissions. A failed task
emits nothing (`daemon.rs`, the executor returns no emissions with an error).
`TimeOut` is the task's own ceiling. `Write` records that a running task changed
a file the graph does not hold yet; the artifacts are credited on completion
only. `Merged` is the daemon's merge of the two summaries, field by field.
`after_emitter` is always true in the code (`emit_followups`), so an emission
depends on its emitter. A plan has at least one task.

| definition | code |
|---|---|
| `Ready`, `Launch` | `PlanGraph::ready`, the launch loop |
| `Complete`, `TimeOut`, `CutOff`, `Settle` | the select and what follows it |
| `SkipRouted`, `ShedEmission`, `DropAtTaskBudget`, `CapEmission`, `FoldEmission` | the body of the emission loop, one action per branch |
| `CountUnlaunched`, `CloseDrive` | the last lines of the drive |
| `StartReview`, `SkipReview`, `Report` | the daemon around the drives |

### TurnMemory

The tasks of one turn making tool calls, one action per await of
`gate_and_execute` and of the tool it runs. A call is looked up (`Repeat`,
`Fresh`); a read answered from memory then records the file's version
(`NoteRead`); a mutating call waits for approval (`Deny`, `Approve`); a write
keeps the file's original (`ReadOriginal`, `KeepOriginal`), checks the version
(`CheckStale`), compares (`Compare`, `NoteUnchanged`) and writes (`Write`,
`WriteFails`); a command may change any file any number of times before it ends
(`CommandWrites`, `CommandEnds`); a finished call settles (`Settle`): a mutating
one clears the memory before it is remembered, a read is remembered if the
generation has not moved. `Drop` is the task's future dropped by its ceiling or
the cut-off: a command dies with its process group, a write already on the
blocking pool does not (`OrphanLands`, `OrphanFails`).

`FileOf` maps the paths a model may spell to files, because the version table
normalises paths (`version_key`) and `originals` does not. Six history
variables serve the properties: what each file held before the turn, the paths
it was written under, the files commands changed, the changes of a task that
has not cleared the memory for them yet (`dirty`), what each task's model was last shown
(`shown`), and the files changed in a window the code leaves open while a task's
view of them was being formed (`raced`).

Deliberately left out: the observation's text, the digest of the log, the other
read-only tools (they behave as `read_file` without a version), refusals by role
or for missing arguments (they change nothing), and a fan-out attempt's private
memory. Processes a command leaves running after it ended are not modelled.

### TurnFeed

How the events of a session's turns reach its connections. Every turn has a
bounded channel (`queue`) and a pump that publishes from it (`Publish`); the
feed's ring and its broadcast channel are both views of one growing log,
`published`: `Ring` is its last `RingCap` events that are not streamed deltas,
and a broadcast receiver is a position in it (`Received` is tokio's rule: a
receiver more than `LiveCap` behind is told how many it missed and goes on from
the oldest). Publishing and attaching are one step each because both take the
ring's lock. A connection's command loop is `mode`: it selects a repository
(`Select`), authenticates again (`Authenticate`, which aborts the relay first),
awaits the binding (`BindFails`), takes ring and receiver (`Attach`), sends the
ring (`Replay`), starts the new relay and aborts the old one (`StartRelay`). An
aborted relay may still send until it reaches its next await (`AbortedSends`,
`AbortedStops`). `EndTurn` and `SendComplete` are the drop of `TurnEnd` and the
task it spawns.

A `Conn` is one socket; reconnecting is another `Conn`. `session.turns` is
`Registered`. What an event says is not modelled; the journal and `ListTurns` are
TurnJournal's.

### Approvals

The approval gates of several sessions, the command loop that routes an answer,
and the list a web client keeps. A `Request` is one call of
`ApprovalGate::request`; `Ask`, `TakeAnswer`, `TimeOut` and `Drop` are its
life, `Resolve` is an answer's arrival at a gate. `BindClient`, `Reconnect`, `Show`
and `Decide` are the client: a list keyed by the request's id, kept when
another repository is selected and cleared when the socket closes. Two history
variables record the first answer a waiting request was sent and which request
its sender was looking at.

`approval.rs` also denies a request when the client is gone
(`events.closed()`). Inside a turn the channel it watches is the turn's own,
which its pump reads until the turn lets go of it, so that branch is never
taken: an unattended request waits for its full timeout. The model has no such
action.

### ViewVfs and ViewTree

`ViewVfs` is the view itself: `changes` over `baseTree`, with one action for each
operation that takes the lock once (`WriteFile`, `Make` for mkdir and symlink,
`Remove`) and several for those that look, read and change under a lock each:
`Chmod` or `Touch`, then `Read`, then `Set`; `BeginRename`, a `Read` per file, then
`Move` or `MoveFails`. What such an operation has found is in `op`, with a flag
that says whether another caller has changed since what it depends on. Callers
are the daemon's file tools, which go to the view directly, and the shells
behind the mount: the kernel's locks order only the latter among themselves.
`View` is `view_of`, `Missing` and `ParentsFit` are `ensure_parents`, `Committed`
is what `commit` makes of the changes, with git's rule that an index entry takes
the place of those it conflicts with. A failed operation that changes nothing is
a step that is not enabled.

`ViewTree` is what the view promises: one tree, to which each operation happens
as a whole. `ReadsAsTree` states that ViewVfs implements it under the mapping
that shows each path as `View` does, but for the steps of an operation that was
overtaken and for what follows once such a step has left something that is no
tree, where ViewTree promises nothing.

Left out: reading (a read is a single look at one path), what links point to,
times, and paths the view refuses by their form.

### WarmBuild

The build directories of turns that work in views: `TurnView::start` and
`finish`, `take_warm`, `hand_over_warm`, the record and the sweep of a dead
daemon's records. A directory keeps its identity when it is renamed; `at` says
where it is. `Take` renames the warm directory to the turn's own path,
`MarkDirty` reads its manifest, `Record`, `MountFails` and `StartFails` are the
ways a start goes on, `Write` and `Build` the turn's work, `PutManifest`,
`RemoveOutput`, `RemoveManifest`, `EndRemoval`, `HandOver` and `RemoveRecord`
the steps of the hand-over on the blocking pool. `remove_dir_all` holds the
directory open, not its path, so a removal goes on in a directory that another
turn has taken since; the model lets it. Cargo is external and modelled by its
rule: a file is compiled again if it is newer than its output or has none
(`Recompiled`). `Crash` is a death of the daemon, `Sweep` and `Restart` the next
one's start.

Abstractions: one output per source file; a write is always newer than the
build before it (a command that sets an old time on a file would defeat cargo in
any directory); opening the view and taking the warm directory are one step,
although a build handed over between them would be newer than the view's
`opened_ns`.

### FuseWrites

What the kernel does through the mount with file handles. Every call is a task
of its own: what it does under the lock of the buffers is one step, each VFS
operation it awaits another. `Open`, `BeginCreate`/`EndCreate`,
`WriteBuffered`, `ReadForWrite`/`InsertAndWrite` (the first write of a handle
reads the file outside the lock), `Flush`, `Release`, `Store` (the whole-file
write of a commit, which may fail), `TruncateBuffer`,
`ReadForTruncate`/`StoreTruncated`, `Rename`/`Retarget` and `Unlink`. A byte is
the number of the call that wrote it. The kernel is external: `known` is the
path it knows a handle's file by, and it sends a handle's release after the
handle's other calls. Histories: the bytes answered for (`acked`), the handles
whose file may differ from their last commit (`excused`) and those whose first
write a rename overtook (`raced`). Left out: directories, attributes, inodes.

### GraphIngest and Reconcile

`Reconcile` is what `projection/` computes: `Matches` (common head and tail, and
the walk of the alignment table between them, as recursive functions),
`Backing` (which stored node a fresh one continues), `Spread` (the keys of new
nodes in a gap), `assign_keys`, `rebalance` and `regenerate`. Keys do not
saturate: they are 64 bits wide and 2^32 apart.

`GraphIngest` is the store's files, the initial ingest (`OpenRepository`), the
sweep at a turn's end (`EndTurn`, then per file `ReadSource`, `DropGone`,
`CheckOid`, `FetchStored`, `ReplaceFile`, `RecordOid`, `PlaceFile`, with
`SkipHeld` and `IngestFails`) and a read answered from the graph (`ReadDisk`,
`CheckFresh`, `ServeFromGraph`). A store call is one step; what the code does
with several is several, and `Die` may come between any two. Nodes and record
are two writes: `torn` and `touched` remember where another ingest or a death
came between them. `Change` is whatever writes the files.

### DocStore

Documents added to the graph store: `ConvertAndEmbed` (batches may fail to
embed), `AdmitVectorWrite` and `ClaimVectors` (the record of the model is read
and written apart from the vectors), `ReplaceDoc`, `ReplaceFails`; a question is
`EmbedQuery`, `CheckVectors`, `SearchDocs`. `Restart` may bring another model.
`late` marks an ingest that a later one overtook. The ranking is not modelled.

### TraceNotes

What a turn leaves in the store about itself. A run's trace is a sequence of
steps; `extract` makes its notes, `Distinct` drops repeated claims. `EndRun`,
`ReadHead` (heads are read one by one), `WriteBatch` or `WriteFails`, and
`PersistProvenance`, before or after which a run on the blocking pool may still
write. A task that runs again writes under the id it had. `parted` remembers the
files two runs read the same head of.

### TurnJournal

The turns a client is listed: those registered in its session and the last ones
of the journal. A turn is `Register`ed, begins and finishes its record
(`BeginAppend`, `FinishAppend`: `writeln!` on an unbuffered file writes in
pieces, so the records of two turns may alternate) or leaves none, and is
unregistered. `Lines` is where the lines that parse end; of those, `Shown` counts
what comes after, as the `take`s of the code do from the end. A listing copies the running
turns (`CopyRunning`), then reads the journal (`ReadJournal`). `Fall` is a death
of the daemon, perhaps mid-record.

### ModelClient and TaskRun

`ModelClient` is a generation: it queues for one of its backend's permits
(`Ask`, `Admit`), is answered, fails or is shed, sleeps and is sent again with
its permit still held (`Shed`, `Resend`), or its asker is dropped (`Abandon`).
`recorded` counts what a task's scope asked of the remote.

`TaskRun` is the executor around it: `Start` and `Rerun` choose the backend
(rerun off the remote, once more, then escalated, in that order), `run_fanout`
with attempts, stragglers and a judge, then a loop. The native loop's step is
`Generate`, then `TakeCalls`, `TakeAnswer` or `TakeError`, `Gate` for each call,
`EndStep`; past the last step `SpendSteps`, `Conclude` and the requests for a
final answer. The text loop is `TakeIntent` and `TakeText`, a plain run one
generation. A reply is what the loops tell apart: whether there is a text, and
which calls. What a call does is TurnMemory's. Sizes are open: whether a prompt
fits is a choice (`TooBig`).

### CFile

A C file from bytes to nodes and back: `lex`, the scan for items, statements and
blocks (`spans_from`), the cover of the file by nodes (`nodes_from_items`), the
binding of comments (`bind`), and re-ingest through `Reconcile` after each edit
(`TypeIn`, `CutOut`). Bytes are the twelve the backend tells apart. The edits of
an instance are typed in one alphabet, of single bytes or of whole statements.

### Guide

The needle shim's guided decoding: the JSON state machine (`FeedChar`), the
mask (`Allowed`), what is forced (`UniqueFastForward`) and the decode loop. The
network is open: of the tokens the mask leaves any may come. `ReadChar` reads
the output independently; the property compares the two.

### WebClient

A browser's client and the daemon's end of each socket it opens: what the user
did (`SignIn`, `Select`, `Ask`), the client's loop (`Open`, `Resend`, `TakeUp`,
`Receive`, `Notice`) and the daemon's (`Authenticated`, `Selected`, `Handled`).
A cut loses the events on the socket and some suffix of the commands; the
daemon still handles what it took in. `Placed` is where the user had placed
what they did.

### Proof modules

| module | theorems about |
|---|---|
| `PlanGraphProofs` | PlanGraph |
| `FilesProofs` | TurnMemory and CFile |
| `SessionProofs` | Approvals and TurnFeed |
| `WebProofs` | WebClient and TurnJournal |
| `MountProofs` | WarmBuild, FuseWrites and ViewVfs, with the refinement of ViewTree |
| `ReconcileProofs` | Reconcile |
| `StoreProofs` | DocStore, TraceNotes and, on top of ReconcileProofs, GraphIngest |
| `TaskRunProofs` | TaskRun, and with it ModelClient |

## Runs

Parts of the system that do not touch each other share a run: a variable `part`
says which of them a behaviour is about, and the others stand still. That adds
their state spaces where a product would multiply them.

| run | parts | shows |
|---|---|---|
| `graphs` | PlanGraph, GraphIngest, DocStore, TraceNotes | 13 properties, 1.86 million distinct states |
| `files` | TurnMemory, CFile, Guide, WebClient, TurnJournal | 10 properties, 1.20 million |
| `session` | PlanGraph's liveness, TurnFeed, Approvals | 4 invariants and 3 liveness properties, 150 thousand |
| `mount` | FuseWrites, WarmBuild, ViewVfs | 8 properties, one of them the refinement of ViewTree, 131 thousand |
| `task_run` | TaskRun with ModelClient | an invariant and termination, 432 thousand |
| `every_write_ingested` | PlanGraph | files of a timed-out or cut-off task are not ingested |
| `approved_as_shown` | Approvals | an answer meant for one session's request approves another's |
| `commit_is_view` | ViewVfs | a base file replaced by a directory, and a submodule moved with its directory, stay in the commit |
| `warm_build_current` | WarmBuild | a file handed on dirty and unbuilt is fresh to the turn after |
| `comment_introduces_below` | CFile | a comment above a statement is bound to the statement after that one |
| `prompt_where_placed` | WebClient | a prompt runs in the default repository after a sign-in and a reconnect |
| `structure_constrained` | Guide | past the first token the structural mask leaves every token |

The last seven expect a violation: each checks a statement of a doc, a comment
or a test that the code does not keep, quoted under `findings` in
`PROJECT.json`. Where a claim fails, the passing run checks what does hold:
`CompleteIsHonest`, `ApprovedByFirstAnswer`, `CommitKeepsFiles`,
`CurrentUnlessSkipped`, `ProjectsByteExactly`, `PlacedUnlessRefused`,
`CallsAreCallable`.

Bounds.

- Plan: two roles, plans of one or two tasks that grow to three, one follow-up
  per drive, one emission per outcome (the code makes no more), each setting of
  the two limits. A chain, two independent tasks, a task with an emitter and a
  planned dependent, the review task and its follow-up are all there, and both
  limits are hit. For liveness the plan stays at two tasks and at most one of
  the limits is set, where an absent timer matters.
- Code graph: one file, one change, two turn ends that overlap each other and
  the initial ingest, one read, one death. A gap of two between keys makes
  rebalancing happen, and a table of nine cells makes alignment give up.
- Documents: one document of up to two batches, two ingests, one edit, one
  question, two restarts, two models. Notes: two tasks, two files, three runs, so
  that one task runs twice.
- Files: two tasks, one file under two spellings, three calls, the fewest in
  which a read from memory is overtaken by a sibling's write. A C file gets
  four edits from empty, of single bytes or of whole statements. A browser does three things over two
  sockets. Three turns of two users with room in the listing for fewer. A small
  model writes four tokens on from each of four openings, single characters and
  merged tokens.
- Session: one turn and one connection, because turns and connections meet only
  in the log; ring and live channel of two, a turn's channel of one, two events
  between first and last, two attachments: the least at which a receiver lags,
  the ring overflows, a sender waits for its pump and an attachment replays while
  the last relay still runs. Two requests in two sessions whose ids coincide, one client.
- Mount: two calls at a time on two files and two handles, three calls altogether
  of those that are counted, files of two bytes. Two turns, one source file of
  two contents, two commits, one death. Two callers, three operations, names two
  levels deep, two base trees, one of them with a submodule and a link.
- TaskRun: one coder task, native or plain, a fan-out of two, two steps, one
  retry, one permit per backend that another turn wants too, a budget of one.

What is proved holds without these bounds.

Symmetry is used in `files`, `mount` and `graphs` between interchangeable model
values (two turn ends, calls, paths, callers), in runs whose temporal properties
are action properties or a refinement by steps. Deadlock is checked in
`graphs` and `task_run`, whose resting states are those where a behaviour is
over; in the others operations are used up, connections close and turns end, and
the system really stops.

## Properties

PlanGraph: `OnlyFailureStrands` (in a turn within its budget whatever is left
Pending waits, perhaps through others, on a failed task, which is what the error
message says), `CompleteIsHonest` ("complete" means nothing shed, cut off,
unlaunched or left uncredited), `OneHandoffPerRole` (no task's output is handed to two
tasks of one role because one was emitted), `ReviewSettlesFirst` (the review sees
a graph that no longer changes), `TurnEnds` (a turn with a limit, or one that is
cancelled, ends). Proved and not run: `DependenciesDone`, `SettledForGood`,
`NothingRunsOn`.

GraphIngest: `RecordMatchesNodes` (the nodes compose to the content on record,
unless a death or another ingest came between the two writes),
`ServedIsCurrent` (what a reader is served is what it found on disk),
`CommentsStayBound` (no edge dangles, every comment is at its node),
`SweepCatchesUp` (a sweep that ends has recorded every file it alone answers for).

DocStore: `VectorsAreChunks`, `RankedByOneModel`, `ReportedIsStored`.
TraceNotes: `HeadReachesNotes` (from a file's head every note that was ever its
head, unless two runs read one head), `PlanRevealsNotes`.

TurnMemory: `CacheFresh` (a remembered read is the file, unless a call that
changed the file has not cleared the memory), `OriginalsArePreTurn` (the reviewer's
diff misses no written file and starts before the turn), `LostOnlyByRace` (a
whole-file write discards contents its model never saw only if they were written in
the windows the code leaves open: during a read from memory, or between the
check and the write).

CFile: `ProjectsByteExactly` (whatever was typed, the nodes are the file),
`CodeIsCode` (the lexer's jumps land where a reader that takes one byte at a time
is in code), `StatementsStandAlone`. WebClient: `PlacedUnlessRefused`,
`PageIsBound`. Guide: `CallsAreCallable` (where the mask was in force, names are
offered tools and keys their unused parameters). TurnJournal:
`EveryTurnIsListed` (a listing misses no turn, except those crowded out, without
a whole record, or whose record met another).

TurnFeed: `TurnBrackets` (a turn's first and last event are first and last in
the feed, although its `TurnComplete` comes from a task of its own),
`NothingLostUnsaid` (what an attachment is sent accounts for every event from
its first on, in order, sent or reported missed), `TurnSeenToItsEnd` (an
attached connection that stays is told of the turn's end, or that it missed
events). Proved and not run: `CompleteIsNotRunning`.

Approvals: `ApprovedByFirstAnswer` (no late, second or foreign answer approves a
call), `GateHoldsTheWaiting` (what waits can be answered, and what a gate holds
beyond that was left by dropped tasks), `EveryRequestSettles`.

FuseWrites: `BufferHoldsWrites` (no answered write is missing from its handle's
buffer), `FollowUnlessRaced` (a buffer is flushed to where its file is now),
`CloseStores` (a handle that is closed leaves its buffer in the file, unless a
commit failed or overlapped another change of the file).

ViewVfs: `ReadsAsTree` (every step of the layered view is one whole operation on
a tree, or none, unless another caller overtook it), `NothingOrphaned` (whatever
is shown has its directory), `CommitKeepsFiles` (the commit has every file and
link the view shows, but for ignored new ones, and no other, except where the
finding says).

WarmBuild: `CurrentUnlessSkipped` (output cargo reuses was compiled from what
the view holds, through every race of taking, removing and handing over, every
commit and every crash, with the one exception the finding describes) and
`NothingLeaks` (a directory that is neither warm nor a turn's has a record for
the next sweep, except after a start that failed before its record was written).

TaskRun: `SpendIsRecorded` (what counts against the remote budget is what the
ended tasks asked for, through every rerun, attempt and judge), `TaskEnds`.
Proved and not run: `RunsBounded`.

Each checked property has a mutant of the model, marked `Faulty` or `Bug` beside
the definition it changes, that the run catches.

## Fairness

PlanGraph assumes that the turn's own async task is polled (`WF` of the
scheduler's steps), that time passes (`WF` of `Tick`) and that a task's own
ceiling fires (`WF` of `TimeOut`): tokio polls a ready task and its timers fire.
Nothing makes a task complete or a client cancel. Under these assumptions alone
a turn with a limit ends, and a cancelled one ends without any timer.

TurnFeed's `Fairness` assumes that an ending turn's guard is dropped and its task
runs, that pumps and relays are polled, and nothing of clients. Approvals'
assumes that a request's timer fires, and no answer.

TaskRun's assumes that permits are handed out and sleeps end, that a request
that was sent runs into its timeout if nothing else comes of it, that a task whose
step is enabled takes one, that the first attempt of a fan-out ends and the
others run out of the time it sets them. No reply is assumed. The fairness of a
task's steps is that of its disjunction, so it does not choose which.

The other modules state no liveness.

## Proofs

Every theorem is of a module's own specification, for every value of its
constants that satisfies the module's named assumptions: the review role is a
role and the plan limit does not exceed the task budget, values for absent and
unset differ from every content, capacities are not zero, a document's and a
file's content is a sequence, a refused path is no repository and nobody no user, a
listing's windows are natural numbers, a turn's tasks are finitely many and among those
who may ask. `OneHandoffPerRoleHolds` assumes in addition that an outcome
carries at most one emission, as `emit_followups` makes it.

For every set of roles, plan size, budget and emission count, `PlanGraphProofs`
shows type correctness, `DependenciesDone`, `SettledForGood`, `NothingRunsOn`,
`ReviewSettlesFirst`, `CompleteIsHonest` and `OnlyFailureStrands`, and, for one
emission per outcome, `OneHandoffPerRole`. The inductive invariant is `IInv`, in
parts proved on top of each other:

- `TypeOK` carries that a task depends on earlier tasks only, which makes the
  graph acyclic and lets `OnlyFailureStrands` take a least Pending task.
- `LoopInv`: after a launch in time nothing is ready, and once the loop is left
  nothing runs. Without the clause on `Ready`, a report could follow a state in
  which a task was launchable.
- `ReviewInv`: in the second drive no earlier task runs or is ready. It follows
  from `LoopInv` at the moment the review task is added.
- `HonestInv`: only an expired turn sheds, cuts off or counts, and a written file
  is credited, in work or on record as timed out; `Expired` only ever becomes
  true, which is what carries it to the report.
- `HandoffInv`, for `OneHandoffPerRole`: what is left to fold in is one emission of
  a task whose dependents the drive has listed, and the graph is as it was then.

For every set of tasks, paths, files and contents and every number of calls,
`FilesProofs` shows of TurnMemory type correctness, `CacheFresh`, `OriginalsArePreTurn`
and `LostOnlyByRace`, from `CacheInv` (a read about to be remembered is as
fresh as one that is), `OriginalsInv` (an original about to be kept predates the
turn's writes, and no write is checked before one is kept) and `ViewInv` (what a task
was shown is what its version check compares with, except in a race).

For every set of sessions, clients and requests, `SessionProofs` shows type
correctness, `ApprovedByFirstAnswer` and `GateHoldsTheWaiting`. The invariant
adds that a request not yet asked is in no table, that two requests of one gate
have two ids, and that an answer in a request's channel is the first that was
sent to it: a gate forgets an entry with its first answer, and no id is given
twice.

For every set of turns, files and contents and any number of commits and deaths,
`MountProofs` shows type correctness (with it that one directory at most is
warm), `NothingLeaks` and `CurrentUnlessSkipped`. The last is not inductive: that
a build's output is current depends on what the turns before wrote in its
manifest. The invariant follows the directory:

- `Owned`: a turn's directory is the only one at its path, so no other turn builds
  in it, and none is left there once it is handed on.
- `ViewsOfBase`: a view differs from its base in the files it changed only.
- `ManifestsTell`: the output in a directory that is warm, just taken or about to
  be handed on was compiled from the base in its manifest, or belongs to a file the
  manifest names or `skipped` does. A removal going on in a directory that
  was taken meanwhile only takes output or the manifest away, which keeps it true.
- `Current`: from the marking on, output not newer is what the view holds. The
  marking gets it from the manifest, the manifest written at the end from it.
- `Fresh`: nothing is at the path of a turn that has not begun.

For every number of turns and connections and every size of ring, broadcast and
channel, `SessionProofs` shows of TurnFeed type correctness, `TurnBrackets`,
`CompleteIsNotRunning` and `NothingLostUnsaid`. `FeedInv` is about one turn and
one connection at a time:

- `TurnInOrder`: what is in a turn's channel comes after what it published, its
  start first in both, and after its completion there is nothing left.
- `RelaysOK`: an attachment has one relay at most, aborted or not, and one that
  is still replaying none; without this two relays of one binding could send the
  same events.
- `ReplayOK` and `GapsOK`: what a replay has still to send, and what each relay
  goes on with, leaves nothing out after what was sent. Both are needed: a relay
  begins where the replay that is still going on will end.

For every set of names and calls and every number of handles, `MountProofs`
shows of FuseWrites type correctness, `BufferHoldsWrites`, `FollowUnlessRaced`
and `CloseStores`. `FuseInv` adds which calls can meet on a handle
(`HandlesOK`), that a first write under way knows its file by the kernel's path
(`Loads`), and that the commit under way of a handle that is not excused is its
only one and agrees with its buffer (`StoresAgree`), so that with nothing under
way the file is the buffer (`CommittedIsPlaced`). `CloseStores` needs the last:
when a clean handle closes, what its last commit stored is no longer in the state
but in the file.

`StoreProofs`, for every set of documents, models, tasks and files: `DocInv`
follows the model's record from an ingest's admission to its writing
(`WritesAdmitted`) and from a question's check to its search (`AsksAdmitted`);
the record is only ever set from none, and that is what makes checking it in a transaction of
its own enough. `ReportedIsStored` needs that an ingest not overtaken writes
nothing older than what was reported. `NotesInv` states `HeadReachesNotes` for
every set of notes closed under supersession, which is preserved because a batch
only adds edges.

For every finite depth of the tree, every set of callers and bases and any number
of operations, `MountProofs` shows of ViewVfs type correctness,
`NothingOrphaned`, `ReadsAsTree` (the refinement, one lemma per action) and
`CommitKeepsFiles`. Its hypothesis is `BasesAreTrees`, which MCMount's
`BasesAssumption` has TLC evaluate. `IInv` is:

- the types of the changes and of what is under way;
- `~torn => T!IsTree(tree)`, which is `NothingOrphaned`: a deletion hides what
  is below because it is applied to all that is listed below it, and an addition
  fits because `ParentsFit` is checked in the same critical section;
- `StillFound`: an operation that nobody has overtaken still finds what it found. The
  second step of a chmod or rename writes what the first one read; without it
  neither the tree nor the refinement survives it.

Several operations change many paths at once (a removal of a subtree, a rename);
`Inserted`, `Assigned`, `Cleared` and `Moved` say what a view shows after each of
these, and the actions' lemmas are read off them. `CommitKeepsFiles` rests on
`CommitOf`: what the index rules leave at a path is what the view shows there.

`ReconcileProofs` is about Reconcile's pure operators: whatever a file was and is, `reconcile` gives nodes whose keys increase and which regenerate the fresh
texts in order, for every stride and budget of the table. The walk of the table
is a recursive function; its equation is solved by the library's theorem on
recursive definitions over a well-founded set, and facts about every number are
shown by the least number they fail for, as sets of numbers and not as
predicates.

`StoreProofs` builds on it for GraphIngest, for every set of files, contents, turns and
readers. `IngestInv` is:

- `Typed`: with the types, every file's stored nodes have rising keys, which is
  what `Reconciles` asks of them.
- `Matched`: `RecordMatchesNodes` fails between the two writes, so there
  `RecordsItsOwn` says that the nodes are those of the content about to be recorded.
- `ServedIsCurrent`, for readers that answered.
- `Sweeping`: every file a turn's end answers for alone is up to date, still to
  do, or in hand with the content on disk; `SweepCatchesUp`, an action property, is read off it.
- `Bound`: edges are of files that exist, and `CommentsStayBound`.

For every file typed from any pieces, any edits, every stride and every budget of
the alignment's table, `FilesProofs` shows of CFile `ProjectsByteExactly`,
`StatementsStandAlone` and `CodeIsCode`. The first needs an inductive invariant:
`FileInv`, that the nodes have rising keys, as `Reconciles` asks of them, and join to
the file. Ingest restores it for any file at all, along the code's own passes:

- `LexOrderly`: the lexer's regions follow each other from the first byte to the
  last; each of its jumps ends past where it began and within the file.
- `ScanFinds`: the walk over the regions keeps `Found`: what was found so far ends at
  rising places (`Rising`), none past where the walk is; a statement begins after all
  found before it ends, and a block after every statement does (`Alone`).
  `StatementsStandAlone` is read off it, for every file.
- `SortedOf`: since no two end at the same place, the sort by start and end numbers
  them, and loses none.
- `ItemsApart` and `Covers`: what is kept of the items stands apart, and items with the
  gaps between them join to the file.

`CodeIsCode` is about the lexer alone. `Reading`, which goes byte by byte and looks at
nothing ahead but the second byte of a comment's opening, is shown to be in code again exactly where
each jump lands (`LinePassed`, `BlockPassed`, `DirectivePassed`, `LiteralPassed`), and
`LexRead` puts the regions together from the last to the first, as `lex` is defined.

The scans are recursive functions over the positions of a text. None of this is
induction over data with a predicate as a parameter: `Forward` and `Backward` give
the solution of such an equation, once for all, and a fact about every position is
a set of positions that has 0 and with each the next.

For every finite set of tasks and every bound, `TaskRunProofs` shows type
correctness, `SpendIsRecorded` and `RunsBounded` (at most four runs, one of them
remote). A sum over a set of tasks is proved about by counting: it is the
number of pairs of a task and a number up to what it recorded. `Asking` (only a
task that waits for a reply has a request out) is what keeps an ended task's
count from changing. The queue for permits is left out of the types, because it
is filtered by `SelectSeq`, of which the provers know nothing; no theorem depends
on it.

For every set of users and repositories, and any number of commands, sockets and
cuts, `WebProofs` shows of WebClient `PlacedUnlessRefused` and `PageIsBound`. What
they say of one moment was settled by what was sent long before, so `WebInv` is
about what is still under way:

- `Line`: what is still to be handled on a socket, which is what it carries and, while it
  is the client's and up, what is left to resend. Everywhere commands are in the order the
  user gave them (`ClientInOrder`), and one number is one command (`OneOfEach`).
- `BindingIsLatest`: nothing that was ever sent or resent is later than the
  command of its kind in `binding`, so a reconnect resends the one that counts.
- `InPlace`: a socket's repository and user were set by some command, and whatever
  else may be accepted, on any socket, is no later than that one or, before each prompt in
  line or to come, no later than another in the same line. Without
  it a selection that an abandoned socket still handles could change where a prompt was
  to run. The exceptions are a socket that has nobody signed in, where a prompt is
  refused, and one about to refuse the selection it begins with.
- `PageWillBe`: a page is bound, or a command that binds it is in line, or the `AuthOk`
  that makes the client send one is to come; with nothing in line this is `PageIsBound`.

For every set of turns and users, any number of listings and deaths, and every
length of the two windows, it shows of TurnJournal `EveryTurnIsListed`. `JournalInv`:

- `TailOnce` and `TailsInOrder`: a record ends once, and records end in the order
  their appends went through, although others' pieces lie between them. So the lines that
  parse after a turn's are counted by the turns kept after it, and
  a turn that fewer than the window's length came after is in the window.
- `OwnLine`, `OpenOnlyWhileAppending` and `TogetherSpoiled`: a record that met
  no other's and no one's remains is two adjacent pieces that begin a line, so it parses (`KeptParses`).
- `GoneHadEnded`: what a listing did not find running had ended by then, and so had its
  append. This is what the order of append and unregistering is for.

What is only model-checked, and why:

- Liveness (`TurnEnds`, `TurnSeenToItsEnd`, `EveryRequestSettles`, `TaskEnds`)
  and anything about ENABLED: beyond the prover.
- `CallsAreCallable` rests on `FoldLeft`, of which the provers know nothing, for
  both the machine that reads the output and the reader it is compared with.

## Where the code and its documentation disagree

See the last seven runs above; each quotes the line it refutes in
`PROJECT.json`.

## Plan

In order of what matters most to a user of the system:

1. `Terminals`: the lock, the pty's two buffers and the reader thread.
2. `Turn`: PlanGraph and TurnMemory composed, so that cut-off, memory and
   ingest meet.
3. `repo_resources`: the lookup, the opening of the store and the insertion as
   three steps of connections that race.

## Not modelled

Prompts, dialects, digests and telemetry are text. The sandbox's argument list,
path confinement and process spawning are I/O. hipfire, HelixDB, docling, git, cargo and the
kernel are external and modelled by what the code relies on. Terminals are
planned. Of the web front end the list of approvals and the client's sockets are
modelled; its rendering is not. Benchmarks and round-trip tools are no part of the
running system. The Rust backend of the projection takes its spans from a parser.
