# A verification development of claude-cli

TLA+ models of claude-cli: how a query runs turn by turn, how a turn is
retried and its reply reaches the screen, what the conversation sends to the
API, how the terminal and the bus share one loop, how a conversation reaches
its file and the stores behind it, what the tools do with their calls, and how
the process starts, follows its configuration and ends. TLC checks the models
on small instances, and TLAPS proves the central invariants for every value of
the constants.

All paths below are relative to the repository. `CLI` is
`apps/claude-sdk-cli/src`, `SDK` is `packages/claude-sdk/src/private`, `TOOLS`
is `packages/claude-sdk-tools/src`.

## 1. The system and its parts

claude-cli is one Node process. JavaScript runs to completion between awaits,
so there are no data races; the difficulty lies in what may happen *at* the
awaits: a key, a message from the bus, a save that lands, a timer, a chunk of
the API's stream, or the death of the process.

    keyboard ---> EditorHandler, CancelHandler, commands --+
                                                           |  Application loop
    bus (NATS) -> ConvServicer -> WireSayInbox ------------+-> TurnCoordinator
                       |                                         | runAgent
                       +-> ConsumerMessageRouter --cancel--------+
                                                                 v
      QueryRunner <-> ApprovalCoordinator   (SDK, one query, many turns)
        | TurnRunner (one turn: heal, stamp, cut a request, retry)
        |   | Conversation, claudeMdReminders
        |   +-> API stream -> StreamProcessor
        +-> ToolRegistry -> tools
        +-> ControlChannel -> AgentMessageHandler -> display, approvals,
                                background saves -> ConversationSession -> file
                                                 -> ConvChangePublisher -> bus

| Part | State it keeps | Operations | What makes it hard | What makes it correct |
|---|---|---|---|---|
| Turn loop and tool dispatch (`SDK/QueryRunner.ts`, `SDK/ApprovalCoordinator.ts`) | turn loop locals, the batch, pending approvals, cancel flags, the batch's controller | `run`, `#runTools`, `handle`, `request`, `reset` | approvals, runs and cancels in any order; the first cancel goes to the tools, the second to the query; empty replies are rolled back and retried | the history stays one the API accepts; a cancel releases everything; a run is reported |
| Conversation (`SDK/Conversation.ts`, `SDK/claudeMdReminders.ts`, `TurnRunner`'s heal and stamp) | the stored messages | `push`, `removeLast`, `healDanglingToolUse`, `cloneForRequest`, reminders, the clock stamp | merges, heals, stamps and compaction act on the same tip in all orders | every request is accepted, nothing typed is lost, the cached prefix stays valid |
| Retry loop (`SDK/TurnRunner.ts`, `backoff.ts`, `http/errors.ts`) | three budgets, the first time the account limit was hit | attempt, classify, sleep, abort | three kinds of failure alternate; a cancel races a timer | budgets do not starve each other; every turn settles |
| Turn coordination (`CLI/setup/Application.ts`, `TurnCoordinator.ts`, `CLI/runAgent.ts`, `EditorHandler`, `CancelHandler`, `ConsumerMessageRouter`) | the editor promise, the abort controller, `phase` | next input, run turn, submit, ESC | the keyboard and the bus race for one input; a turn may throw anywhere | one turn at a time, no accepted say is lost, every cancel gives the loop back |
| Servicer (`CLI/conv/ConvServicer.ts`, `WireSayInbox.ts`) | `#busy`, one pending say | `say`, `cancel`, `setBusy` | what was true when a request was checked may not be true when it acts | a say is accepted only while idle; a cancel hits what it names |
| Moves (`CLI/setup/ConversationSwitcher.ts`, `CommandIntentExecutor.ts`) | `conversationMoving` | `/new`, switch, attach | guards read a phase that changes later | a turn's output stays in its conversation |
| Persistence (`CLI/model/ConversationSession.ts`, `AgentMessageHandler`) | id, the file, saves in flight | save, load, resume, create | overlapping whole-file saves; death between two steps | no rows in another conversation's file, nothing saved is lost |
| Change publication (`CLI/conv/ConvChangePublisher.ts`, `SdkEventBridge.ts`) | count watermark, pending close, last closed query | `flush`, `close` | flushes run behind saves and read what is in memory by then | what is committed is published, once |
| Approval display (`CLI/model/ToolApprovalState.ts`, `approval/ApprovalHolder.ts`, `model/ApprovalNotifier.ts`) | pending tools, selection, resolvers, settled ids, one timer | add, remove, request, resolve, raise, settle | a key and a bus answer race for each ask of a batch | one answer per ask, no ask waits for ever |
| Control channel (`SDK/ControlChannel.ts`) | one queue and pump per subscriber, drain waiters | `send`, `subscribe`, `drain`, `close` | handlers are async, and may fail or send | in order, once, and drained |
| Turn clock (`CLI/model/TurnClock.ts`) | time edges | start and stop of user, request, tools | edges overlap or come twice | time is charged once, to who spent it |
| Stream and transcript (`SDK/http/sse.ts`, `StreamProcessor.ts`, `CLI/controller/AgentMessageHandler.ts`, `CLI/model/ConversationState.ts`, `CLI/replayHistory.ts`) | partial frames and blocks, usage, blocks and tools on the screen | one per frame and per message | chunks cut anywhere, attempts repeated, asks and results in any order | what was said is shown, counted once, and shown again by a replay |
| Request building and offer (`SDK/RequestBuilder.ts`, `CLI/setup/*Provider.ts`, `CLI/gitDelta.ts`) | what the model was told and offered | build, gate, snapshot, scan | configuration, skills and the worktree change between the awaits | four cache breakpoints at most; a call runs under the rules it was offered by; no change is left untold |
| Startup, configuration, shutdown (`CLI/setup/Application.ts`, `ShutdownSequence.ts`, `packages/claude-core/src/Config`) | what is open, bound and announced; the merged files and their watches | boot, move, reload, signal, drain | a signal at any await; files changing while they are read | all that was opened is given back; what is held is what the files say |
| Model catalog (`SDK/ModelCatalog.ts`) | cache, flight | list | concurrent callers, failures | one fetch, kept once it came |
| Rules and permissions (`TOOLS/Exec`, `CLI/permissions.ts`, `CLI/workspace/Workspace.ts`) | matrix, rules, scratchpad root | judge, reload, move | links, moves and reloads between check and use | nothing runs unasked that is not covered |
| Tools (`TOOLS`, `packages/exec-core`) | the type server and its pending map, Azure sessions, running pipelines, edits | per call | processes that die, answer late or hang; shared logins | every caller is answered, by the right answer; edits mean the file as it was |
| Audit and costs (`CLI/AuditWriter.ts`, `CLI/AuditStats.ts`, `scripts/migrateAudit.ts`) | a JSON-lines file, running totals | append, derive, summarise, migrate | a death tears a line; old files lack ids | every reader tells the same story |
| History store and memory (`CLI/persistence`, `TOOLS/History`) | SQLite rows, signatures, a lease and a watermark | insert, sweep, migrate, search | several processes and builds share the file | a message stays findable, a schema is moved once |
| Editor, command mode, lists, scroll (`CLI/model`, `CLI/controller`, `packages/claude-core/src/input.ts`) | lines and caret, modes, attachments, selection, offsets | one per key | bytes cut anywhere, graphemes, rows that reorder under the selection | editing is editing one text; the selection stays on its row |
| View (`CLI/app/ViewHost.ts`, `CLI/view/TerminalRenderer.ts`) | a pending paint, a size | change, tick, resize | changes during a resize | the last change is painted, at the right size |
| Credentials, other MCP servers, wiring, layout | | | | |

## 2. What is modelled

Every module but the `MC*` ones is a specification of its own, with its `Init`,
`Next` and properties.

| Module | Models |
|---|---|
| `History` | messages and their healing, as operators: `Push`, `Heal`, `RequestOK` |
| `MessageLog` | abstract: a log that is only extended at its tip and acceptable whenever a request is in flight. `QueryRunner` and `Conversation` implement it |
| `QueryRunner` | the turn loop, the dispatch of a batch, the coordinator, over `History` |
| `Conversation` | the same history block by block: merging, healing, stamps, reminders, compaction, the cut request |
| `TurnCoordinator` | the main loop, the keyboard and the bus, cancels, moves, closes |
| `SessionPersistence` | saves, loads, moves, restarts, the flush watermark |
| `TurnRetry`, `EventStream`, `Transcript`, `ControlChannel`, `TurnClock` | one reply: its retries, its frames, its assembly and display, the channel between, the time it took |
| `Approvals`, `Permissions`, `CommandRun`, `TypeServer`, `AzSessions`, `FileEdit` | one tool call: asked, permitted, judged, run |
| `Audit`, `MigrateAudit`, `HistoryIndex`, `HistoryTables`, `Stores` | what outlives the process |
| `FlatText` | abstract: a text with a caret, a key touching one side of it. `Editor` implements it |
| `Editor`, `KeyInput`, `CommandMode`, `ConversationList`, `OutlineView` | the keyboard and the views |
| `Lifecycle`, `ConfigFiles`, `ConfigReload`, `ViewPaint`, `RequestBuilder` | the process around its turns |
| `HistoryProofs` | lemmas about the operators of `History` |
| `QueryRunnerProofs`, `ConversationProofs`, `TurnCoordinatorProofs`, `SessionPersistenceProofs` | theorems of the module named |
| `MCReplyProofs`, `MCProcessProofs`, `MCRecordsProofs` | theorems of the components put together in the module named: of `MCReply` the asks, the channel, the retries and the clock; of `MCProcess` all eight; of `MCRecords` the sweep, the schema and the memories |
| `MCReply`, `MCTools`, `MCRecords`, `MCTerminal`, `MCProcess` | instances for TLC |

An `MC` module runs several components: it instantiates each over variables of
its own, and `subject`, chosen at the start, says whose behaviour this is; the
others stand still where they began. Components put together this way share no
variable, so no behaviour of any of them is lost by not interleaving them, and
each has its own fairness. Where components do interact the interaction is
inside one module: keyboard, bus, loop and query in `TurnCoordinator`; saves,
moves and the publisher in `SessionPersistence`; keys, bus, notifier and query
in `Approvals`; stream, channel and display in `Transcript`; several processes
in `HistoryIndex` and `Stores`.

Definitions named with a suffix and commented *Variant* (for example
`DispatchedIgnoringCancel`) are mistakes one could make in the code; each one
breaks the property it stands for. They are part of no specification.

### QueryRunner

An action is the code between two awaits. `phase` says where `run()` is
suspended: in a turn (`streaming`), in a batch that waits for approvals or
runs (`tools`), in the `finally` behind it (`closing`), or not at all (`idle`).

| TLA+ | Code |
|---|---|
| `hist` | `Conversation.#items`, each message as text or not, tool_use ids, result ids, and which of those were synthesised by the heal |
| `tool` | where each tool_use of the batch is: pending in the coordinator's map, answered but not yet seen by the dispatch loop, running, done |
| `registered`, `toolCancelled`, `cancelled`, `signal` | `#toolController != null`, `#toolCancelled`, `#cancelled`, `toolController.signal.aborted` |
| `Start` | `run`: `reset`, push of the opening message (or none: a resend), first turn |
| `TurnDone`, `TurnEmptyToolUse`, `TurnToolUse`, `TurnFails` | the four ends of a turn: an answer, a tool_use stop without tools (rolled back and retried twice), a batch, a throw |
| `React`, `ToolSettles`, `BatchSettles`, `Deliver` | the dispatch loop of `#runTools` and what follows it |
| `Respond`, `CancelTool`, `CancelQuery` | `ApprovalCoordinator.handle` |

`Dispatched` gives the batch as the first synchronous part of `#runTools`
leaves it: what cannot be resolved is answered, what can is requested or
started, and nothing is requested once the query is cancelled.

### Conversation

One query step is one action. A message is a sequence of blocks of a few
kinds; what the user typed has a number, so that it can be found again behind
every merge, and any other text has no content beyond its kind. The answers of
one batch are put in some fixed order, on which nothing depends. `Open` frames
and pushes the opening message, `Send` is what `TurnRunner` does before the first
byte leaves (heal, stamp, trim to the last compaction, reminders), `Reply`
and `Deliver` push what comes back, `Reload` is a restart. `KeepsLog` says
that seen message by message this is a `MessageLog`, the same abstraction
that `QueryRunner` implements: the two models of the conversation agree.

### TurnRetry

Milliseconds, with the constants of `backoff.ts`. Time is what attempts and
sleeps take; the clock is compared only with the account budget and stops
there. `seen` counts errors for the properties and saturates.

### TurnCoordinator

`at` is the await the main loop is suspended at, from boot to the save behind
a turn. The two guards that are easily confused are both there: `busy`
(`ConvServicer.#busy`, from `TurnCoordinator`) and `phase`
(`PrimaryViewState.phase`, set to `streaming` only inside `runAgent`).
`resolve` has a value for the promise of a wait that the bus has already won.
`moving` is a switch that loads, and its settling microtask. A query's turns
are shrunk to the rows they push.

### SessionPersistence

A save is a snapshot taken at once and written to a temporary file that is
renamed at any later time: `saves` holds those in flight, `Lands` is the
rename, `Settles` the continuation behind it (the flush, or the loop, or the
switch), `SaveFails` a rejection at either. A row is a message with its
identity; `home` is the conversation it was pushed in. `Load` replaces the
history and heals it, in a move and in a restart alike.

### Approvals

What `QueryRunner` has as one step, `Respond`, seen from the terminal. `ask` is
where each call of `#toolApprovalRequest` is; `answer` is what won its race;
`pendingTools`, `selectedTool` and `resolvers` are `ToolApprovalState`,
`served` the three maps of `ApprovalHolder`, `timers` and `timer` what
`ApprovalNotifier` started and what it still knows of. A handler that has its
answer goes on in a microtask, so no key, message or timer comes between;
`Between` lets through only what arrives in the same read or packet. A tool
that the permissions decide passes through `Decide` and is never seen.
Whatever the query does between two batches is `QueryRunner`'s subject; here it
is running, cancelled or over.

### One reply

- `EventStream`: `streamMessages` and `parseSse`. A frame arrives cut anywhere,
  in either line ending, between pings and comments; the connection may end
  early, the request be aborted or time out. What is yielded is a prefix of
  what was sent, and the error is the one the retry loop expects.
- `Transcript`: the frames' content once more, from `StreamProcessor` and its
  accumulator over the handler to the blocks, tools and totals on the screen,
  with retried attempts, asks, answers, cancels and notices in between.
  `ListenersHearTheReply` compares what was said with what was assembled,
  `TranscriptSound` what is drawn with what was said. `ReplaySpec`, a second
  specification in the module, is `replayHistory`: a stored conversation made
  blocks again.
- `ControlChannel`: per subscriber a record of its queue, whether its pump runs,
  what is being handled and what was. A handler may send from its synchronous
  part and may fail; `drain` and `close` come at any time.
- `TurnClock`: `Start` and `Stop` as the three layers call them, including the
  wait the bus wins, whose bracket nobody closes.

### One tool call

- `Permissions`: `getPermission` over the matrix and the scratchpad. Paths are
  resolved through links, and a move may come between the resolution of a
  scratchpad and its use. The module also has the rules of Exec: matching, and
  the gate that keeps the last valid section over edits of the files
  (`InitRules`, `NextRules`).
- `CommandRun`: `evaluate`, `runPipeline` and `Executor` of ExecV3, with
  processes that write for ever, stop reading, are missing or ignore a signal.
  `TreeSpec` is what the two older engines make of the exits.
- `TypeServer`: the server of a block and its client, to the parser's buffer:
  late answers, deaths, restarts, and a length in bytes against a text in
  characters.
- `AzSessions`: shared and background logins, expiry, throwaway directories,
  the exit. A login fails in two ways, as in the code: `az` answers a code or is
  cancelled (`Fails`, then `Removes`, `Failed`), and the entry goes; or `#doLogin`
  throws (`Throws`), for an account that is not configured, a file or a
  certificate that cannot be had, or a directory that cannot be removed: who waits
  gets the error, and entry, refresh mark and directory stay as they are. The
  identity's type is fixed, though the code asks the configuration each time; a
  `spawn` that throws at once, which Node does only for arguments that are not
  valid, is left out.
- `FileEdit`: line and text edits against a reference applied to the file as it
  was, and the diff.

### What outlives the process

- `Audit`: the writer with deaths between two bytes, and the readers of the same
  file, each compared with what was said; the prices of replies against the
  status line's running totals.
- `MigrateAudit`: the backfill step by step, against a CLI that appends and a
  death at any await.
- `HistoryIndex`: insert and sweep by several processes under one lease, with
  passes that throw or die (`Init`, `Next`), and searches and windows of local
  time (`InitReads`, `NextReads`). The lease is asked for once, when a pass
  begins, and runs out whether or not its owner is done; `overlaps` counts the
  passes that began while another was still under way. `HistoryTables` holds its
  tables (signatures, bands, calendar) as constants of an instance.
- `Stores`: builds of different versions opening one store (`InitSchema`,
  `NextSchema`), the memories and the session log (`Init`, `Next`).

### The terminal

`Editor` keeps lines of code units and moves by grapheme; its refinement
mapping to `FlatText` is the text before and behind the caret. `KeyInput` cuts
bytes into chunks. `CommandMode`, `ConversationList` and `OutlineView` are the
key handlers with the states they drive and the reads that land late.

### The process

`Lifecycle` goes from the boot through moves of conversation and directory to
the one exit its four triggers share. `ConfigFiles` merges and validates,
`ConfigReload` watches and tells. `RequestBuilder` has the body (`Init`,
`Next`), the tools and calls it promises the model (`InitOffer`, `NextOffer`),
the changes it tells at a turn's start (`InitDeltas`, `NextDeltas`) and the
models there are, one fetch for many callers (`InitCatalog`, `NextCatalog`).
`ViewPaint` is when a change is painted.

## 3. Runs

| Run | Checks | Bounds, and why they are enough |
|---|---|---|
| `turn_loop` | `QueryRunner`: `RequestsWellFormed`, the cancel contract (`CancelDrainsApprovals`, `SecondCancelEscalates`, `NoRequestAfterCancel`), `RunsAreReported`, `CancelEndsQuery` under fairness, and that it implements `MessageLog` | two ids (one pending while the other runs; the proofs cover any number), both approval modes, the real retry count, six messages: a tool round, a cancelled round, a resend. Every handler returns only on its abort signal, the worst case for a cancel. 113,676 states |
| `conversation_blocks` | `Conversation`: `ConversationSound` (types, `RequestAccepted`, `ResultsLead`, `StampsInPlace`), `TypedTextKept`, `PrefixIsStable`, refinement of `MessageLog` | two ids, four messages, three opening messages, compaction with a pause: a crash in a batch, a merge and a compaction fit together. 180,181 states |
| `one_turn_at_a_time` | `BusyWhileTaken`, `SaysNeverOverwritten`, `TurnsStartUncancelled`, `AcceptedSayRuns`, `CancelReleases` | three queries (one running, one accepted, one refused), four rows, two conversations. 226,802 states |
| `overlapping_saves` | `RowsSound` (types, `OwnRowsOnly`), `PublishedAtHome`, `TipAnswered`, `LoopComesBack` | two conversations, three rows (a round of tools), two saves in flight, one crash. 589,992 states |
| `reply` | `ReplySound`: `WireSound` of `EventStream`, `ListenersHearTheReply`, `TranscriptSound` and `ReplayIsInOrder` of `Transcript`. `Delivered` of `ControlChannel`. `TimesAreTrue` of `TurnClock`. `RetriesBounded` (`BudgetsSeparate`, `LimitHitsBounded`) and `NoRequestAfterAbort` of `TurnRetry`. `AsksSound` of `Approvals`: types, `OneSetOfAsks`, `ApprovedByName`. `WaitsEnd`: `DrainsResolve`, `TurnSettles`, `CancelClosesAsks` | two frames of five kinds cut at every place; two turns of up to three blocks; two subscribers, three messages, two drains; the retry constants of the code with an error on each side of every comparison; two asks; stored conversations of three messages. 241,691 states |
| `tools` | `CommandsSound`: `PipelineSound`, `TreesSound`. `CallsStayWithin`: `ConfigSound` with `MergesByPath`, `FileEditSound`, `RulesSound`, `PermissionsSound`. `NobodyWaits`: `EditsLand`, `ProducersFollow` | five lists of up to four commands, every forest of four; two edits of three configuration files, whole, torn, absent, null or invalid; two edits of six texts; six configured sections over every command of five programs and seven argument lists; two scratchpads with two entries, one move. 435,021 states |
| `records` | `RecordsAgree`: the audit's readers, `NoAnswerLost`, `PairsBelong`, `ContinuationsShareTheQuery`, `Converges`, `OldFilesKept` of the backfill, `ListsAgree` of the session log, `ReadsHold` of searches and windows. `StoresHold`: `UnfoldedIndexed`, `DeletesMatch`, `WordsStayFindable`, `CanonicalsSettled` of the sweep, `SchemaSound`, `StoreSound`. `EverythingIsSwept` | two replies behind an empty or an old file; three turns and two backfills; two processes, three messages, one fault, one overlap; two builds, one failure; two memories, three sessions; three rows around the end of a year and a clock change, in a zone whose day is then of 23 hours and in one whose day is of 25. 1,233,135 states |
| `terminal` | `TerminalSound`: `ChunkingIsInvisible`, `CommandModeSound`, `ListSound`, `FocusAddressesABlock`. `ViewKeepsUp`: `VerticalMovesAdvance`, `SelectionFollowsItsRow`, `RowsFill`, `WindowHolds`. `TextIsFlat`: `Editor` implements `FlatText` | texts of three units over five kinds of code unit and two widths, a grapheme window of two so that clusters overrun it; two events; two clipboard reads; two conversations, one change, two visits; three blocks of two tools; windows around every height. 227,621 states |
| `process` | `ProcessSound`: `LifecycleSound`, `DeltasSound`, `CatalogSound`, `PaintsSound`. `CallsSound`: `OfferSound`, `TypeServerSound`, `AzSound`. `RequestsSound`: `RequestSound`. `ProcessSettles`: `CleanupEnds`, `ChangesAreSeen`, `ToolsSettle`, `CallersAnswered` | two conversations and directories; three tools with gates and an account, three calls, one reload; three changes of a worktree; three askers; three resizes; requests with up to three reminders and three things sent once; two calls in two blocks with one death or wide character; two callers and three logins, with tokens that live as long as is assumed or half as long again; every login may throw at any step that can. 632,895 states |
| `stranded_output`, `overtaken_save`, `cancel_hangs_pipe` | one statement each that the sources make and the code does not keep, see section 5 | the smallest instance that shows it |

A property that names several stands for their conjunction; each is stated and
commented in the module it is about. No run uses symmetry: most check a
liveness property, which symmetry does not allow, and the others need none.
`CHECK_DEADLOCK FALSE` stands where the bounds end every behaviour, or where a
settled turn, an ended process or a finished edit is the end.

### Fairness

All of it is weak: no action depends on being enabled again and again.

- `QueryRunner.FairSpec`: the API ends each turn, the dispatch loop takes what
  has settled, and a handler settles, at the latest when its signal is
  aborted. Nobody need answer an approval or cancel. `CancelEndsQuery`, and
  `CancelReleases` of `TurnCoordinator`, are thus of a program whose tools settle
  once aborted. `cancel_hangs_pipe` (section 5) shows one that need not: a query
  that runs such a list ends only when the list does.
- `TurnRetry.FairSpec`: the transport settles every request (it has timeouts)
  and timers fire. No request need succeed.
- `TurnCoordinator.FairSpec`: the program's own steps are taken, a load ends
  and a microtask runs. Nobody need type, say or cancel.
- `SessionPersistence.FairSpec`: the loop goes on and the file system gets
  around to each kind of save, by landing or by failing.
- `Approvals.FairSpec`: microtasks run, and a query whose batch waits for
  nobody ends. Nobody need answer or cancel.
- `ControlChannel`: a handler settles. `AgentMessageHandler` awaits nothing
  that waits for the channel.
- `ConversationList`: file reads settle.
- `CommandRun`: the engine, each stage's continuation and each process take
  their steps, and a killed process dies. A process that ignores its pipe need
  not do anything about it.
- `TypeServer`: a request's timer fires; the server need never answer.
- `AzSessions`: a login takes its next step, which may be to fail or to throw.
  Nobody need ask.
- `HistoryIndex`: a lease runs out, and a scheduled pass takes its steps
  unless it throws or its process dies, which is bounded. How often passes
  overlap is bounded as well.
- `Lifecycle`: the drain's timer fires; the drain itself may hang.
- `ConfigReload`: the debounce fires. `ViewPaint`: immediates, the clock and the
  resize timer fire.

## 4. Proofs

TLAPS checks these for every set of ids and all bounds. The assumptions are on
the constants: `ParametersAssumption` (`QueryRunner`, `Conversation`),
`BoundsAssumption` and `NoneAssumption` (`TurnCoordinator`),
`ConstantsAssumption` (`SessionPersistence`), and six that the `MC` modules
state of their instances. `MCReply` has `RetryConstants`, `ChannelConstants` and
`AskConstants`: the budgets are lengths of time with a longest wait that bounds
the backoff, there is a first subscriber, and "no answer" is not an answer.
`MCProcess` has `ServerConstants` (a tool of the type server makes a request at
least), `LoginConstants` (what is assumed of a token that does not tell is the
least one lives, a "conservative default" at `AzSessionCache.ts:21`, and more than the quarter in which az is
asked) and `RequestConstants` (options and messages come unmarked, in sequences;
"no" mark is not a lifetime; the compact beta is not among those that can be
configured, as in the enum `AnthropicBeta`). TLC evaluates each of them in a run.
Only the theorems about `Conversation` have a hypothesis besides, `OwnSettings`,
explained there.

**The turn loop** (`QueryRunnerProofs`). No property of the
cancel contract or of the history is inductive on its own. `IndInv` is the
conjunction of `TypeOK` and

- `HistoryInv`: the history is kept so that healing its tip always gives an
  acceptable request (`WellKept`, `TipFillable`), it is acceptable while a
  request is in flight, and in a batch its tip asks for exactly the batch;
- `BatchInv`: a tool is somewhere only in a batch, what runs or is done is
  what was started, and a batch that closes has nothing open;
- `CoordinatorInv`: the three statements of the cancel contract, and the
  controller is registered exactly when a tool of the batch was started;
- `ReportInv`: until the next round, what was run is among the results that
  were delivered.

`HistoryProofs` holds the lemmas about `Push`, `Heal` and `Rollback` on which
every action leans: pushing on a kept history keeps it, healing makes it
acceptable, rolling back the reply of an acceptable history leaves an
acceptable one. `QueryRunnerProofs` goes action by action. From `IndInv` follow
the invariants the runs check, the action property `PastIsKept`, and
`NoRequestAfterCancel` (`NothingSentAfterCancel`): of the steps of a cancelled
query only one could open a request, the delivery of a batch, and its guard
excludes it. `RunnerImplementsLog` says that each step is a step of `MessageLog`
or a stutter.

**The conversation** (`ConversationProofs`). Seen as messages, merging is
`History`'s `Push`, healing its heal, and stamping changes nothing; with these
three lemmas `HistoryProofs` serves both implementations of `MessageLog`, and
pairing and alternation are proved once. What is left is about blocks. `IndInv`
is `TypeOK` and

- `Kept(items)`: every message has its answers first and its stamp in place, a
  reply with a summary is nothing but the summary, the standing reminders lead
  the history, and seen as messages it is well kept;
- `StageOK`: a request, once there is one, is acceptable as it is; while it is in
  flight it ends in a user's message; the history's tip is a batch while tools
  run;
- `RequestKept`: until a compaction, the latest request is the history as it is,
  or as it was before messages were added. This is what makes the prefix
  property inductive.

`ConversationAlwaysSound`, `PrefixStaysStable` and `ConversationImplementsLog`
follow action by action. `TypedTextAlwaysKept` needs `TypedInv`, which adds
that the numbered texts are in the user's messages once each. Where one would use
induction over the history (the last summary, the first block of content, the
first user message) the proofs take the least or the greatest index of a set.

`OwnSettings` restricts the inputs to arrays and resumes, and compaction to
replies that stop at their summary. The program's own caller does the first
(`CLI/runAgent.ts` passes blocks or nothing), the default of
`pauseAfterCompaction` the second (`CLI/cli-config/schema.ts`). It cannot be
dropped: section 5 has a counterexample to `TypedTextKept` for a string, and to
`ResultsLead` for a compaction without a pause. A compaction whose summary never
came is left out with them, so nothing is proved of it; that it is sent as empty
text is in section 5 too (`NoEmptyText`).

**The main loop** (`TurnCoordinatorProofs`). `IndInv` there has `LoopOK`
(which of `resolve`, `inbox` and `input` may be set at each await), `CancelOK`
(the controller and the flag), `ConvOK` (rows and moves), `CloseOK`, `Room`
(the bounds) and `BusyWhileTaken`. It gives types, `BusyIsExact` - the
servicer is busy exactly while the loop is not waiting for input or an
accepted say is waiting - and `OneSaySuffices`, that the single slot of the
inbox is never overwritten. `NoTurnStartsCancelled` needs `CancelOK`: there is
a controller exactly while a turn has the loop, so a cancel has nothing to abort
before the turn it was meant for and nothing left of it behind.

**The saves** (`SessionPersistenceProofs`). That a file holds rows of its own
conversation only is not inductive: a row reaches a file through the content of
a save that may land after the conversation was left, and the bus through what is
in memory when some save settles. `IndInv` therefore says whose rows are in
memory (`MemoryOK`), in the content of every save in flight (`SavesOK`), in the
files (`DiskOK`) and among what was told (`BusOK`); that one save at most has
the turn waiting for it, and one a move (`SavesOK`, `WaitersOK`), so that a continuation
never runs for the wrong one; and that memory ends in an unanswered batch only
while its tools run, which loads keep by healing. From it follow `RowsSound`,
`PublishedAtHome` and `TipAnswered`, for any number of conversations, rows,
saves and deaths.

**The parts of a run** (`MCReplyProofs`, `MCProcessProofs`, `MCRecordsProofs`).
The `MC` modules put components over disjoint variables together. Each proof shows
that a step of the composition is a step of the component or leaves it alone, and
the theorems are for the specification the run checks. Each of the
paragraphs below is one component.

**The asks** (`MCReplyProofs`, `AsksAlwaysSound`). That the screen, the bus and the keys have
the same asks is so between handlers only, and at each of these moments for a
reason of its own: a key empties the resolver before it answers, the bus answers
and leaves the resolver, the end of a query empties the screen before the handlers
have let go. `AskInv` has each of them: `ListsOK` (what is served is what is
racing, what is shown is among it, the selection is inside the list), `AnswersOK`
(an ask without a resolver has its answer; one with a resolver can only have been
answered by the bus; a yes was given by somebody), `RequestsOK` (what the
coordinator waits for, and that a query is over only when its asks are) and
`OutcomesOK`. `AsksAgree` and `ApprovalsAreGiven` follow for any number of tools.
The lemmas before it are about lists without repetition: what `append` and
`splice` leave.

**The channel** (`MCReplyProofs`, `RepliesDelivered`). What a subscriber was given and what
it has queued are together what it was sent, so one fact about one pump (`Sent`,
`InOrder`, `Done`) is kept by a push, which adds at the end, and by a turn of the
pump, which moves one message from one part to the other; what a handler sends
itself is one push more. `EverythingIsDelivered` is then for any number of
subscribers, messages and drains: the first subscriber gets everything in the
order sent, the others everything once, and a drain that has resolved left
nothing behind. That the later subscribers get it in order is not claimed: see
section 5, *Replies*.

**The retries** (`MCReplyProofs`). `RetryInv` ties the two counters to the history of errors while
the turn goes on (`AttemptsOK`), and the clock to the hits of the account limit
(`LimitClockOK`): after `n` hits `n` waits of `RETRY_AFTER_CAP_MS` have passed
once the last is over, or the budget has. With it `RetriesBounded` holds for
every setting of the numbers of retries, the delays and the budget;
`AbortedIsSilent` needs no invariant. That a backoff is at most half again the
longest delay is a part of the assumption: the doubling is a recursion, which the
provers cannot evaluate, so the run evaluates it for the values of `backoff.ts`.

**The clock** (`MCReplyProofs`). `ClockInv` says which segment is open in each phase of the turn
(`SegmentsOK`), and that what is booked and what the open segment will be booked
are together what the phases took (`ChargesOK`), for the user an upper bound only,
since a wait that the bus wins is dropped. `TimesAlwaysTrue` is for any length
of time.

**Startup and shutdown, the world, the models, the paints** (`MCProcessProofs`,
`ProcessAlwaysSound`). That a watch is held once, and given back, is kept by
counting (`WatchesCounted`: one open for each that is held until the clean exit,
none after); that a conversation left is one the bus was told of leaving needs
what may be said at each stage of the connection (`WaysAgree`, `LeftUnlessLate`).
`DeltasInv` says that the baseline is the checkout as it is, unless the user
touched it or a turn threw before its snapshot, and that what the trackers count
as told was told, unless a turn had no message to carry it. `CatalogInv`: whoever
waits, waits for the one fetch. `ViewInv`: an immediate is in flight exactly when
a paint is due.

**Calls and what they share** (`MCProcessProofs`, `CallsAlwaysSound`).
`OfferInv` has the batch as the tail of the items, so that a call added opens
nothing but by itself. `ServerInv` is about who waits for what: each pending
request has its tool and each waiting tool its request (`MatchOK`), one process at
most is the block's own (`SpawnedOK`), and what is on its way is whole messages
from the end (`TextOK`), so that an answer is told by its distance from the end of
the text; with characters of one byte the parser cuts where the server did.
`LoginsInv` orders the logins by when they were made: what is in the map is the
newest, a refresh is of an older one that has its session (`RefreshesOK`), its
mark is on the entry as long as it is under way or because it threw (`FlagsOK`),
and a directory is on the disk as long as somebody serves from it
(`DirectoriesOK`). It is needed because none of the hazards is visible in one
login: an older one settles behind a newer, and its directory goes with the entry
it lost. A login that throws is why `FrontsOK` has a third kind of entry beside
those that serve and those that are waited for, and why whoever waits must be
known to wait for one in flight.

**The request** (`MCProcessProofs`, `RequestsAlwaysSound`). The invariant is that the
request is made of the options and the conversation that are there (`BodyInv`);
all else is about `BuildRequestParams`. Marks are a set of points in a copy of the
messages: the moving one and the prefix's (`Points`), two at most, and with the
tools and the prompts four. What is sent once is put in front of or behind a
message by `Placed`, a recursive function over the list: the proofs ask of it only
that each message is its own piece moved by some `n` (`Sent`), which holds of
every prefix of the list, by taking the least one for which it does not.

**The stores** (`MCRecordsProofs`, `StoresAlwaysHold`). Of the sweep two things
hold whatever overlaps, throws or dies: a row that was not folded has all its
words in the index, and a delete takes out what was put in (`SweepInv`). That no
word is lost, and that links lead to earlier rows, holds as long as no two passes
overlapped, and `Calm` says why. One pass runs at a time, from the watermark. A
pass that threw has folded rows which the next will read again: each of those must
fold again in any pass to come (`DueToFold`), or its words, already taken from it,
would be in a row that is no longer its canonical one. Folding is by the union of
rows that share a bucket, so the proof is about what is reached from a row
(`Reached`) in a list in the order of time (`Arranged`): the root is the least row
reached (`FoldsAreDue`), and more rows only add to what folds (`FoldsStayDue`).
`WordsKept` names, for each word taken from a duplicate, the row that has it and
that no pass folds without the duplicate. The schema's `SchemaInv` says that what
an opener has left to do is a run of migrations that begins no later than the next
one due; `MemoryInv`, that the map of ids and the table are each other's inverse.

The theorems a reader should know of are listed under `theorems` in
`PROJECT.json`.

**Model-checked only**: `EventStream` and `Transcript` (`ReplySound`), the
components of the runs `tools` and `terminal`, the audit, the backfill and the
reads of `records` (`RecordsAgree`), and everything about liveness, which the provers
cannot reach. `EventStream`, `Transcript` and the records' readers are written with
selections and folds over sequences, and what a fold leaves for every input is an
induction over data; the trees of `CommandRun`, the merge of `ConfigFiles`, the
splitting of `FileEdit` and the paths of `Permissions` are recursive operators. A
recursive function over `0..n` can be reasoned about, as `Placed` is, where the
question is of one index at a time. `Editor`'s refinement of `FlatText` is
of lines joined and cut again, which is a fold as well.
## 5. What the sources say and the code does not do

Each of these three has a run whose counterexample shows it.

1. `stranded_output` (`OutputStaysHome`): `/new` and a switch are refused
   "while a turn is running" by reading `phase`, which becomes `streaming`
   only when the turn is prepared; a move taken before that, or one still
   loading when a turn starts, takes the turn's output along.
2. `overtaken_save` (`SavedStaysSaved`): saves are not serialised, so an older
   snapshot can be renamed behind a newer one; a death then loses the reply.
3. `cancel_hangs_pipe` (`CancelEndsTheRun`): a stage settles when the bridge it
   writes to is finished. Under an aborted signal nobody reads that bridge and
   nobody destroys it, so a cancelled pipeline may never return, although
   `Executor.ts:32` says a broken sink "cannot hang or fail the await".

The following were met in the same way. Their statements are kept beside the
others in the modules; no run repeats them. Each is seen by giving the
statement to TLC with the instance named, or else with the constants the
component has in its run.

| Statement | Module and instance | What happens |
|---|---|---|
| `ToolCancelHitsARun` | `QueryRunner`, as `turn_loop` with `Hanging = {}` | the batch's controller stays registered until the last approval is answered, so a cancel can be a `tool_cancel` with no tool running (`ApprovalCoordinator.ts:56-60` says a tool was running) |
| `ResultsLead` | `Conversation`, `CompactModes = {"no", "inline"}` | with `pauseAfterCompaction` off the first user message behind a compaction is the tool_result, and the reminders are put in front of it |
| `StandingPresent` | `Conversation`, `ToolId = {t1}`, `CompactEnabled = {FALSE}` | behind a compaction the first user message leads with the clock stamp, itself a `<system-reminder>`; it is taken for the standing reminders, which are not injected |
| `NoEmptyText` | `Conversation`, `CompactModes = {"no", "failed"}` | a compaction whose summary never came is stored as `''`, not as null, and is sent as empty text |
| `TypedTextKept` | `Conversation`, `Inputs = {"array", "string"}` | healing replaces a reply whose content is a string |
| `AnnouncementsKept` | `Conversation`, `Inputs = {"array", "none"}` | a query that resends has no message to frame its reminders on; they are dropped, and counted as announced |
| `RunningIsAddressable` | `TurnCoordinator`, as `stranded_output` | a say that merges into an unanswered message keeps that message's identity; its own id is `not_found` |
| `ClosedGrowsNoMore` | `TurnCoordinator`, as `stranded_output` | a cancel publishes the close at once, the batch still pushes its results under the same query |
| `ClosedOnce` | `TurnCoordinator`, as `one_turn_at_a_time` | a turn that throws leaves its close pending for a later one |
| `SayRunsOnItsPremise` | `TurnCoordinator`, as `stranded_output` | a say accepted at boot runs behind the initial prompt |
| `PublishedIsPersisted` | `SessionPersistence`, one conversation, two rows, no crash | a flush publishes rows pushed since its save captured the content |
| `NothingPublishedTwice` | `SessionPersistence`, one conversation, one crash | the watermark is 0 in every process: loaded rows are published again |
| `CoveredIsPublished` | `SessionPersistence`, as `overlapping_saves` without the crash | the publisher's count outlives the conversation it counted, and after `/new` passes over as many rows |
| `NotifiedWhilePending` | `Approvals`, two ids | one timer field for all asks: an overtaken timer launches the reminder for a settled ask, and an open one's may be cancelled by a sibling |
| `SettledAsDecided` | `Approvals`, two ids | after a cancel the asks stay on the screen until the query ends; a Y is published as the approval of a tool that was rejected |
| `RemovedNeverCommitted` | `SessionPersistence`, one conversation, no crash | the background save captures the corrupt reply before it is rolled back |
| `CancelHitsItsPremise` | `TurnCoordinator`, as `stranded_output` | until the new turn has pushed its message the tip is the last query's, so a cancel that names the finished query aborts the one in preparation |
| `SelectionSticks` | `Approvals`, three ids | when a tool in front of the selected one is settled from the bus, `removeTool` keeps the index, which now names the tool behind; the next Y approves that one |
| `BatchesClose` | `Transcript` | a reply with server tools alone opens a batch and ends on `end_turn`, which closes none |
| `ErrorsLand`, `NoticesStay` | `Transcript` | an error or a notice is put into the active execution block; the result that follows redraws the block without it |
| `ContextIsWhole` | `Transcript`, `Growths = {0, 1}` | an end frame with input growth replaces the context size by the growth |
| `ServerToolsShown` | `Transcript` | a server tool that follows text in its reply is drawn nowhere |
| `SealedToolsSettled` | `Transcript` | a key that answers the ask behind its result brings a sealed tool back to running |
| `PeekBelongs` | `ConversationList` | a visit that rebuilds the list puts the selection elsewhere and keeps the content that was open |
| `FailedIsEvicted` | `AzSessions` | an entry without a session is "still resolving (or already failed and about to be evicted)" (`AzSessionCache.ts:78`), but `#login` has no catch: when `#doLogin` throws, as `getCert` does on a denied keychain item (`Secrets.ts:26-29`), the entry stays with its rejected promise, and every later caller gets that error until the process ends. A refresh that throws leaves `refreshing` set, and no other is tried until the session has expired |
| `CaretOnBoundary` | `Editor` | joining a line to one that starts with a combining mark leaves the caret inside the cluster |

Others are visible in what the models had to do rather than in a statement.

- *Replies.* A nested `send` reaches a later subscriber before the message whose
  handler sent it (`ControlChannel.ts`). A wait the bus wins leaves the user's
  bracket open, and its time is dropped (`TurnClock.ts`). Live frames are
  priced at the configured model, not at the one that answered.
- *Requests.* With `cacheTtl` unset, system prompts and reminders ask for
  different lifetimes (`RequestBuilder.ts:204` against `:170`). A tool that needs
  an account stays offered without one (`ConfigDisabledToolsProvider.ts:14-20`
  against `DurableConfigFactory.ts:147-151`). Changes the user makes during a run
  become part of the baseline and are never told. A scan counts as told even
  when the turn is resumed without a message to carry it.
- *Commands.* A list fails for a failure that `||` recovered inside its left part
  (ExecV2). A rule whose message is `''` matches and refuses nothing
  (`ruleConfig.ts:140`); `programSuffix: ''` matches every command. A
  configuration that cannot be parsed "contributes nothing", and with it its
  rules. Overlapping occurrences of a needle are counted once. Two
  overlapping resolutions of a scratchpad may finish in either order
  (`Workspace.ts:137`). A login's directory that was made and not yet tracked
  survives the exit, against "every config dir ... tracked and swept"
  (`AzSessionCache.ts`); that of a login that threw stays until then. The length of a message is in bytes, the buffer's in
  characters (`TsServerClient.ts:279`).
- *Records.* `AuditStats.derive` throws on a torn line that the summary skips;
  lines without a price count as 0 in the list. A CLI
  that appends between the backfill's last check and its rename loses a line.
- *Sweeps.* "A second CLI whose pass overlaps this one finds the lease held and
  does nothing" (`SqliteHistorySweeper.ts:41-42`): the lease is for 300 seconds
  and is not asked for again before a pass writes, so a pass that is slower goes
  on beside the next one, and sets the watermark back when it ends. With three
  messages, one fault and four such overlaps a row is linked to itself, and
  `#resolveCanonical` does not return from it; and words leave the index with a
  copy while the row they should be in has lost them too, against "nothing the
  copy held goes unsearchable" (`:206-211`). To see it, raise `MaxOverlaps` to 4
  and drop `overlaps = 0 =>` from `CanonicalsSettled` and `WordsStayFindable`;
  without overlaps both are theorems. A pass that throws before it has moved the
  watermark leaves chains of links behind, which is why they are followed.
- *Configuration.* "`null` always deletes" (`config.ts:20`): a null nested in an
  object that is new stays. An edit before `wire()`, or in a `.claude` that did
  not exist when it was watched, goes unseen (`NodeDirectoryWatcher.ts:46`).
  `ConfigChangeCoordinator.ts:61` "Defers", but a change while a turn is saved is
  missed by the status line. Two moves' prompts may arrive in either order
  (`WorkingDirectoryMoveHandler.ts:87`).
- *Process.* The identity watch is set once, at boot
  (`ConversationBootSequence.ts:88-99`). A move that fails after the adoption
  leaves the bus serving the old conversation. A move sets the cache's lifetime
  to an hour whatever is configured (`ConversationSwitcher.ts:146`). A conversation
  may be attached during the drain. A second SIGINT leaves without restoring
  the terminal (`ShutdownSequence.ts:63`). A paint suppressed by a resize is only
  repaired by the next tick of the clock (`TerminalRenderer.ts:62`).

One more race is visible in `CancelEndsQuery`: an approval that was answered
before a query cancel and is taken up behind it starts its tool on a signal
nobody has aborted. The query then ends with the tool, or with the next
cancel.

## 6. What is not modelled, and what is left

Left out for good, because there is no state of this program in it that a later
step depends on:

- the wiring (`setup/container.ts`), which registers and decides nothing;
- the schemas' lists of fields, help texts, and the layout and wording of what is
  drawn (`renderConversation.ts`, status line, formatting of results);
- the NATS client behind `NatsBus` and its reconnects, SQLite itself, the diff
  and date libraries, Node's streams and processes. They are external: modelled
  as what the code relies on, where it does;
- credentials and login (the OAuth exchange, the callback listener, the keychain
  binding): protocols of others, each a chain of single calls;
- the remaining tools (find, read, search, references, GitHub, Azure DevOps) and
  the MCP servers over them, one call each.

Modelled in part: telemetry and deltas on the bus (projections of what
`TurnCoordinator` and `SessionPersistence` have), the status line and identity
file of a move, and of rendering only when it happens.

What would come next:

1. proofs for the permissions and the gate of the rules, and for the backfill:
   their data (paths, trees, files) would first have to be written without
   recursion and folds;
2. a load in two steps (`resume()` adopts the id one microtask after it has
   replaced the history);
3. the content of rows, so that what is merged into a published row can be
   told apart.
