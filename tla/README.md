# Verification of the sandbox agent

TLA+ modules, TLC configurations and TLAPS proofs for the server in `server/packages`, the
program that runs coding agents inside a sandbox and drives them over HTTP; for the TypeScript
client and SDK that talk to it; and for the parts of Foundry, the product built on top, where
several actors change one state. Paths are relative to the repository (under `src/` here); a bare
file name is one of the files named in the inventory.

## 1. The system

A client speaks ACP (JSON-RPC) to `POST /v1/acp/{server_id}` and reads a stream of events from
`GET` of the same path. The server keeps one instance per `server_id`: an agent subprocess with
pipes on both sides. Beside that it manages processes for the client, records and streams a
virtual desktop, and offers an OpenCode-compatible interface, part of which it forwards to a native
OpenCode server it starts itself. A command line tool starts the server as a daemon.

Everything in the server is an async task: an HTTP handler is a future that may be suspended at
every `await`, interleaved with every other task, and **dropped** there when its client hangs up.
That, and the life of subprocesses nobody controls, is where the hard behaviour is.

The TypeScript side is single-threaded: what runs between two `await`s runs alone, and everything
else may happen at the `await`. The SDK keeps one ACP connection per agent and restores sessions
over it. Foundry is a set of actors of an external framework (rivet): an actor has its own database,
serves *actions*, several of which may be suspended at a time, and runs one *workflow loop* that takes
commands from a queue, one after the other. An organization actor knows the tasks, each task actor
its sessions, and a sandbox actor, with a loop of its own, owns the SDK client. The web client
subscribes to actors and keeps a cached snapshot per topic.

| Component | Source | State it keeps | Operations | Talks to | What must be right |
|---|---|---|---|---|---|
| ACP adapter runtime | `acp-http-adapter/src/process.rs` | subprocess, stdin mutex, `pending` map, sequence counter, replay ring, broadcast channel, child mutex | `post`, `subscribe`, `sse_stream`, `inject_notification`, `shutdown`; stdout loop, exit watcher | agent over pipes, SSE clients | an answer reaches its request once, no lost wakeup, whole lines on stdin, the stream in order and without gaps, shutdown kills |
| Adapter router, registry, CLI | `acp-http-adapter/src/{app,registry,lib,main}.rs` | none | HTTP mapping | the runtime | – |
| ACP proxy runtime | `acp_proxy_runtime.rs` | `instances`, one lock per server id, one lock per agent | `post`, `sse`, `delete`, `shutdown_all`, installs | adapter runtime, agent manager | one instance per id, none lost, installs happen once, calls end |
| Process runtime | `process_runtime.rs` | process table (RwLock), status and runtime mutex per process, log buffer and broadcast per process | start, stop, kill, delete, input, list, logs, run once | operating system | ids live and die in order, no process lost, no deadlock, logs are the newest output and arrive |
| OpenCode server manager | `opencode-server-manager/src/lib.rs` | registered server, `ensure_lock`, child slots, restart count | `ensure_server`, `shutdown`, monitor, restart task | native `opencode serve` | one server, watched, restarted |
| Desktop recordings | `desktop_recording.rs` | catalogue, current id, counter | start, stop, list, get, download, delete | process runtime, ffmpeg | an active recording can be stopped, verdicts are final |
| Background daemon commands | `daemon.rs` | pid file, version file, the port | `start`, `stop`, `status`, `ensure_running` | operating system, other commands | one daemon, of the right build, that can be stopped |
| Desktop runtime | `desktop_runtime.rs` | state, Xvfb, openbox, dbus | start, stop, status, input, screenshots | operating system | what is started is stopped, no state that cannot be left |
| Desktop streaming | `desktop_streaming.rs` | active, neko process, cookie | start, stop, proxy | process runtime | active means running |
| HTTP router | `router.rs`, `router/*` | shared state of the above | one handler per route, `shutdown_servers` | everything | shutdown closes what it should |
| OpenCode adapter | `opencode-adapter/src/lib.rs` | sessions, permissions, event log, SQLite | some 90 routes, one translation task per session | proxy runtime, server manager | events in order, one agent session per session, permissions answered |
| Agent manager | `agent-management/src` | files of installed agents | install, probe | network, disk | – |
| Credentials, errors, CLI, telemetry | `agent-credentials`, `error`, `cli.rs`, … | none | pure or one system call | – | – |
| ACP HTTP client | `sdks/acp-http-client/src` | queues, `lastEventId`, dedupe window | write, SSE loop, close | the server | no duplicate, no loss but at the server, agent closed |
| SDK sessions | `sdks/typescript/src/client.ts` | live connections, bound sessions, pending replays and permissions | create, resume, prompt, destroy, dispose | ACP client, persistence driver | events logged under their session, history replayed once, nothing left open, calls end |
| SDK providers, generated code, persistence drivers | `sdks/typescript/src/providers`, `…/generated`, `sdks/persist-*` | – | one call each | – | – |
| Foundry client: subscriptions | `foundry/packages/client/src/subscription` | one entry per topic: connection, snapshot, retry and teardown timers | subscribe, unsubscribe, start, retry, event | actors | a listener gets a current snapshot, connections are disposed |
| Foundry task actor | `…/actors/task/workspace.ts`, `…/workflow`, `…/actors/sandbox` | session rows, owner, model, queue | create, ensure, send, stop, close, change model and owner | sandbox and organization actors | sessions become ready with the chosen model, a prompt's end is seen, the right credentials |
| Foundry organization: tasks | `…/organization/actions/task-mutations.ts`, `tasks.ts`, `workflow.ts` | `taskIndex`, `taskSummaries` | create, apply summary, pull request, look up | task actors | one task per branch, the list shows the tasks as they are |
| Rest of Foundry, inspector, website, examples | `foundry`, `frontend`, … | – | – | – | – |

`opencode_compat.rs` and `universal_events.rs` exist but are not in the module list of
`sandbox-agent/src/lib.rs`; they are never compiled.

## 2. What is modelled, and how it corresponds to the code

In the server, one step of a model is the code a task executes between two points where another task can come
in between: awaits, and the release or acquisition of a lock held across an await. A critical
section without an await inside is part of one step. A handler is a *call* with a program counter
`at[h]`; `Impatient` names the calls whose client may hang up, and `HangUp`, `Cancel` or
`AbandonInject` drops the future there with its lock guards, but not what was handed to the
operating system or to a blocking thread.

| Module | Code | State and actions |
|---|---|---|
| `EventStream` | publishing and subscribing in `process.rs` | `sequence`, `ring`, `sender` are the atomic counter, the `VecDeque` and the broadcast channel. `publishing[p]` is where a publishing task is in the three steps `inject_notification`, the stdout loop and the exit watcher share: `FetchAdd`, `PushRing`, `Broadcast`. `conn[c]` is an SSE connection: `SnapshotRing`, `OpenReceiver`, `DeliverReplay`, `DeliverLive`, `SkipLagged`; a client reconnects with the last id it received |
| `AdapterRuntime` | the rest of `process.rs` | extends `EventStream` with requests, `pending`, oneshot channels, the stdin line, both pipes, the agent, the exit watcher with the child mutex in hand, and `shutdown` |
| `RequestReply` | abstract | each request is open, then ends once: with an answer of its own id, or without |
| `AcpProxy` | `acp_proxy_runtime.rs`, install handler of `router.rs` | look up, lock, look up again, install (lock, look again, run), start, insert; delete; `shutdown_all` |
| `Registry` | abstract | a map with atomic create, get and remove |
| `ProcessRuntime` | table, status and signals of `process_runtime.rs` | tokio's fair RwLock of the table (a waiting writer keeps new readers out), the runtime mutex held over a blocked write, `watch_exit` in two parts, delete that acts on a status read earlier |
| `ProcessLife` | abstract | an id is running, then exited, then deleted |
| `OpenCodeServer` | `opencode-server-manager/src/lib.rs` | `ensure_lock`, check, spawn, health, register; monitor polls; exit handling by instance id; restart after a sleep; shutdown |
| `AcpHttpClient` | `sdks/acp-http-client/src/index.ts` | the transport with its inbox, SSE loop, `lastEventId` and remembered responses. Its server is one instance of `server/packages`: the events are `EventStream` itself (`INSTANCE`), with the stdout loop, the exit watcher and slash commands as publishers; of the proxy and the adapter it has the bootstrap, the timeout of a POST and the DELETE, which both wait for the agent's exit on the child mutex, and the instance that goes from the map before that |
| `SdkSessions` | session and connection code of `client.ts` | each call has a place `call[c].pc` per await; records, live connections, connections being made, bindings, queued replays, pending permissions, the wire to the agent; a connection whose `initialize` is refused is `"orphaned"`, since nobody has it to close |
| `TopicSubscription` | `subscription/remote-manager.ts`, `topics.ts` | one cache entry: listeners, `started`, `conn`, timers (each retry timer that was ever set can fire), starts with their own connections, events with versions |
| `FoundryTask` | session commands of the task actor and the sandbox actor's queue | the task's command queue and loop, a step that is given up while its handler goes on, `changeModel` as an action beside the loop, the sandbox's commands that are carried out late, fail or time out; session rows with status, model, thinking; the owner row (a user, or a GitHub member set by hand, who is no user's id), the name git in the sandbox bears (`author`), and the flag that the repository is prepared, which is one for all tasks of the process and gates the swap of the owner |
| `FoundryTaskIndex` | `createTask`, `refreshTaskSummaryForBranch`, `applyTaskSummaryUpdate`, `getCurrentRecord` | entries, summaries, task records with versions, broadcasts that come after the row was stored and may fail, lookups whose failure is taken for absence, the organization's loop, calls of `createTask` that interleave at their awaits, virtual tasks |

In the TypeScript modules a step is what runs from one `await` to the next; a database statement, an
actor call or an HTTP request takes effect and answers in one step unless the order of the two matters.
Counters named `Max…` bound what the environment does (failures, changes, requests). Some variables are
auxiliary, as their comments say: what was `contested`, `reclaimed`, `unread`, `overtaken` or `unsent`
in `FoundryTaskIndex` records where the code lets a race or a failure pass, so that the properties can
say that nothing else goes wrong.

`MC*.tla` give the constants of these modules values; the configurations name the bounds.
Definitions marked as variants are the code with a plausible mistake; no specification uses them,
they exist so that each property is known to be able to fail.

## 3. The runs

Eleven runs that pass, one for each component modelled and a second one for the event stream of
the ACP client, and one that ends in a violation. The bounds are the
smallest in which every action fires and every race named under "Shows" can happen; most races need
two calls and one event of a subprocess, a connection or another actor.

| Run | Bounds | Shows |
|---|---|---|
| `stream` | two publishers (one inside a handler), one client that connects twice, 5 messages, ring 3, channel 2, so that both overflow | each publisher's messages arrive in order on a connection (`ProducerOrder`), the channel keeps that order (`SentInOrder`), the ring holds the newest numbers but as many as there are other publishers (`ReplayWindow`) |
| `adapter` | a request beside another under its id, one under another id, a notice, a shutdown, an injected notification, an SSE client, or a line printed unasked; a notice beside a shutdown; pipes of one line | no lost wakeup (`WaiterReachable`), an answer never goes to another id (`OwnReply`), `RequestReply` (one end per request, no answer handed out twice, `KeepsPromise`) and `EventStream` (`KeepsStream`) are implemented, posts return if the agent ends some day (`PostReturns`) |
| `adapter_hang_close` | a request and a shutdown | **violated**: with an agent that keeps running, shutdown waits for the child mutex for ever (`ShutdownReturns`) |
| `proxy` | a post, a post or a direct install, and a delete, two of which may hang up anywhere; `shutdown_all`; one server id, two agents; both settings of `require_preinstall` | one instance per id (`OneInstance`), no agent lost but by a hang-up at the wrong place (`NoOrphan`), `Registry` is implemented (`KeepsRegistry`), posts settle although lock holders are dropped and installs fail, and `shutdown_all` ends if agents do (`CallSettles`) |
| `process` | a start; a write or a delete; a list; a fourth call of any kind; two may hang up; a limit of one process | `ProcessLife` is implemented (`KeepsLife`), a running process is in the table (`NoLostProcess`), calls return when processes read their input, although list and writers hold and wait for two locks (`CallReturns`) |
| `opencode_server` | two requests that may hang up, a shutdown, three children | one server (`OneSidecar`), always watched (`Watched`), callers are answered (`EnsureReturns`), a dead server comes back (`Restarted`) |
| `acp_client` | two requests, one of which the proxy answers itself, three events, a ring of two, a channel of one, one stream, a memory of two responses, one failure | a response is delivered once although it comes two ways (`AnsweredOnce`), after a `close()` whose DELETE was answered nothing runs at the server, unless the DELETE passed the POST that starts it (`ClosedBehind`), requests end if agents do (`RequestSettles`) |
| `acp_client_stream` | one request whose agent notifies, asks back, answers and exits: any three of those events, of two publishers, a ring of two, a channel of one, three streams, two of which fail | over reconnections the connection gets the events in order and misses only what the server left out of a stream; an id that another publisher overtook is excepted (`EventsInOrder`) |
| `sdk_sessions` | three calls on a stored and a new session, two connections, one of which may fail to open or break, three sessions at the agent, one `dispose` at any moment or two that overlap | events are logged under their session (`LoggedUnderItsSession`), the first prompt of a restored session carries the history, and only that (`ReplayFirst`), when every `dispose` has returned, what any of them found is closed but for connections whose `initialize` was refused (`NothingLeftOpen`), a call ends once no other call on its session is under way (`CallsSettle`) |
| `subscription` | two listeners, three subscriptions between them, two failures or changes | a settled entry that lost no event shows the server's state (`SettledIsCurrent`), nothing is torn down in use (`TornDownUnused`), a connection given up is disposed but in one case (`GivenUpIsDisposed`), a listener that stays gets a snapshot (`Served`) |
| `task` | four workloads of three or four requests on an existing and a new session, two users, three models; one sandbox command, peer call, prompt, injection or step that fails or times out | a session that is shown thinking has a prompt, or its end is still to be noticed, but for a failed peer (`ThinkingEnds`), a task keeps a session (`KeepsASession`), the agent's session runs with the row's model (`ModelInForce`), while the loop sends a prompt, git in the sandbox names its sender, unless the sender was not identified or the injection for them failed (`SenderAttributed`), sessions become ready or fail (`SessionsSettle`); each names the known exceptions |
| `task_index` | a creation on a branch beside one that names it or takes any, two branches, one virtual task, one pull request, one later change of a task, one failing call of another actor | one task per branch where no check was overtaken (`OneTaskPerBranch`), a task opened before it has a record finds its branch unless the entry was deleted or the lookup failed (`OpenedWithBranch`), the list shows a task as its record is, or a summary that says so is on its way or about to be sent, unless the last broadcast failed (`ListedAsIs`), every task is listed but for a failed broadcast, those whose creation was given up included (`EventuallyListed`) |

The bound `Scenarios` of the adapter lists the handlers that are called together. Pairs are enough for
the races of its shared state, because each of them is between two parties: two posts for an entry
of `pending` or a line on stdin, a post or a shutdown and the exit watcher for the child mutex, a
post and the stdout loop for a oneshot channel. `OwnReply`, `WaiterReachable` and both refinements
are also proved for any number.

A call whose client hung up while something irrevocable was under way ends at a place of its own,
`"lost"`: between the spawn of a process and its insertion into a table, or the removal from a map
and the shutdown. `NoOrphan`, `NoLostProcess`, `OneSidecar` and `Watched` name that
place as their only exception, so they hold of all clients and say exactly what a hang-up can cost.

**Deadlock** is not checked (`CHECK_DEADLOCK FALSE`): every instance has finitely many calls, and
a server whose calls have all been answered really stops until the next one comes. That calls do
not block each other is what the liveness properties are for.

**Symmetry** is not used: most runs check a temporal property.

**Fairness.** `FairSpec` is weak fairness of every step of every task: the tokio runtime polls ready
tasks, timers fire, mutexes are granted in turn, and blocking installs end. Nothing is assumed of
clients (`Call`, `HangUp` have no fairness) or of subprocesses. Where more is needed a separate
specification says so: `MortalSpec` (`AdapterRuntime`, `AcpProxy`, `AcpHttpClient`): an agent ends some
day, by itself or because it was killed; `ReadingSpec` (`ProcessRuntime`): processes read their input;
`FairSpec` of `OpenCodeServer`: a health request ends. `adapter_hang_close` shows what happens without
the first. In the TypeScript modules `Fairness` is weak fairness of every continuation: a promise that
can be settled is, timers fire, the server answers or times out, the loops take their next command.
Users, failures and changes are never fair. The client's requests need `MortalSpec` because the client
has no timeout of its own, and a POST the server has given up on waits there for the child mutex, which
the exit watcher holds as long as the agent lives. `CallsSettle` starts from the moment a call is alone:
two that cross may restore the session against each other for ever.

**Disagreements.** The violated run is the finding in `PROJECT.json`. Others were met while
modelling, and the models contain them; the properties state what holds in spite of them.

* `EventStream`: ids are stored and sent out of order, and a message published between the copy of the
  ring and the registration of the receiver is lost (`process.rs:276-289`).
* `ProcessRuntime`: parallel starts exceed the limit of processes (263); a process that does not read
  its input cannot be killed while a write to it is under way (794).
* `OpenCodeServer`: a restart that sleeps through `shutdown` starts the server again (246).
* `TopicSubscription`: a listener that comes after a failed start, before its retry, opens a second
  connection beside the first (`remote-manager.ts:218`), and an error in the grace period stays.
* `AcpHttpClient`: an agent that lives on outlives `close()`: its DELETE takes the instance from the map
  and waits for an exit nobody causes (`process.rs:358-380`), while the client waits two seconds; a DELETE
  that passes the first POST is answered, and that POST starts the agent afterwards.
* `SdkSessions`: a connection whose `initialize` is refused keeps its transport (`client.ts:534-547`); a
  `dispose()` that is called while another waits for a connection to open returns before that connection
  is closed, since the first took it from the map (`client.ts:1015`); two calls that find a session
  unbound both restore it, so that the agent has two for it (1426; `alone` excludes them).
* `FoundryTask`: the owner row is written before the identity is injected (`workspace.ts:283-292`), and
  from then on its user is taken for injected although the injection was refused or threw; every fetch
  of the repository replaces the global credential helper that an injection had set (660); an owner set
  by hand is a GitHub member's id, so that every user's next message swaps it; the first message of
  `create_session_and_send` is always refused, because the session's `ensure` waits behind the command
  that sends; a closed session still takes messages; the task's status stays `init_complete`, because
  `computeWorkspaceTaskStatus` returns every `init_…` status unchanged.
* `FoundryTaskIndex`: two creations, or a creation and a pull request, can end on one branch
  (`contested`), a task under creation can lose its entry (`reclaimed`), an older summary can replace
  a newer one (`overtaken`); an entry that cannot be read leaves its task without a branch for good
  (`unread`, `common.ts:103`), and a task whose first broadcast fails keeps its branch and is never listed
  (`unsent`, `task-mutations.ts:200`).

## 4. What is proved

The theorems hold for every value of the constants that satisfies the named assumptions
(`NamesAssumption`, `ProxyAssumption`, …: names of different kinds are different, bounds are
natural numbers, the tasks that publish are finitely many, and `None` is not a record or a summary;
the calls and the bounds of the SDK's sessions are any).

* `AdapterRuntime_proofs`, first about the stream alone: `TypeCorrect`; `ChannelOrder`, from the
  invariant `SentInv`: what is in the channel from a publisher is older than what the publisher has
  drawn and not sent (`Drawn`). `DeliveryOrder` is about one connection, whose messages come out of
  two sources: `ReplayInv` orders what it was given out of its copy of the ring, `LiveInv` says that
  what came out of the channel are messages the receiver has passed, and `JoinInv` that no message of
  the copy is newer than one of the same publisher that is still to come. `ReplayKept` is a counting
  argument (`Evicted`): a number that left the ring was pushed out by `RingSize` others, and of
  these only those can be older that were drawn earlier and pushed late, one for each other
  publisher; this is why the publishers must be a finite set (`ProducersAssumption`).
* `AdapterRuntime_proofs`, about the runtime: `AdapterIsStream`, every step of the adapter is a step of
  the stream or leaves it alone, so that the stream's theorems carry over (`AdapterDelivers`);
  `AdapterTypeCorrect`; `ReplyInvariant`: entries of `pending` carry their own id, an open channel is
  registered under its id, a value in a channel or an outcome answers a request of that id. It gives
  `RepliesAreOwn` and `WaitersAreReachable`. The last conjunct is needed because a value travels through
  the channel before the post looks at it. `TravelInvariant` follows a request on its way: it is on the
  line being written, in the pipe, with the agent, printed, or has gone through a channel, in one of
  these places only and once; a request that is in none of them can still be written only by a post that
  has not come to its write. Both together give the refinement `AdapterKeepsPromise`: the step at which
  a post receives its answer is `Answer`, and the answer was given to nobody else although several
  posts may share its id.
* `AcpProxy_proofs`: `ProxyInvariant`: from the second look to the insertion the id's lock is held
  by the call and the id stays unbound, though deletes and `shutdown_all` do not take the lock
  (they only remove). It gives `OneInstancePerServer`, `NoAgentOrphaned` and, with a per-action
  lemma, the refinement `ImplementsRegistry`.
* `ProcessRuntime_proofs`: `ProcessTypeCorrect`, `RuntimeDiscipline`, `NoProcessLost`
  and the refinement `ImplementsLife`. The invariant ties the watcher's position to
  status and operating system, so that a status once read as exited stays true.
* `OpenCodeServer_proofs`: `ServerInvariant`: only the owner of `ensure_lock` is past the lock, no
  server is registered while it starts one, and what it clears is dead; then `NoSecondSidecar`,
  `ServerIsWatched`, `LiveServerStays`.
* `TopicSubscription_proofs`: `TypeCorrect`; `EntryInvariant`: the teardown timer runs only while nobody
  listens, an idle entry with a connection shows the error of a failed start, and every start is due
  to a subscription or a failure; then `NeverTornDownInUse` and `GivesUpDisposed`. `CalmInvariant` is
  about behaviours in which nothing has failed yet: there is one connection at a time
  (`OneConnection`), and of what the entry was or will be told the last is the server's state
  (`NewestIsCurrent`): the last event on the wire, else the last in the chain, else the read under
  way, else the first fetch, else the snapshot. When all of these are empty that is `SettlesCurrent`.
* `TypeScriptSdk_proofs`, about the transport: `TypeCorrect`; `Invariant`: the remembered ids are the
  tail of the responses that were passed on (`SeenIsTail`); what an open stream still has to bring (the
  wire, the copy of the ring, the channel) comes in the order of the ids but for those that were
  `contended`, that is drawn and not yet sent when a later one was drawn (`Queue`, `Drawn`); and every
  event is passed on, coming, not yet published, or `lost`, which the model sets where the server drops
  it: evicted from the ring before a stream copied it, published between the copy and the registration
  of the receiver, skipped by a receiver that lagged (`Complete`). `Ends` follows the instance, the
  agent and the DELETE. It gives `ResponsesOnce`, `NothingLost` and `NothingBehind`.
* `TypeScriptSdk_proofs`, about the sessions: `SdkInvariant`, whose parts are proved one by one,
  each for every kind of step (`SdkStep` sorts the actions by what they touch, and `SdkStepCases` shows
  that there is no other: most steps of the five kinds of calls move only the call, `OnItsOwn`).
  `Wired` says what a call or a connection refers to: the connection a call waits on exists, and a
  session is bound to one that was made for it on this connection. `Queued`: the sessions that wait
  on a connection (`pendingNew`) stand in the order of their `session/new` requests on the wire, by
  an order-preserving map that meets every request of the connection (`InLine`); the head of the
  list is therefore the sender of the next envelope, which is `EnvelopesLogged`. `Accounted`: a
  connection that is open is the live one, asked for after every `dispose()` so far, or some
  `dispose()` has it among those it will close, or waits for one that opens as it; the same for one
  that is being opened. When all of them have returned nothing holds the old ones, so they are
  closed: `DisposeCloses`. `Replayed`: for a session whose calls have never overlapped, the history
  waits on a connection if and only if the session was restored and has had no prompt (`ReplayDue`),
  except while the call that restores it has not bound it; a session without a record has no history
  (`Recorded`). With it a prompt takes exactly what is due: `HistoryFirst`. That the calls of the
  session do not overlap is a premise of the property and must itself be followed (`Overlapped`),
  because one call that restores a session would otherwise undo what another has concluded about it.
* `FoundryTask_proofs`: `TypeCorrect`; `TaskInvariant`. Its first part says where the handlers are
  (`Control`): every handler but `changeModel` and a prompt that outlived its step is the one the
  loop runs, a queued request is queued once, an order the sandbox still answers has the one handler that waits
  for it. On it rest `OtherOpen` (a session being closed is not the last open one, hence `OpenRemains`),
  `OwnerBacked` (git in the sandbox names the owner, or is about to, or the last injection failed, hence
  `SenderBacked`), and `Making` and `ModelTold` (an order waited for is the last for its session and
  for the model that was read, and a ready session runs its row's model while no `changeModel` is at it,
  hence `ModelReaches`). `ThinkingStops` is inductive with `Control`.
* `FoundryTaskIndex_proofs`: `IndexInvariant` follows a task's branch: before its entry is inserted
  nothing is made of a task (`Born`, `CallsInOrder`, `LoopInOrder`), and afterwards every copy of its
  branch (record, summary, a summary on its way, the entry a task has read) agrees with the entry or the
  branch is contested (`Claimed`), and a task whose entry stands and was read has a branch (`Branched`).
  The owner a call asks is followed as well (`OwnersRegistered`), because its entry may go and must not
  come back under another name. It gives `BranchesHaveOneTask` and `OpensWithBranch`. `ListShowsTasks`
  needs besides that no copy of a task's summary has a version its record has not reached, and that the
  copy with the record's version is the record (`Versions`); a record that is newer than all copies is
  still to be broadcast, or its broadcast failed.

Only model-checked: all liveness properties (`PostReturns`, `CallSettles`, `CallReturns`,
`EnsureReturns`, `Restarted`, `Served`, `RequestSettles`, `CallsSettle`, `SessionsSettle`,
`EventuallyListed`), because fairness and ENABLED are out of the prover's reach. Every safety
property that a passing run checks is also a theorem. The inductive invariants were checked with TLC
on the instances of the runs before they were proved; they are not repeated in the configurations.
The proofs of a component stand in a module of its own, but the transport and the sessions of the
SDK share one.

## 5. What is not modelled

Inside the modelled Rust files: the tail of stderr kept for error messages, failure of `start()` to
spawn in the adapter, the error branch of `wait()` in its exit watcher, stdin closed by the drop of
the last `Arc`; the log buffer and its followers, `run_once`, terminal resize and `set_config` of the
process runtime; `last_error` of the server manager; Windows.

`AcpHttpClient`: the methods that only wrap one request, headers and query strings but for the
bootstrap; events that come when the transport is closed, since it drops them all. `SdkSessions`: the
order and paging of stored events, modes and config options, the calls for files, processes and the
desktop, the start of a local server; a permission request is answered or cancelled, its options are
one. `TopicSubscription`: `dispose()` of the whole manager.

`FoundryTask`: renaming, drafts, git state, files, pull requests and the archive commands; the global
credential helper, which every fetch of the repository replaces, so that no property could say whose
token it names; retries of steps by the framework, and restarts of actors, whose semantics
is not in this repository. `FoundryTaskIndex`: the removal of summaries, which nothing sends, and the pull
request's data: a virtual task that is opened starts without it and broadcasts that.

The other components are listed in `PROJECT.json` with the reason. Most of what is left of the
repository is user interface, generated types, vendors' APIs and wrappers of one request.

## 6. Plan

Order of what comes next, most important first.

1. The synchronisation with GitHub (`actors/github-data`): full and incremental syncs, webhooks that
   arrive meanwhile, composed with the loop of `FoundryTaskIndex`.
2. `OpenCodeSessions` (`opencode-adapter/src/lib.rs`): `ensure_session` and
   `maybe_restore_session` (check, then act), the event log with ids drawn early, permissions, the
   translation task. It composes with `Registry`, not with `AcpProxy`.
3. `DesktopRuntime` and `DesktopStreaming`: one lock held over all of start and stop, dropped handlers, a second
   start after a failure.
4. `Shutdown` (`cli.rs`, `router.rs`): SIGINT and SIGTERM, `shutdown_servers` while requests are
   still accepted; a composition of `Registry`, the server manager and the desktop.
