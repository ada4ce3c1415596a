# A verification project for ra2a

`ra2a` is a Rust SDK for the Agent2Agent (A2A) protocol. A server wraps an
application's *agent executor*: clients send messages, each message executes
the agent for a *task*, the agent writes events (task snapshots, status
updates, artifacts, messages) to a queue, and the server stores what it sees,
streams it, and answers. This directory models the part of the SDK where
things happen concurrently or pass several parts, checks it with TLC and proves
invariants of it with TLAPS.

All paths below are relative to `src/ra2a/src/` unless they say otherwise.

## 1. Inventory

| component | state | operations | hard behaviour | correct if |
|---|---|---|---|---|
| `InMemoryTaskStore` (`server/task_store.rs`) | map id -> (task, version) behind an async `RwLock`; an atomic version counter | `save(task, prev)`, `get`, `delete`, `list` | the version is taken before the lock is; futures may be dropped while waiting | versions are unique; a conditional save loses no write; it behaves as LL/SC memory |
| SQL task store (same file) | a table | the same | transactions, failing I/O | the same contract without versions |
| `QueueManager` / `EventQueue` (`server/event.rs`) | map id -> `Arc<EventQueue>` behind an `RwLock`; a tokio broadcast channel per queue | `create_queue`, `get_queue`, `get_or_create_queue`, `remove_queue`, `send_event`; `send`, `subscribe` | check, unlock, check again; lagging receivers; closing when the last `Arc` goes | one queue per task until it is removed; nobody misses its own events |
| `DefaultRequestHandler` (`server/handler/default.rs`) | store, queues, `running_tasks` (abort handles), push configurations | send, stream, cancel, subscribe, get, list, push configuration calls | requests on one task share a queue; checks are made long before the writes they guard; executions outlive their requests; clients leave at any await | terminal tasks stay terminal; answers are stored; nobody waits in vain; cancel stops the execution; nothing leaks |
| agent executor (`server/executor.rs`) | the application's | `execute`, `cancel` | sends anything, any time, or fails | (the environment) |
| push store and sender (`server/push.rs`) | map task -> config id -> config | save, get, list, delete, notify | notification against deletion; slow endpoints | no configuration outlives its deletion; order of notifications |
| server interceptors (`server/middleware.rs`, `handler/intercepted.rs`) | call context | before, after, stream items | early exit, errors half-way | `after` runs for every `before` |
| dispatch (`server/http.rs`, `rest.rs`, `handler/mod.rs`, `jsonrpc.rs`, `error.rs`) | none | method -> handler, error -> code | codes lost on early returns | one code per error |
| gRPC (`grpc/*`) | a channel of 32 per stream | stream bridge, conversions | backpressure against a lagging queue | every event forwarded, in order |
| client (`client/*`) | card cache, interceptors, a mutex around the gRPC stub | calls, SSE parsing, transport selection | chunk boundaries, stale card, serialised calls | no event lost, calls independent |
| extensions (`src/ra2a-ext/src/*`) | a task-local | activate, propagate | spawned tasks do not inherit it | only what is allowed crosses |

How they interact. `ClientFactory` picks an interface of the agent's card and
builds a transport for it. A call of the client passes its interceptors and the
transport (which holds a mutex while it talks gRPC), then the server's endpoint,
interceptors and handler, and comes back through the same layers. The handler
calls the store and the queue manager, spawns the executor with an `Arc` of the
queue and a second task that registers the abort handle; executor and handler
communicate only through the queue, executions and requests through the store,
the queue map and `running_tasks`. Every request that collects a queue also
posts what it stores to the task's push configurations. Streams go from a
queue's broadcast receiver through the interceptors to server-sent events, or
through a bounded channel to gRPC. Dropping an HTTP connection drops the
handler's future (or the stream) at an await point; what it has spawned goes on.
The extension propagators of a server and of the client its application uses
meet only in a task-local cell.

`PROJECT.json` lists under "hazards" everything in the code that is hard to
test, with the properties that cover it, or the reason why none does yet.

## 2. Plan

1. *(done)* Store and queue manager as stand-alone modules with their proofs;
   request handler with executions, queues, store; its inductive invariant.
2. *(done)* Around the handler: push notifications (configurations, order,
   deletion against delivery), status updates as read-modify-write, a store that
   fails, `list()` and its pages.
3. *(done)* The edges: the way of a call through client, transport, endpoint,
   both interceptor chains and error tables; the way of a stream's event,
   chunking, backpressure and lag included; extensions along a chain of agents,
   with proofs.
4. *(done)* Proofs of everything the passing runs check, but for liveness:
   inductive invariants of `TaskService`, `StreamPath` and `CallPath`, the
   refinement of `EventFeed`, and the handler's properties that need one starter
   per task.
5. *(done)* `QueueManager` and `RequestHandler` joined by theorems: the queue map
   with two locks and the one the handler takes in one step implement one
   abstract map.
6. *(left)* The same for the task store: `RequestHandler` and `TaskService` take
   its calls as single steps, which `LinkedStore` would justify.

Abstract specifications: `LinkedStore` for the task store, `QueueMap` for the
queue manager and `EventFeed` for streams.

## 3. Modules

| module | models | remarks |
|---|---|---|
| `A2ATypes` | task states, event kinds, `is_terminal` | a task is its state, an event its kind and state |
| `LinkedStore` | what a versioned store promises | load-linked / store-conditional memory: a save begun conditionally takes effect only if, at that moment, nobody has replaced the entry since its writer saw it, or the entry is gone. Saves in progress are part of its state, so the store may not pass a conditional save off as an unconditional one; a refusal and a save given up by its caller look alike |
| `TaskStore` | `InMemoryTaskStore` | `save` is two steps: version taken (`BeginSave`), lock taken (`CommitSave`, `RejectSave`); `AbandonSave` drops the future in between. `held` is what a caller last saw |
| `QueueMap` | what a queue map promises: one queue per task at a time, never the same one again | abstract specification; each operation acts at one moment between call and return |
| `QueueManager` | the queue map | one action per critical section; `get_or_create_queue` and `send_event` are two. Implements `QueueMap` (`ImplementsQueueMap`) |
| `RequestHandler` | the default request handler, its executions, the broadcast channels | see below |
| `TaskService` | what the handler does with stored tasks: collectors' writes and posts, configuration calls, listing | see below |
| `A2AErrors` | `error.rs`: errors, their JSON-RPC codes and REST reasons, both ways | functions only |
| `Transports` | which operation each binding offers, routes and how; tenants; what an error becomes | functions only |
| `CallPath` | factory, client, transports, endpoints, interceptors, calls in flight | EXTENDS `Transports`; see below |
| `EventFeed` | what a stream promises: events that were sent, in order, none twice | abstract specification |
| `StreamPath` | queue receiver, per-event interceptors, SSE or gRPC bridge, the client's parser | EXTENDS `Transports`; implements `EventFeed` (`IsFeed`) |
| `Extensions` | `ra2a-ext`: propagators, activator, the task-local cell, a chain of agents | see below |
| `MCTaskStore`, `MCQueueManager`, `MCRequestHandler`, `MCTaskService`, `MCCallPath`, `MCExtensions` | instances for TLC | workloads, agents, plans and setups are named there |
| `Filters` | the elements of a sequence that are in a set, in order | used by `TaskService`, `StreamPath` and `CallPath`; a recursive function, which proofs can expand |
| `TaskStoreProofs`, `QueueManagerProofs`, `RequestHandlerProofs`, `TaskServiceProofs`, `CallPathProofs`, `StreamPathProofs`, `ExtensionsProofs` | theorems | section 6 |
| `SequenceLemmas` | lemmas about segments of sequences and about `Filters` | cited by three of those |

Definitions marked *Mutant* next to the definition they distort are not part of
any next-state relation. Each is a plausible mistake that some run must detect.

The modules meet where the code has a narrow seam. `RequestHandler` takes the
store's saves as atomic: its writes carry no version, and `TaskStore` shows what
such a save is. It takes `get_or_create_queue` as one step:
what it relies on (`UsesQueueMap`) is the abstract map `QueueMap`, which
`QueueManager` implements. `CallPath` takes the handler as one step that answers or waits
for a cancel. `StreamPath` takes the queue as a sender and a close, which may or
may not come: `RequestHandler` decides. `TaskService` takes it as given which
requests collect a queue.

### RequestHandler

`pc[r]` is how far request `r` has got:

    start -> accepted -> [aborted] -> queued -> subscribed -> collecting
    collecting -> persisting -> deciding -> collecting | answering -> done
    subscribed -> streaming (stream), queued -> streaming (subscribe) -> done

Each step is what the code does between two points where somebody else can act
(an await, or another thread's turn between two critical sections):

* `BuildContext`, `CheckOpenTask`: the store is read and the request refused or
  accepted. Input validation, ids, metadata and tenants are not modelled. A
  client-chosen id that nobody knows is a new task if the message names a
  context and an error if not; both are possible.
* `InterceptorFails`: one of the request context interceptors returns an error.
* `AbortRunning`: cancel takes the handle out of `running_tasks` and aborts.
* `GetOrCreateQueue`, `FindQueue`, `Subscribe`, `Spawn`: a queue is named after
  the request that created it. One step for `get_or_create_queue` is justified
  by `QueueMap`: whoever gets a queue is given the one registered at that moment.
* `RegisterHandle`: the separately spawned insertion into `running_tasks`.
* `Receive`, `SkipLagged`, `PersistEvent`, `Decide`, `RemoveQueue`:
  `collect_result` and what follows. `log[q]` is everything sent to a queue; the
  channel keeps the last `Capacity` events of it, so a receiver whose unread
  part is longer must skip. `finalize_on_close` has no counterpart: it needs the
  channel to close, and the handler itself holds an `Arc` of the queue.
* `StreamEnds`: the channel is closed when no `Arc` of its queue is left.
* `Emit`, `AgentReturns`, `SaveFailed`, `ReportFailed`: an execution. Its agent
  sends events of a set; a send nobody listens to is an error the agent may
  ignore or pass on. Events are about the execution's own task.
* `AbortLands`: an aborted execution stops at one of its next await points.
* `Leave`: the client goes.

`Deserted(r)` is how a send or cancel may be left without an answer: it still
collects, its own execution is over, and whatever its queue retains for it is by
aborted executions. Either a cancel stopped its execution before the final event,
or aborted executions pushed the final event out of the channel.

`AgentsFinish` chooses between disciplined agents, which send a final event in
time and stop, and arbitrary ones. Two constants of the model have no
counterpart in the code: `MaxEvents` (events one execution sends) and the set
`Requests` (each arrives at most once).

### TaskService

A run follows a *plan*: the tasks stored at the start, the events of one queue,
the requests that collect it, the configurations of its task, one configuration
call or send per caller, a client that lists. `collector[p].pc` follows
`persist_event_snapshot`, one step per store call or post:

    recv -> save -> list -> post -> recv                (a task snapshot)
    recv -> read -> save -> list -> post -> recv        (a status update)

`Receive`, `ReadTask`, `SaveTask`, `ListTargets`, `Post`, `PostsEnd` are those
arrows; `CheckTask`, `SaveConfig`, `DeleteConfig` the configuration calls and
the beginning of a send; `ListPage` one `list()`; `OtherTask` stands for
executions of other tasks. Failing store calls and posts are disjuncts with
`Fault` where the code swallows the error (`get_task_internal`, `store_task`,
the listing in `notify_push` and the posts). `order` is the iteration order of the
hash map, which a new entry may change. `posted`, `stale` and `touched` are
history. The queue does not lag here, which `RequestHandler` has.

### CallPath

`call[c].pc` is how far call `c` has got, `at` the interceptor whose turn it is:

    idle -> clientBefore -> connect -> sent -> serverBefore -> handler [-> waiting]
         -> serverAfter -> reply -> clientAfter -> done

`BuilderWorks` and `BuilderFails` are the factory's loop over `Candidates`;
`Connect` takes the gRPC mutex, `Reply`, `Lose` and a refusal at the endpoint
release it. Streams skip both `after` chains on their way back (items have
theirs in `StreamPath`), `get_agent_card` skips the client's `before` and may be
answered from the held card, and a client whose card does not stream sends
instead. `said`, `seen`, `broken`, `handled` and `tenant` are history of what
was said and seen on the way; no action reads them.

### StreamPath

A queue (`log`, `closed`), a receiver (`cursor`, `forwarding`), what is under way
(`wire`: items over gRPC, frames in characters over HTTP) and a client (`buf`,
`items`). `Forward` is what the server does with an item: over gRPC it skips
what the protobuf oneof does not carry, ends at an error, and finds out that the
client has gone when it sends. `ReadChunk` takes any number of bytes and
`Decode` does what each client does with a chunk that ends inside a character;
`Extract` takes an event out of the buffer, `Parses` says what it may be.

### Extensions

`stage[r]` goes `arrived -> entered -> serving [-> spawned]`, then the request is
`arrived` at the next agent. `cell` is the task-local of the task that serves the
request and of one it spawns; `Enter` says whether the application runs the
handler inside `init_propagation`, `Propagate` is `ServerPropagator::before`,
`SpawnBare` and `SpawnScoped` are the two ways to spawn, `Call` is the client
with activator, propagator, transport and the next server's view of the headers.
`Received` is what a transport makes of the service parameters: JSON-RPC's sends
them as headers, those of REST and gRPC ignore them, and all three carry the
message's metadata. `origin`, `unbroken` and `handedOn` are history: what the
request started with, whether so far every agent called the next over JSON-RPC
from a task with the context, and whether every agent so far sent a message from
a task whose context was respelled, without losing the header before.

## 4. Runs

| run | instance | shows |
|---|---|---|
| `store` | 2 clients, 2 keys, 2 snapshots, 4 versions | `VersionInv`, `NoLostUpdate`, `ConditionalSaveAdvances`, refinement of `LinkedStore` |
| `queues` | 3 callers, 2 keys, 4 queues | `RegisteredUntilRemoved`, refinement of `QueueMap` (`ImplementsQueueMap`) |
| `handler_any` | any 2 operations on 1 task, or 2 of send and cancel on a task each; capacity 1, 1 event per execution, clients leave, undisciplined agents | `NoOwnEventMissed`, `NoLeakedQueue`, `OnlyCancelAborts`, `StoreHasSource`, refinement of `QueueMap` (`UsesQueueMap`), and `HandlerInv`, the invariant the proofs use |
| `one_send` | 1 blocking send, up to 2 subscribers, 3 events, capacity 2 | `ConsumedWhileRunning`, `TerminalIsFinal`, `AnswerIsStored`, `FinalStateStored` |
| `answers` | 2 sends (either kind) or cancels, 2 events per execution, capacity 1 | `NobodyWaitsInVain`, `AnsweredOrDeserted`, although events are skipped |
| `tasks` | 1 or 2 collectors of 2 or 3 events, 1 caller, 3 tasks, 3 configurations, 1 failure | `Converges`, `LastPostIsFinal`, `StalePostsBounded`, `PagesMakeTheList`, `PagingEnds`, `CollectorsEnd` |
| `calls` | 2 calls, 1 client and 2 server interceptors, 1 loss, 6 interfaces, 1 tenant | `ChosenIsBest`, `AnswerExplained`, `Nested`, `OneTenant`, `HttpCallsEnd` |
| `streams` | 3 events of 2 kinds, capacity 1, a channel of 1, 6 characters under way, 1 refusal | `NoMixture`, `GapsShow`, refinement of `EventFeed` (`IsFeed`), `LastEventArrives`, `ReceiverReleased` |
| `extensions` | 2 requests, 2 extensions, a chain of 3 agents, 3 transports | types, `OnItsOwnBehalf`, `OnlySupported`, `ReachesTheEnd`, `CopiesBounded`, `MetadataReachesTheEnd` |
| `terminal` | 2 blocking sends or cancels | **violated** `TerminalIsFinal` |
| `cancel_aborts` | the same | **violated** `CancelAbortsExecution` |
| `error_codes` | 1 JSON-RPC call to a handler that answers `TaskNotFound` | **violated** `ErrorCodeKept` |

A violated run checks one sentence of the code's own documentation, quoted with
the finding in `PROJECT.json`. `TerminalIsFinal` and `ConsumedWhileRunning` hold
in `one_send`: what breaks the first is a second request that acts on the task,
what breaks the second an early return. `ErrorCodeKept` is what `AnswerExplained`
says without its allowance for generic errors.

**Why the bounds are enough.**

* *Handler.* Two requests are what a race on one task needs; a third adds a
  second competitor of the same kind, and the invariants are proved for any
  number. Capacity 1 with two events (`answers`) lets every receiver lag, behind
  its own execution and behind others', and lets each execution, aborted ones
  included, push everything else out of the channel. With capacity 2 and three
  events (`one_send`) a receiver may keep up or lag. Two tasks suffice to mix tasks up.
* *Store.* Four versions are enough for: a read, a delayed unconditional save
  with an older version than the one stored, a conditional save with the version
  read.
* *Task service.* Two collectors disagree about one stored task; a status update
  between two snapshots shows a stale copy. Two pages of two (for 50 and 100)
  and three tasks give a full page, a short one, an empty one and an exact
  multiple. One fault at any of the calls shows each swallowed error.
* *Calls.* Two calls are what the mutex, the card and a waiting send need. The
  choice, single and paired starts cover: every interface with streams, cards and
  subscriptions; a send with the cancel it waits for over each; cards with every
  protocol, with and without preferences and builders. One client interceptor and
  two on the server give the orders that `Nested` tells apart. `HandlerErrors`
  has one error known to both error tables and one known to neither.
* *Streams.* Three events and capacity 1 let a receiver lag before, between and
  after events it delivers; six characters hold two frames, one of them wide, so
  that a chunk can end anywhere in either. A channel of 1 is full whenever its
  reader is slow.
* *Extensions.* Three agents are the shortest chain in which one both receives a
  context and passes it on; each of its calls may be over any transport. Callers
  repeat a header, ask for two, one or none.

Bounds on counters are guards: `MaxVersion`, `MaxQueues`, `MaxEvents`,
`MaxFaults`, `MaxRefused`, `Losses`, `Window`. `CHECK_DEADLOCK FALSE` is given
where requests, calls or events run out.

**What these runs do not reach.** Liveness is checked for two requests. The
safety half of it, `NobodyWaitsInVain`, is proved for any number of requests, any
capacity and any number of events. The code does leave requests without an
answer, and `Deserted` says when, so `AnsweredOrDeserted` is not "everyone is
answered". Three ways lead there: a cancel aborts a blocking send's execution and
answers on another queue, because a third request has unregistered the first; an
aborted execution still manages to send `Capacity` events after the final one of
a cancel, which that cancel then skips; the same for a send that has lagged
behind an aborted one. Each takes an aborted execution: where nobody cancels,
nobody is deserted, and the property says that everyone is answered. An agent
that ends without a final event, or in `InputRequired`, leaves a blocking send
waiting as well, which is why this run and theorem have disciplined agents
(`AgentsFinish`).

## 5. Fairness

`RequestHandler`'s `FairSpec` has weak fairness for every request's handler steps, its execution,
the insertion of its handle and the landing of its abort: tokio polls every task
that can go on, and each of these is a task (or part of one) that stays ready
until it runs. There is no fairness for arrivals (nobody makes a client call),
for clients leaving, or for interceptors failing. Weak fairness of `Execute`
says that an agent which can go on does; with `AgentsFinish` it reaches a final
event. Safety runs use `Spec`.

`CallPath` has weak fairness for the steps of each call together: a future that
can go on is polled, and interceptors and handlers are assumed to return. A
`waiting` send is the exception the model makes explicit. Losses are owed to
nobody. A call blocked by the mutex is not enabled, so nothing is promised to it
beyond what the holder's progress gives. `StreamPath` has it for the server's
side and for the client's side of a stream, not for the agent's events, the
closing of the queue, the client's leaving or a broken connection. `TaskService`
has it for each collector, whose store calls and posts end (a post by its
timeout), and for the client that pages. `Extensions` has safety properties only.

## 6. Proofs

All theorems are for arbitrary constants under the modules' named assumptions
(`StoreAssumption`, `QueueAssumption`, `HandlerAssumption`,
`TaskServiceAssumption`, `FiniteAssumption`, `CallPathAssumption`,
`StreamPathAssumption`, and in `Extensions` `AgentsAssumption`,
`CardsAssumption`, `WishesAssumption`, `TransportsAssumption`,
`OriginsAssumption`), which TLC evaluates in every run of those modules. They
say what type a constant has and which bounds are positive. `FiniteAssumption`
says that there are finitely many tasks and collectors, since `order` lists the
tasks and `StalePostsBounded` counts the collectors.

*TaskStore.* `TypeOK` is inductive. `VersionInv` is inductive with it: the
versions in use lie below the counter, an in-flight save owns its version alone,
its `prev` is what its caller holds, and equal versions mean equal snapshots.
The last part is what makes the check `prev != existing.version` sound: passing
it means that the caller has seen this very entry. From it follow
`NoUpdateLost`, `ConditionalSavesAdvance` and, step by step, the refinement
`StoreImplementsLinkedStore`. `NoUpdateLost` and the refinement assume
`FirstVersion # MISSING`, and need it: with `FirstVersion = 0` TLC finds
`NoLostUpdate` violated.

*QueueManager.* `RegisteredUntilRemoved` is inductive with the types: a queue is
inserted only where there is none, and removal is recorded in the history
variable `removed`. `ManagerIsAQueueMap` maps each critical section to an
operation of `QueueMap` or a stutter. The callers between the two locks of
`get_or_create_queue` are the abstract map's `waiting`; the call acts at the
first lock if it finds a queue there, else at the second, whatever happened in
between. `RegisteredUntilRemoved` is not needed for it: that a queue is
registered once follows from the counter that names it.

*RequestHandler.* None of the properties is inductive alone. `HandlerInv` joins
them with
`StepsInOrder` (a request is only where its operation leads, and has no
execution before it spawned one), `TasksApart` (the queue map, `running_tasks`,
the queues in use and the events in them belong to one task) and
`ReceiversInLog` (positions lie between the subscription and the end of the
queue). `NoOwnEventMissed` needs `TasksApart` at the subscription (an event's
author has an execution, the subscriber has none yet) and `ReceiversInLog` at a
send. `NoLeakedQueue` needs that a registered queue is under its creator's task,
`StoreHasSource` that a received event comes from the receiver's task. Each part
has a lemma `Next...` with one case per action that touches its variables and
one for those that do not; sending is factored into `Deliver...` lemmas over
`DeliverLog`, which says what a send may change in the logs.

`HandlerUsesAQueueMap` is the other half: the requests' steps on `queues` are
operations of the same `QueueMap`. It needs of `StepsInOrder` that a request has
no queue before it asks for one, so that the queue it registers is new, and of
`TasksApart` that a registered queue is one its creator holds.

*RequestHandler, one starter per task.* `ConsumedWhileRunning`,
`TerminalIsFinal` and `AnswerIsStored` do not hold for every workload: the run
`terminal` violates the second, and a send without configuration the first. Their
theorems assume `StartersAlone`, a statement about the constants that describes
the workloads of `one_send` and more: each task is started by at most one
blocking send or stream and watched by any number of subscribers, agents end with a
final event and ask for no authentication, clients stay. `AnswersAreStored`
assumes besides that every task is stored beforehand (a final update of an
unknown task is answered and not stored, section 7). Under it `AloneInv` is
inductive with `HandlerInv`: `Heard` (no execution fails, and until it returns the
request that started it still listens), `FinalIsLast` (a final event in any
queue is by an execution that has returned) and `OpenUntilStored` (until the
starter has stored a final state the task is not final; what it decides upon is
what it has stored). `FinalIsLast` with `Heard` is why nothing overwrites a final
state: whoever could write after it would have to be a second starter.

*RequestHandler, nobody waits in vain.* `NobodyIsKeptWaiting` assumes
`AgentsFinish` and nothing else of the workload: any requests, tasks and
capacity, clients that leave. A request that waits with nothing left to read and
no execution at work in its queue must be shown to be deserted. `WaitersInv` is
inductive with `HandlerInv`: an event is in the queue its author uses
(`SentToOwnQueue`), whoever collects has spawned an execution
(`CollectorsSpawned`), an execution that has returned had a final event as its
last word in every queue where somebody heard of it (`LastWordsHeard`), and a
collector never passes a retained final event without dealing with it
(`FinalsNotPassed`). So if anything retained for the waiting request were by an
execution that was left to finish, that execution's final event would be
retained too, unread or being dealt with. `FinalsNotPassed` is where
lag matters: `SkipLagged` goes to the oldest event retained and not, as in the
mutant, to the end.

*TaskService.* `ServiceInv` joins the types with five facts. `CollectorsInStep`:
what a collector has left is a suffix of the plan's events, and what it is about
to save or post is the event at its head. `StateSaved` and `StatePosted` are
`Converges` and `LastPostIsFinal` made inductive: as soon as every collector has
passed its last save (post), the state saved (posted) last is the final one. That
is so because the last save of all is some collector's last, whoever that is.
`ContentSaved` says for a single collector that the stored content is that of the
last snapshot among the events it has saved. `StaleCounted` adds the posts to a
deleted configuration to the collectors that still hold it (`Holders`): a post
moves one unit from the one to the other, so the sum stays below the number of
collectors. `PagesSoFar`: the pages so far are a prefix of the list, as long as
the matching tasks have not changed.

*StreamPath.* `Pipe` is `buf \o wire`, all that is under way to the client, the
oldest first. `StreamInv` says that nothing is under way to a client that has
gone (`Gone`); that the pipe is in order, behind what the client has got and not
beyond what the server has forwarded (`Ascending`); and, unless a JSON-RPC client
has dropped a chunk cut inside a character, that the pipe consists of whole
frames (`Framed`), no carried event is missing from the client's last item to the
pipe, along it and on to the next event to forward (`Linked`), and none between
the client's items without an error before it (`NoGaps`). The lemmas follow the
pipe's three movements: a segment appended at its end, a chunk moved from `wire`
to `buf` (which for REST and gRPC leaves the pipe as it was), a frame taken from
its front. `NoEventIsMixed` and `GapsAreMarked` are parts of the invariant read
off; `StreamIsAFeed` maps each step to a yield of `EventFeed`, a new event, or a
stutter, with `Seen` the items that are events.

*CallPath.* `CallInv` is the types, `Tried` (the candidates that are gone have
failed) and one predicate on each call's record, `RecordOK`: the result has been
said or is generic (`Explained`), `seen` is the first so many members of the
walk through the server's interceptors and back, as many as `pc` and `at` say
(`Layers`), and the tenant is the one `TenantReceived` makes of the interface
chosen (`Received`). As each step of a call replaces one record, there is one
lemma per action, `...Step`, that the new record is in order. `ChosenIsBest`
needs in addition that `Candidates` is sorted (`SortedTo`, by an induction on
ranks and one on the card's interfaces) and contains every interface that has a
builder.

*Induction.* The sequences in these proofs are arbitrary. Where a fact about them
needs induction (`KeptProperties`, `FlattenRecurs`, `CandidatesSorted`), the set of
numbers for which it holds is shown to contain 0 and every successor
(`NatSetInduction`); the library's theorem for operators cannot be used here.

*Extensions.* `ExtensionsInv` joins `TypeOK` and the five properties with
`CellsCarry`: whatever context a request's cells hold carries only what the
request arrived with, under one spelling, and the context installed where it is
served has its headers as they arrived and the metadata `Extracted` from it. That strengthening is needed because an
agent sends what is in a cell, several steps after the arrival that filled it.
`SentOn` says what the two client interceptors make of a context, a card and
wishes, `CallArrives` what the next agent then receives; each property has its
own `Step...` lemma, in which only `Call` is not a stutter. That requests do not
mix (`OnItsOwnBehalf`) follows from `CellOf` naming the request: with one cell
for the process the proof, like the run, breaks. The theorems hold for chains of
any length and any number of requests, extensions and cards.

*Only model-checked:* liveness (`AnsweredOrDeserted`, `FinalStateStored`,
`HttpCallsEnd`, `LastEventArrives`, `ReceiverReleased`, `PagingEnds`,
`CollectorsEnd`), which rests on fairness and `ENABLED` and is beyond the prover.
Every other property of a passing run is stated by a theorem.

## 7. Observations

Behaviours met while modelling that no run refutes, because the code promises
nothing about them, or that are the reason why a property is stated as it is.

* A store made by `InMemoryTaskStore::default()` starts its versions at 0, the
  value of `TaskVersion::MISSING` (`server/task_store.rs:92`). The first saved
  task then looks unversioned, and any conditional save overwrites it.
* `on_message_stream` never removes its queue from the map, and the stream ends
  only when every `Arc` of the queue is gone: the stream outlives its execution.
  Nothing stores a streaming request's events, unless another request collects
  the same queue.
* A send without a configuration returns at once, although `return_immediately`
  is documented as false by default (`types/request.rs:27`). It drops the only receiver while its agent goes on:
  `ConsumedWhileRunning` is checked for a blocking send.
* A final status update for a task nobody has stored is answered with a fresh
  `Task::new` and not stored: `FinalStateStored` is checked for a stored task.
* Two requests that collect one queue converge on the last state, but a status
  update of the one, read before and written after a snapshot of the other, puts
  back the older history and artifacts. `Converges` says so.
* A deleted push configuration is still posted to, at most once per collector. A
  configuration saved with a send that is then refused stays.
* The SQL stores ignore `list()`'s filter and page size. A page size of 0 is
  taken literally: a client that follows the tokens never ends. `PagingEnds`
  excludes it.
* Over unary JSON-RPC every handler error reaches the client as an internal
  error (finding `error_codes`); over gRPC every error is `Other`.
* A gRPC transport holds its channel's mutex for a whole call, so a cancel on
  the same client waits behind the blocking send it should end. `HttpCallsEnd`
  is stated for the other two transports.
* A gRPC stream leaves out `Task` and `Message` events, ends without a sign at
  an error item, a lag included, and its server notices that the client has gone
  only at the next event it carries.
* A JSON-RPC client drops a chunk that is not valid UTF-8 by itself: a chunk that
  ends inside a character loses text, and may join the halves of two events.
* The 30 s timeout of the JSON-RPC and REST clients covers the body and cuts
  longer streams (`client/jsonrpc.rs:72`, `client/rest.rs:46`).
* An agent that fails after a final event has its task saved as failed by the
  execution itself, before or after the collector saves the final event: with
  `AgentsFinish = FALSE` a single blocking send stores `Failed` over `Completed`,
  so `TerminalIsFinal` is checked with disciplined agents in `one_send`.
* Only the JSON-RPC transport sends the service parameters. `RestTransport` and
  `GrpcTransport` take them and drop them (`client/rest.rs:200`), although they
  are documented as "propagated via HTTP headers or gRPC metadata"
  (`client/interceptor.rs:3-4`): an extension asked for over REST or gRPC does
  not reach the agent, while metadata in the message does. A chain of agents
  passes extensions on only as far as its calls are over JSON-RPC.
* Over JSON-RPC the server sees header names in lower case, and what
  `ServerPropagator` keeps is looked up as `A2A-Extensions`
  (`ra2a-ext/src/propagator.rs:217`): no extension is activated and no metadata
  is passed on, unless the application respells the name. The headers themselves
  do travel on, which is what `ReachesTheEnd` needs; `MetadataReachesTheEnd` is
  about contexts that were respelled.

## 8. Not modelled

* `grpc/convert.rs` and the serialization of protocol types: field by field,
  without behaviour over time. What of it decides something (which events a
  stream carries, which tenant arrives) is in `StreamPath` and `Transports`.
* The SQL stores' row conversions and dialects; their calls are single
  statements, and `TaskService` has their `list()` and their failures.
* Malformed envelopes, parameters and headers: they are refused before anything
  happens.
* `TaskStore::list`'s trimming of histories, and `on_get_task`, which changes
  nothing. `apply_artifact_update` and `delete_all`, which nothing calls;
  `fail_on_error` of the push sender, whose error the handler only logs.
* Custom predicates of the propagators: arbitrary application code.
* `QueueManager::default()` has capacity 0, with which its first queue panics
  (`server/event.rs:63`); `HandlerAssumption` takes a positive capacity, as `new()` gives.
* The examples, which only show what an executor looks like.
