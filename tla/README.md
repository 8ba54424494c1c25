# Grok Bridge: verification project

TLA+ models of Grok Bridge (the Go hub in `src/`), TLC configurations that check
them on small instances, and TLAPS proofs that hold for every value of the
constants. Line numbers refer to the files under `src/`.

## 1. The system

Grok Bridge is a hub process that phones and browsers talk to over HTTP and one
WebSocket each. A client sends a message to a chat session; the hub runs a
*turn*: it stores the message, asks an agent adapter for a reply, broadcasts the
adapter's events to every client of the session, and stores the reply.

| Component | Source | State | Operations |
|---|---|---|---|
| Hub, native chats | `internal/hub/server.go` | `Hub.locks` (a mutex per session), `Server.turns` (the running turn's CancelFunc) | `runChat`, `setTurnCancel`, `clearTurnCancel`, `cancelTurn`, `handlePostMessage`, `handleCancelSession` |
| Hub, clients | same | `Hub.clients` (connections and what they subscribed to) | `handleWS`, `handleWSMessage`, `Broadcast` |
| Hub, Grok Build chats | same | `buildRaw`, `createdBuild`, `createdCwd` | `runBuildChat`, `createBuildSession`, `ensureBuildLoaded`, `handleSetSessionModel` |
| Bridge jobs | `internal/bridge/bridge.go` | `JobRegistry.jobs`; per job `Status`, `Error`, `queue` (128), `done` | `Create`, `EnqueueEvent`, `Complete`, `Cancel`, `CancelBySession`, `MockAgent.Run`, `AgentBridge.StreamReply`, `dispatchWebhook` |
| Demo agent | `internal/agent/agent.go` | none | `StreamReply` |
| Tool cards | `internal/agent/tools.go` | none (an accumulator) | `ApplyToolEvent` |
| ACP client | `internal/grokacp/` | `conn`, `closed`, `pending`, `subs`, `loaded`, `configs`, `initOnce` | `EnsureConnected`, `LoadSession`, `Prompt`, `Cancel`, `readLoop`, `failAll` |
| Session store | `internal/sessions/sessions.go` | one JSON file per session | `Create`, `Get`, `AppendMessage`, `EnsureDemoSessions` |
| Pairing and tokens | `internal/auth/auth.go` | pairing code, token (memory and `auth.json`), hits of the limiter | `Pair`, `RotateToken`, `RotatePairingCode`, `Allow` |
| Restart | `internal/restart/restart.go`, `scripts/supervise.sh` | `scheduled`, `lastReq`, a flag file | `Request`, the supervisor's loop |
| Usage | `internal/grokusage/` | last snapshot, fetch time | `Snapshot`, `Refresh`, `NoteLimitError` |
| Build sessions on disk | `internal/buildsessions/` | none (scans another program's files) | `List`, `Get`, `ResolveMeta` |
| Web page | `web/app.js`, `web/model-selector.js` | open session, feed, `turnActive` | `sendMessage`, `openSession`, `mergeTranscript`, `catchUp` |

How they meet:

- `runChat` calls the adapter (`StreamReply`) and ranges over the channel it
  returns. The adapter is `DemoAgent` or `AgentBridge`; the latter creates a job
  and forwards the job's queue until an `assistant_done`, a cancellation or the
  deadline.
- A remote agent drives a job over `/bridge/v1/jobs/{id}/events`, `/complete` and
  `/cancel`; the page's Stop button reaches both the turn (`cancelTurn`) and the
  session's jobs (`CancelBySession`).
- Turns of one session exclude each other by the session's mutex; the Stop button
  finds the running one through one slot per session, guarded by another mutex.
- The transcript on disk is the only thing that survives a crash of the hub.

What is hard: job state is written by five code paths without a lock; channels
with a bound whose senders drop; two-step cancellation; failures between saving a
message and saving its reply; a crash in between; reconnection of the ACP client
while turns use it; two goroutines that write to one WebSocket; snapshots against
broadcasts; files that another program is writing while they are read. `PROJECT.json`
lists these as hazards, at the line where each bites, with the properties that cover
it or why none does.

## 2. Modules

| Module | What it is |
|---|---|
| `ReplyStream` | abstract: what the hub may assume of an adapter's channel |
| `BridgeJob`, `BridgeJobProofs` | one bridge job and every goroutine that touches it |
| `HubTurns`, `HubTurnsProofs` | turns of native chats, Stop, transcript, broadcasts, crash |
| `AcpClient`, `AcpClientProofs` | the shared JSON-RPC client of `grok agent serve` |
| `BuildTurns`, `BuildTurnsProofs` | turns of one Grok Build session: `runBuildChat` around `Client.Prompt` |
| `Fanout`, `FanoutProofs` | WebSocket clients, `Broadcast`, subscriptions and snapshots |
| `Replies` | one reply: `DemoAgent`, and the loop that collects text and tool cards |
| `HubProcess`, `HubProcessProofs` | start, pairing, rotations, restarts and crashes of the process |
| `UsageCache` | the cached weekly usage and the limits that turns meet |
| `ReplyAndUsageProofs` | the theorems about `Replies` and about `UsageCache` |
| `BuildListing`, `BuildListingProofs` | Grok Build sessions listed, created and opened from files the agent writes |
| `MC...` | instances of these modules for TLC |

`ReplyStream` is implemented three times: by `BridgeJob` (checked and proved), by
`BuildTurns` (each `Prompt`) and by `Replies` (`DemoAgent`), which are all the producers
of a turn's events. `HubTurns` is written against it: its `Hear` and `CloseChannel` are the
adapter, as the hub sees it. `BridgeJob!StreamCloses` and
`BridgeJob!CancelUnblocksWaiter` are what the two fairness assumptions of `HubTurns` on
adapters rest on. `HubTurns` and `BuildTurns` take `Broadcast` as one step that appends
to a sequence of events; `Fanout` opens that step and takes turns as producers of items
instead. `AcpClient` has what the client does up to and including one request;
`BuildTurns` has what `Prompt` does with it, over a connection that is up or lost.

### BridgeJob

A process per goroutine: the `StreamReply` goroutine (`Consumer`), whichever of
`MockAgent.Run`, `dispatchWebhook` or `handleBridgeJobs` goes with the job
(`Agent`), and HTTP handlers (`Callers`). `pc` says what each does next, `arg` what
its current call is about.

The registry's mutex guards the map only, so every access to `job.Status`, every
channel send and every `markDone` is a step of its own. `EnqueueEvent` is
`EnqueueCheck`, `EnqueueRun`, `EnqueueSend`, `EnqueueEnd`; `Complete` and `Cancel`
share `EndStatus`, `EndSend`, `MarkDone` after a check of their own, as their code
does the same in the same order. `job.Status` is a Go string without
synchronisation. A torn read of it equals none of the literals it is compared with
and so means "not ended", which a stale check means already.

Data are abstracted to what the code branches on: an event is a `delta` or one of
four kinds of `assistant_done`. `completed_at` is left out (nothing reads it).
The channel `out` (128) is taken as unbounded: `runChat` drains it until it is
closed and never leaves before. The webhook's URL, headers and body are left out;
its answer may come at any time or never say "running".

`handleCancelSession` calls `cancelTurn` and then `CancelBySession`. They are separate: the first may
find no turn in the slot, or the one before, when the second finds the job. So `SessionCancel` cancels
the turn's context or leaves it alone.

In mock mode the job's id is only logged; the model still lets callers act on it,
which adds behaviours.

### HubTurns

A process per turn, `pc` being where it is in `runChat`; a `Stop` is a request that
takes the CancelFunc (`TakeCancel`) and calls it (`CallCancel`) in two steps, as
`cancelTurn` does. `handlePostMessage` is the turn's `answer`, fed by `note` (`idCh`
and `errCh`), with its timer (`AnswerTimeout`) free to fire at any time.
`AppendMessage` appends or fails with nothing changed: the store replaces the file
by a rename under its own mutex (`sessions.go:316-330`). `wire` is the sequence of
events `Broadcast` sent for a session: `hub.mu` orders them. `StartReply` hands the history to the
adapter, or an empty one if `Store.Get` fails; the adapter may refuse the turn (`note` is then "refused",
and "both" once `errCh` has the error as well as `idCh` the id), which ends it without an event. `Crash` loses memory and
connections and keeps the transcript. Turns that were not sent yet can be sent after
a crash.

The texts of replies and the tool cards they carry are left out, as is the usage
cache that limit errors are reported to.

### AcpClient

A caller is a goroutine with one call to make, under a context that can be cancelled at any
time. `EnsureConnected` is `Check`, `Dial` (or `DialElsewhere`, `DialFails`), `StartAgent`
and `WaitInit`; the goroutine `waitInit` starts for `initOnce.Do` is a process of its own
(`waiter`), since the caller may leave it behind. `Client.request`, for the caller's own
request and for `initialize`, is `Register`, `Write` and `GetReply` or `Abandon`: `mu` is
released between them, so `Write` takes whatever connection there is by then. Each
connection has a read loop (`reader`) that delivers answers (`Answer`) and, once the socket
is lost, runs `failAll` in the three steps its locks give it. What the agent knows
(`welcomed`, `known`, `asked`) is kept per connection.

`sync.Once` is modelled as its two fields. `dial` overwrites both while a goroutine may be
inside `Do`; that goroutine's `Unlock` then releases somebody else's mutex, or, if nobody
holds it, the Go runtime ends the process (`Abort`). A torn read of `initErr` is left out.

`NewSession` and `LoadSession` fill the cache of loaded sessions; `Prompt` and
`SetConfigOption` are the calls that only send a request. Subscriptions and `Cancel`'s
notification are in `BuildTurns`. Working directories (LoadSession compares them) and
configuration options are left out, and so is `Close`: it is called by tests and on the probe
client of `AutoStart` only.

### BuildTurns

A process per turn (`pc`: `runBuildChat` from the session's mutex to its release), one per
`Prompt` (`prompt`: the goroutine behind the channel) and one per request (`req`: the
goroutine `Prompt` starts for `session/prompt`, which goes on by itself after a Stop).
`queue` is the subscription (128), `out` the channel of events (64); both have a capacity
in the model and drop or block where the code does: `publishUpdate` drops on a full
queue, the loop of `Prompt` blocks on a full channel, its drain drops. Which case of Go's
`select` is taken when several are ready is free, so a Stop may also swallow the update that
was just received (`SeeCancel`).

A Stop is `StopTurn` (`cancelTurn`) and `StopAgent` (`takeBuildRaw` and the hub's own
`session/cancel`). What is written to the agent stands in `toAgent`, in order; the agent
reads it, works on prompts (`running`), remembers which were told to stop (`halted`), sends
updates for the session and answers. Updates go by the session id, so every subscription of
the session gets them, a later turn's too. `Lose` is `failAll`: subscriptions are forgotten
without being closed and requests fail. `EnsureConnected` is one step here. The 50 ms for
which `Prompt` waits for late updates are enough for what is queued already, and may or may
not be for what is not (`Drained` asks for an empty queue only).

`ensureBuildLoaded`, titles and the model of the session are left out; whether the session
is found on disk (`onDisk`) is free until it is found.

### Fanout

`clients` and `subs` are `Hub.clients`; a connection's `pc` is where `handleWS` is: upgraded
and registered but not yet greeted ("hello"), reading, with a transcript read ("read"),
registered with the answer to write ("snapshot"), leaving. `cast` is the `Broadcast` that holds
`hub.mu`: it writes to its audience one after the other, sets the deadline before each
(`CastBegin`), and drops and closes those that failed at its end.

gorilla/websocket keeps a write deadline until it is set again, fails all writes after one that
failed, and allows one writer: when the handler and `Broadcast` are both in a write, either the
second panics or the frames are mixed and the connection is of no use ("failed"). A panic of the
handler is recovered by net/http after its deferred cleanup; a panic in the goroutine of a turn
ends the process (`dead`). A handler that panics in the hello has no deferred cleanup yet and
leaves its entry behind ("deaf"). The client may stall, come back, or go at any time.

A session's turns are a counter of items on disk (`saved`) and one of items broadcast (`told`):
user messages are saved first, replies told first. `gap` is bookkeeping for the property, not
state of the code: the items told before a client was registered that were not in the
transcript it had read.

### Replies

`DemoAgent`'s goroutine is a script of events with a pause after most; where it sends or waits
it may see a Stop. Any other adapter ("other") sends any sequence from a set of tool events and
deltas, which is what `AgentBridge` passes on from a remote agent. `Hear` is the loop of
`runChat`: text, `ApplyToolEvent`, `assistant_done`. Texts are counted in words. A card is id,
name, status and which event its result came from; `findToolRow`'s matching by id, then by name
among open cards, is `Find`.

### HubProcess

`Start`, `Seed`, `Listen` are `main`: credentials are loaded or made, the flag is cleared,
demo chats are written if there are none, one file at a time. `Pair` and `Rotate` change
`Store.data` first, `Write` may fail, `Answer` is the handler's; `op` holds `Store.mu` for them.
Every code and token is a number of its own (the code makes them at random). `hits` is the
limiter of one client: the clock does not run backwards, so what `Allow` drops as too old is a
prefix (`Forget`) and what it keeps is the rest (`Kept`). `Crash` may come at any step; files are written beside and renamed, so a
crash leaves the old or the new one. `StartAuth` reads the credentials, or makes new ones if the file is
not there, cannot be read or does not parse. The supervisor (external, from `scripts/supervise.sh`) looks
for the flag and starts the process again; `InterruptItself` is the signal `Request` sends.

### UsageCache

The mutex, the snapshot, and where each caller is: `Snapshot` decides whether to refresh, lets
the mutex go, and `Refresh` decides again. A fetch holds the mutex and ends with what billing
says, what the log says, or neither. A percentage is "full" (99.95 or more, at the limit),
"some" or none; dates are there or not. `Note` is `NoteLimitError` of a turn that ended with
the error of the weekly pool or of the short window.

### BuildListing

A walk reads of each directory the summary (`ReadSummary`), then, unless that says enough, the chat
history and, if no person is in it, the updates (`ReadLines`): each file in a step of its own, `step` and
`row` being what it reads next and what it has read. The agent may begin and end writing a summary at any
time, with a torn file in between, and append lines. `due` is bookkeeping for the property, not state of
the code: the chats that a walk cannot miss. A line is what the code's
predicates tell apart: whether it is JSON, its size (fits, long, huge), shape, role and kind of
text. `HumanIn` is the listing's view of a chat, `Messages` the view when it is opened: the
two are separate parsers in the code. `GrokHome` is worked out at each call, from what is on disk.
`created` is what `createBuildSession` remembers, and `Restart` loses.

`UsageCache` calls its `Init`, `Next`, `Spec` and so on `UsageInit`, `UsageNext`, `UsageSpec`: one module
extends it and `Replies` and proves theorems about both (an INSTANCE would leave the constants'
assumption unproved). They share no state and no lemma but that about `Append`.

## 3. Runs

All bounds are named constants. Deadlock checking is off only where the system may really come
to rest: a job that ended, a hub nobody writes to, a client all of whose callers have returned.

| Run | Question | Result |
|---|---|---|
| `job` | all four modes, two concurrent callers, two calls, queue of 1: invariants, refinement of `ReplyStream`, nobody is left waiting | holds |
| `job_cancelled_stays` | a cancelled job stays cancelled | **violated** |
| `hub` | two turns of a session, one Stop, one crash, saves that fail, adapters that refuse a turn or close only when cancelled: invariants and liveness | holds |
| `acp_safety` | two callers, two connections, each call with its own context | holds |
| `acp_returns` | one connection, an agent the hub starts: every call returns | holds |
| `build_turns` | two turns of a Build session, one Stop, one loss, channels of 1, one update each | holds |
| `fanout` | two clients, one item, one client that stalls or goes, two requests | holds |
| `fanout_answered` | a client that reads gets the snapshot it asked for | **violated** |
| `replies` | a demo reply of two words and a Stop; four events of eight kinds about two calls of one tool | holds |
| `process` | two demo chats, two attempts in two ticks, six calls, ticks or crashes | holds |
| `usage` | two callers, two turns that meet a limit, a TTL of 1, two ticks | holds |
| `listing` | three directories in two homes, two ids, two summaries, two lines written | holds |

Five more configurations are kept for what the code does not keep. Each gives TLC one statement of the
repository to refute, on a model that the runs above check; TLC finds each violated.

| Configuration | Statement | Source of the statement |
|---|---|---|
| `MCBridgeJob_cancel_unblocks.cfg` | `CancelUnblocks`: a cancelled job has no waiter left in the end | `bridge.go:165` |
| `MCAcpClient_agent_outlives.cfg` | `AgentOutlivesCaller`: an agent the hub started outlives the call that needed it | `autostart.go:38` |
| `MCAcpClient_load_resumes.cfg` | `LoadResumes`: a load that is answered from the cache is of a session the agent has open | `client.go:234` |
| `MCUsageCache_short_window.cfg` | `ShortWindowKept`: a fetch that got nothing keeps the reset of the short window | `usage.go:204` |
| `MCBuildListing_huge_line.cfg` | `HugeLinesSkipped`: a chat that is opened shows every message but the huge lines | `buildsessions.go:380` |

Why the bounds are enough. Job: the races are between at most two callers, the
agent and the reader, since every step reads or writes one of `status`, `queue` and
`done`. A queue of one place is full after one event, and so reaches every "dropped" branch
that 128 places would reach after 128; the same goes for the channels of `BuildTurns` and
`Replies`. Turns: a holder of the mutex and a waiter are all the roles there are; three turns
and two sessions were checked while `HubTurns` was written. ACP client: a
connection that dies and its successor are what a stale read loop, Once or cache entry
needs; two callers put one of them at each end. Build turns: a stopped turn and
the one after it are what late updates, answers and cancels can mix up. Fan-out: one client speaks
and one listens, so that a write meets another's `Broadcast`; one item is saved before or
told before, and one trouble is a stall or a departure at any moment. Process: six calls are a
window that slides over three attempts, or a pairing whose write fails, a crash and a pairing with
the old code. Usage: two callers decide together and one of them waits; two ticks are a fetch, its
TTL and a stale one. Listing: two directories of one name, an id stated by another, and a home
that takes over need three directories and two summaries. Replies: two calls and two results of
one tool, in any order, with and without ids, are four events.

### Properties

`BridgeJob`:

- `EndCloses`: whatever shows that a job is over comes with `job.done` closed, or a
  goroutine that will close it without waiting. `MockAgent.push` blocks for ever
  otherwise. (Unknown modes are excepted: `StreamReply` returns there without
  `markDone`, and no mock runs.)
- `StopExplained`: the reader leaves without an `assistant_done` only if the turn was
  cancelled or its deadline had passed.
- `ImplementsStream`: what the hub is sent is a stream of `ReplyStream`.
- `StreamCloses`, `MockStops`: nobody is left waiting once the deadline has come.
- `CancelUnblocksWaiter`: the waiter returns without the deadline's help once its turn is stopped, an
  `assistant_done` is queued or the bridge's cancel endpoint was called. That a cancelled job is enough
  (`CancelUnblocks`) does not hold: section 4.

`HubTurns`:

- `StopFinds`: the slot holds only the turn that holds the mutex and has not left
  (`SlotIsRunning`), which is what makes `clearTurnCancel`, which deletes whatever it finds,
  correct; and a running turn is in the slot, taken by a Stop, or cancelled (`StopReaches`).
- `HistoryComplete`: the adapter is given the turn's message last, after messages of
  turns that are over.
- `WireOrdered`: clients see turns one after another (`WireBracketed`), each that its adapter took
  with exactly one `assistant_done`, at its end, and a refused one with none (`OneFinal`).
- `TranscriptAgrees`: a stored reply follows its message, and is marked cancelled
  exactly when the clients were told so.
- `OkMeansSaved`: a message answered with an id is on disk, also after a crash.
- `TurnsFinish`, `StopEndsTurn`: turns end.

`AcpClient`:

- `OneReader`: the read loop that reads is the current connection's, which is why
  `failAll`, which clears whatever connection there is, never kills a later one.
- `WaitsForSomething`: a request that waits is in the map and was asked on the connection
  that is read, or a `failAll` holds it; no dial, failure or late write makes it forgotten.
- `AgentAgreed`: on the first connection nothing is asked before `initialize` was accepted,
  whoever sent it, and what is cached as loaded was opened by an agent. On later connections
  neither is more than that: see section 4 (`LoadResumes` does not hold).
- `CallsReturn`: every call returns.

`BuildTurns`:

- `PromptComplete`: `Prompt` never closes its channel without an `assistant_done`, stopped,
  lost or overtaken (`PromptSaysEnd`), and a reply that was answered has every update of it that was
  queued (`NothingLeftBehind`), although the answer may be seen before them.
- `TurnsApart`: the agent works on one prompt of the session at a time, unless one was stopped
  (`OnePromptAtATime`), and clients see the turns one after the other, but for the late error
  of `chat.send` (`BuildBracketed`).
- `PromptIsStream`: each `Prompt` implements `ReplyStream`.
- `StopEndsTurn`: a stopped turn ends, whether the agent answers or reads or not.

`Fanout`:

- `Registered`: no entry of a handler that returned is left (`NoZombie`), although `Broadcast` drops
  entries behind a handler's back and a subscribe makes them again.
- `OnlyGapMissed`: a client on a working connection has every item told, as an event or in its
  snapshot, but those of the gap between reading the transcript and registering. A handler that
  panicked before it wrote its snapshot is excepted: it is on its way to close the connection.
- `BroadcastEnds`, `FailedForgotten`: a client that reads nothing holds `hub.mu` for its deadline
  at most, and one whose write failed is gone from the hub at last.

`Replies`: `SavedIsSaid` (a demo reply is saved with as many words as there are deltas among the events
that were sent, and is whole unless marked cancelled), `CardsSound` (a card per id and the last result of that id in it; without ids no
result replaces another), `DemoIsStream` (`DemoAgent` implements `ReplyStream`).

`HubProcess`: `PairingHolds` (a code is accepted once, over failed writes and crashes; a token that was
handed out works until it is rotated, or a start cannot read `auth.json`), `AttemptsBounded` (the limiter's window, exactly),
`FlagIsMine` (a flag left by a dead process stops nobody), `SeededOnce`.

`UsageCache`: `FetchesApart` ("safe to call often"), `AnswersFresh`, `NothingInvented` ("never invented
numbers"), `LimitsKept` (the mark of the empty weekly pool goes only when billing or the log tells of a
pool that is not empty, its reset only when one of them answers). Of the short window `LimitsKept` says
only what the code keeps: its mark outlives a failed fetch if the snapshot is an error's own, and a billing
answer; that its reset survives (`ShortWindowKept`) does not hold: section 4.

`BuildListing`: `RowsSound` (no id twice; a row opens, if the summary names its own directory and
none of that name is being written), `ListComplete` (a list that is answered has every session whose
creation this process has answered and every chat with a person that was on disk when its walk began,
unless its summary is being written anew), `BubbleListed` (a chat history that opens with a "You" bubble
is one with a person), `RowsStay` (a later line never hides a chat).

The invariants `TypeOK` of `BridgeJob`, `HubTurns` and `AcpClient` are theorems and need no run of
their own; those of the other modules are conjuncts of one property each (`FetchesApart`,
`CardsSound`, `AttemptsBounded` and so on), and theorems too.

### Fairness

`BridgeJob!FairSpec` gives each goroutine weak fairness: Go runs what can run, and
the webhook's POST has a 30 s timeout. No caller has to start a call, and the deadline
does not have to come; `StreamCloses` assumes it does (`time.After(remaining)`).

`HubTurns!HubFairness` gives each turn, each HTTP answer and each taken CancelFunc weak
fairness. A turn waiting for the mutex is enabled only while it is free; there are
finitely many turns, and `sync.Mutex` hands itself to a waiter that starves. `FairSpec`
asks of an adapter only that it closes its channel once cancelled; `TurnsFinish` assumes
that every adapter closes at last (`AdaptersClose`).

`AcpClient!FairSpec` gives each goroutine weak fairness and has the agent answer what it
was asked, or the connection drop. An agent that neither answers nor hangs up would keep
`initialize` waiting for ever: its context is `context.Background()`. The run has one
connection, because `dial` overwrites the Once together with the mutex inside it, and a
goroutine asleep on that mutex may then not be woken: with two connections weak fairness
of `EnterOnce` would be more than the code gives.

`BuildTurns!FairSpec` gives the goroutines of a turn, its `Prompt` and its request weak fairness.
`SeeCancel` has its own, because a `select` takes a ready case at random: an agent that sends for
ever does not keep `ctx.Done()` from being taken. Nothing is asked of the agent or the connection.

`Fanout!FairSpec` gives the `Broadcast` that runs and each handler weak fairness, and lets a
deadline pass once set. No client has to read, to send or to leave.

The other modules have safety properties only and need none.

## 4. What the code does not keep

With a run or a configuration that shows it:

- **A cancelled job comes back to life** (`bridge.go:573`). `dispatchWebhook` sets
  `job.Status = "running"` when its POST is answered. If the job was cancelled in the
  meantime, an agent polling `status_url` as `docs/AGENT_BRIDGE.md:154` tells it to
  never sees the cancellation. Run `job_cancelled_stays`.
- **A subscription is not answered** (`server.go:94`). The write deadline of the last `Broadcast` stays on
  the connection. An answer that the handler writes more than 10 s later fails with it, and so does
  everything after. Run `fanout_answered`.
- **A cancelled job keeps its waiter** (`bridge.go:189`), against the comment at `bridge.go:165`. On a full
  queue `Cancel`'s event is dropped, and `job.done` wakes only senders. The turn's context is cancelled by
  `cancelTurn`, which `handleCancelSession` calls before `CancelBySession` (`server.go:867`, `:870`): if the
  turn takes its slot in between, the Stop misses it, and the waiter stays until the deadline. Configuration
  `MCBridgeJob_cancel_unblocks.cfg`. (`runChat` makes an `assistant_done` up when the stream closes without one.)
- **The agent dies with the call that started it** (`autostart.go:31`), against `autostart.go:38`. Configuration
  `MCAcpClient_agent_outlives.cfg`.
- **A session taken for loaded that is not** (`client.go:240`), against `client.go:234`. `failAll` empties the
  cache after it has let `mu` go (`client.go:671-681`), and an answer may be stored after that
  (`client.go:261`): the next connection goes by the last one's cache. Configuration `MCAcpClient_load_resumes.cfg`.
- **A line of more than 2 MiB ends a transcript** (`buildsessions.go:382`), against `buildsessions.go:380`
  ("skip"). Configuration `MCBuildListing_huge_line.cfg`.
- **A failed fetch forgets the short window** (`usage.go:211`), against `usage.go:204`. After a billing answer the
  5-hour reset and mark that an error added to it are not copied. Configuration `MCUsageCache_short_window.cfg`.

Met while modelling; the models have these behaviours, and the properties are stated around them:

- An ended job accepts events (`bridge.go:573`, `:98`), against the comment at `bridge.go:155`:
  the same write after the agent completed the job, or `EnqueueEvent`'s own after a stale check.
- The bridge's cancel of a job reaches whichever turn of the session is running (`server.go:1388`).
- A request on a connection that is not initialized (`client.go:576`), against `client.go:83`: a call
  checks the connection once and then writes to whichever is there.
- `session/cancel` may be written before the `session/prompt` it is about (`client.go:389`): the agent
  then works on a prompt that nobody waits for.
- `publishUpdate` may send on a channel that `unsub` has closed (`client.go:445`), which panics.
- A card's status is any string that a `tool_call` names (`tools.go:119`), against `tools.go:103`
  ("running | done | error"); a card whose status is none of them is open until a result comes. `Statuses`
  has what adapters say.
- A handler that panics in its hello leaves an entry that nobody reads from (`server.go:1193`). Concurrent
  writes to one connection mix frames or panic; `Registered` and `OnlyGapMissed` except those connections.
- A client that subscribes misses what is told between the read of the transcript and its registration
  (`server.go:1246`); `OnlyGapMissed` says that it misses nothing else.
- An adapter that returns an error ends the turn after its `user_message` with neither `assistant_done` nor
  reply (`server.go:986-989`), though the sender may have its 200 with the message's id. No adapter of the
  repository returns one.
- A failing `Store.Get` is ignored (`server.go:970`): the adapter is given an empty history, which
  `HistoryComplete` excepts.
- A failing `Prompt` ends in two `assistant_done` events, its own and that of `chat.send` (`server.go:1278`);
  `TurnsApart` excepts the second.
- Updates are dropped when a subscription is full, and events when `Prompt` drains and its channel is full
  (`client.go:443`); `PromptComplete` speaks of what was queued.
- A summary whose id is not its directory's name is listed and cannot be opened (`buildsessions.go:291`);
  `RowsSound` excepts it.
- A session that was created and is not on disk yet is forgotten by a restart (`server.go:201`): until it
  is, it is in no list and does not open. `ListComplete` speaks of what this process has created.
- A record of the log that is older than a limit just met lifts it (`usage.go:188`): it is marked "may be
  stale" and taken all the same. `LimitsKept` leaves it free.
- A process that starts and cannot read or parse `auth.json` makes new credentials (`auth.go:112-119`): every
  paired client has to pair again.
- Results of parallel calls without ids, or with ids that no call had, go to the first open card of that
  name (`agent/tools.go:75`) and may be swapped. `CardsSound` says only that none is overwritten.
- The rotations answer with a token or code that was not written (`auth.go:230`): after a restart the revoked
  one is back, which `PairingHolds` excepts. And
  `restart.Controller.scheduled` is never taken back (`restart.go:47`).
- `handlePostMessage` answers 500 "send failed" after 10 s although a turn queued behind a
  long one is still saved and run (`server.go:929`).

## 5. Proofs

All theorems hold for any constants that satisfy the module's `ConstantsAssumption` (in `UsageCache`:
`UsageAssumption`): well-typed constants, None and the process names distinct.

`BridgeJobProofs`. `TypeOK` is inductive by itself (with `ArgOK`: a caller's argument is
a mode while it starts a job).

| Theorem | States | Along |
|---|---|---|
| `TypeCorrect` | `[]TypeOK` | one case per action |
| `EndsClose` | `[]EndCloses` | `EndInv`: any evidence that the job is over (also the reader's own place in the code) comes with `done` or a goroutine closing it. Nobody makes new evidence without that, and it is stable |
| `StopsExplained` | `[]StopExplained` | `StreamInv`: the reader leaves its `select` without an event only because it was cancelled or out of time, and has stopped once it sent a final event |
| `JobImplementsStream` | `ImplementsStream` | from `StreamInv`: each step of the reader is a step of `ReplyStream` or a stutter, the others leave the stream alone |

`HubTurnsProofs`. All safety invariants of `HubTurns` are theorems. The argument
goes up in layers, each inductive given the ones before it:

| Theorem | States | Along |
|---|---|---|
| `TypeCorrect` | `[]TypeOK` | one case per action |
| `StopAlwaysFinds` | `[]StopFinds` | `LockInv`: a turn past `Lock` and before `Unlock` is the holder of its session's mutex, and the holder is such a turn. Whoever writes or empties the slot therefore is its own occupant (`SlotsAreRunning`), and a running turn that is not there was taken or cancelled (`StopsReach`) |
| `OkIsSaved` | `[]OkMeansSaved` | `NotedSaved`: the id is reported only after the append, and transcripts only grow (`TranscriptGrows`) |
| `HistoriesComplete` | `[]HistoryComplete` | `DiskInv`: a running turn's message is the last of its session's transcript; `Alone`: other turns that wrote there are over |
| `WiresOrdered` | `[]WireOrdered` | `WireInv`: the latest event of a session is of the turn that is running, or ended its turn, unless that was refused or lost (`WiresBracketed`); `FinalInv`: `final[t]` is exactly what the clients of `t` were told (`FinalsAreUnique`) |
| `TranscriptsAgree` | `[]TranscriptAgrees` | `DiskInv` and `FinalInv` at `SaveReply`; messages and events stay where they are |

`AcpClientProofs`.

| Theorem | States | Along |
|---|---|---|
| `TypeCorrect` | `[]TypeOK` | one case per action |
| `OneReaderHolds` | `[]OneReader` | inductive with `TypeOK`: dial finds no connection, so nobody reads |
| `WaitsHold` | `[]WaitsForSomething` | `IInv`: without a connection the map is empty, so the map `dial` throws away is; the read loop it starts is a new one; and a request is in the map or held by a `failAll` from its registration on, not only from its write |
| `AgentHasAgreed` | `[]AgentAgreed` | `LoadInv`: an agent knows a session before a reply says so, and an answer comes after a request; `OnceInv`: as long as one connection was dialled the Once works, nobody passes it but behind the one goroutine inside, which leaves `initErr` as its `initialize` was answered |

`ReplyAndUsageProofs`, about `Replies`, for any length of the demo reply, any capacity of the channel, any
events of another adapter and any number of them. All rests on `ShapeInv`: the sender, the channel and what
the loop has collected have their shape, each card's result came from an event that had one, and a message
that is saved is what was collected when the channel was closed and empty.

| Theorem | States | Along |
|---|---|---|
| `SavedAsSaid` | `[]SavedIsSaid` | `DemoInv`: for some k, `DemoAgent` has sent the first k events of its script (`Said`), and maybe an end; whatever of it is not in the channel any more (`InChannel`) is what the loop knows (`Known`): the words, the card and whether there was an end. An end that is not marked as cancelled is the script's own. `WordsFacts` and `HearScript` go through the script once; `DemoCall` and `DemoResult` are `ApplyToolEvent` on its two tool events |
| `CardsAreSound` | `[]CardsSound` | `ToolStep`: an event makes a card or changes one that it names or that has no result yet (`ApplyFacts`, `FindFacts` on `ApplyToolEvent` and `findToolRow`). So cards stay apart (`CardsApart`); with ids, the ids of the cards are those of the events and each has its last result (`Ordered`: the fallback to the name cannot be reached then); without, both sides of `NoResultOverwritten` grow by one, or neither. That there are as many cards as ids follows from the bijection between them |
| `DemoImplementsStream` | `DemoIsStream` | `StreamInv`: while a sender may still send, nothing it sent is an end; each of its steps is a step of `ReplyStream` or a stutter |

`SavedIsSaid` is not inductive: it says nothing before the message is saved, so `DemoInv` has to say what
is on its way in the channel. Nor is `CardsSound`: that there are as many cards as ids says nothing of which
ids they have.

`ReplyAndUsageProofs`, about `UsageCache`. `UsageInv` is `UsageTypeOK`, `Begun` and, inductive with them:
`Apart` (each fetch begins a TTL after the one before), `Clock` (who waits for a fetch called before it
began), `Cached` (between fetches the cache has the last one's time) and `AnswersFresh`.

| Theorem | States | Along |
|---|---|---|
| `UsageTypeCorrect` | `[]UsageTypeOK` | one case per action, with `Begun`: while somebody fetches there is a last fetch |
| `FetchesAreApart` | `[]FetchesApart` | `Cached`: whoever begins a fetch found the last one to be old |
| `AnswersAreFresh` | `[]AnswersFresh` | `Clock` and `Cached`: an answer is a cached one that is young or a fetch begun after the call |
| `NothingIsInvented` | `[]NothingInvented` | inductive with `UsageTypeOK` |
| `LimitsAreKept` | `LimitsKept` | `LimitStep`: one case per action that writes the snapshot |

`HubProcessProofs`. `IInv` is `TypeOK` with the three invariants below.

| Theorem | States | Along |
|---|---|---|
| `PairingsHold` | `[]PairingHolds` | `PairInv`: numbers that were handed out are below `next` (`AuthOK`), so a new code was never accepted; a `Pair` under way has replaced its code in memory and, once written, on disk (`PairUnderWay`); a token that is held is the one on disk (`HeldKept`) |
| `FlagsAreMine` | `[]FlagIsMine` | `FlagInv`: only a process that is up has a restart scheduled |
| `TypeCorrect` | `[]TypeOK` | one case per action, with `CountInv` for the counters |
| `AttemptsAreBounded` | `[]AttemptsBounded` | `LimiterInv`: the hits are the latest attempts that were allowed, in the order of their times, and those that were forgotten are a `Window` old (`Spaced`) |
| `SeededAtMostOnce` | `[]SeededOnce` | `SeedInv`: as long as the hub seeds there are only demo chats, no two of one sample; `Start` begins it only where there is no chat |

`FanoutProofs`. `IInv` is `TypeOK` and, inductive with it:

| Theorem | States | Along |
|---|---|---|
| `TypeCorrect` | `[]TypeOK` | one case per action |
| `AllRegistered` | `[]Registered` | inductive with `TypeOK`: the deferred cleanup takes the entry and closes the connection in the handler's last step, and only its own messages make the entry again |
| `OnlyTheGapIsMissed` | `[]OnlyGapMissed` | `AboutOK`: a handler that has read a transcript knows whose; `SnapOK`: snapshots are of a transcript as it was read, and each has all that an earlier one had; `Covered`: the property while a `Broadcast` is under way, for all items but the one it is about to send to that client |

`BuildTurnsProofs`. The layers of `IInv`:

| Theorem | States | Along |
|---|---|---|
| `TypeCorrect` | `[]TypeOK` | in parts (`TypeStages`, `TypeOut`, `TypeQueue`), one case per action |
| `RepliesComplete` | `[]PromptComplete` | `StageInv` (below) has what a `Prompt` has said at each stage; `OutcomeInv`: what it says at its end is what its request came to; `AgentInv`: a prompt on its way to the agent or with it is there once and not answered; so (`QueueInv`) none of its updates is queued after it has drained its subscription |
| `TurnsAreApart` | `[]TurnsApart` | `HoldInv`: the turns that are past the session's mutex are its holder; `StageInv`: how far a turn, its `Prompt` and its request are, together; `AgentInv`; `LastInv`: the last event that clients got is of the turn that is running, or the late error of another |
| `PromptKeepsContract` | `PromptIsStream` | `StageInv`: every step of a `Prompt` is a step of `ReplyStream` or a stutter, those of others leave its stream alone |

`BuildListingProofs`. `IInv` is `Basis` (`TypeOK`; `Remembered`: what was answered is in the finite set of
what was created; `Written`: a whole summary is one that was written), and about the rows of the walk and
of the last list `ListOK`, `RowOK`, `DueOK` and `StaysDue`. The property alone is not inductive: between two
files of a directory it says nothing of what was read already and what is left.

| Theorem | States | Along |
|---|---|---|
| `RowsAreSound` | `[]RowsSound` | `ListOK`: ids are apart (`Apart`), and each row is from a directory of the walk's home (`Of`) that has a summary. `FirstPlace`: a set of directories that is not empty has a first one, the one that `findSessionDir` takes |
| `ListsComplete` | `ListComplete` | `Remembered`, and `CreatedRowsFacts`: the merge adds a row for each created session that has none, and no other. `DueOK`: a chat that is due has its row once the walk is behind it, and while the walk is between two of its files the person is in one that it has yet to read, whatever is appended meanwhile |
| `BubblesAreListed` | `[]BubbleListed` | the predicates of the two parsers, line by line |
| `RowsAlwaysStay` | `RowsStay` | `Believed`: unless the summary was begun anew, a row says what its directory says now, and a human turn once seen stays; `RowOK`: so does a row that is half read; `StaysDue`: when the same home is walked again, all such rows are due |

In `HubTurnsProofs` the strengthenings are needed because none of the properties names the mutex, while each
holds only because of it: without `LockInv` an arbitrary state that satisfies, say,
`SlotIsRunning` lets another turn empty the slot in the next step.

What the attempts to prove showed of the models, which were changed for it:

- `OnlyGapMissed` was not inductive and not true of more items than the run has: a handler that panics
  on its way to the snapshot never sends it. The property now says so. The model let a handler read a
  transcript while it was still writing its last answer; it does not any more.
- A window of hits as a filter (`SelectSeq`) cannot be reasoned about without induction over sequences.
  The hits are in the order of time, so the code's filter drops a prefix, and that is what `Forget` says.
  In the same way `BuildListing` asks whether there is a line of a kind, not for the sequence of such lines,
  and `SavedIsSaid` counts the places of the deltas in what was sent.
- `Replies!Statuses` had the three statuses of the comment in `tools.go`; the types of `ApplyToolEvent` are
  provable only if it has what adapters say as well, which is what the code passes on.

Every safety invariant, action property and refinement that a passing run checks is a theorem. Only
model-checked: everything about liveness (`StreamCloses`, `MockStops`, `CancelUnblocksWaiter`,
`TurnsFinish`, `StopEndsTurn`, `CallsReturn`, `BroadcastEnds`, `FailedForgotten`), which TLAPS cannot
prove from fairness.

## 6. Plan

1. `HubJobs`: several jobs and turns of one session, the bridge's cancel hitting a later
   turn, jobs that nobody reads.
2. The composition of `BuildTurns` with `AcpClient`'s connection instead of a connection that is up
   or lost.

## 7. Not modelled

- The web page (`web/app.js`, `web/model-selector.js`, the service worker): optimistic bubbles,
  catch-up and session switches are callbacks around the DOM and timers; a model would have to invent
  what the browser does.
- HTTP routing, the authentication middleware, static files: stateless; what the handlers change is in
  the module of the component they call.
- Endpoint discovery, TLS, install scripts and assets: they read files or set a host up.
- Configuration options and permission requests of the ACP client, `handleSetSessionModel`,
  `buildsessions/status.go`: data for display that is passed through.
- Texts, titles, times, logging and JSON encoding, everywhere.

`PROJECT.json` has the status of each component.

## 8. Running it

`tlc -config MCBridgeJob.cfg MCBridgeJob` checks a run, `tlapm BridgeJobProofs.tla`
a proof module. `PROJECT.json` maps every definition to the lines it models and gives, for
every property, a mutant of a mapped definition that breaks it.
